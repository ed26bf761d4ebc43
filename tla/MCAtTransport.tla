----------------------------- MODULE MCAtTransport -----------------------------
(***************************************************************************)
(* Two initiators, a memory at address 0 and a timer behind it, and one    *)
(* address where nothing is mapped.                                        *)
(***************************************************************************)
EXTENDS AtTransport

MCRegion == [memory |-> [first |-> 0, last |-> 3], timer |-> [first |-> 4, last |-> 7]]
MCAddresses == {1, 5, 9}
=============================================================================
