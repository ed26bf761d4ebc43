------------------------------ MODULE FlatMemory ------------------------------
(***************************************************************************)
(* What software expects of the platform's memories: one byte at each      *)
(* address that belongs to a memory, none elsewhere.  An access concerns   *)
(* consecutive addresses; it is done for all of them or refused, and a     *)
(* refused access changes nothing.  There are no buses and no ports here.  *)
(***************************************************************************)
EXTENDS Integers, Sequences

VARIABLES cell,         \* the content of each address that has a memory
          locked,       \* addresses that cannot be written
          answer        \* the last access: op, address, data, done

vars == <<cell, locked, answer>>

Span(a, data) == a .. a + Len(data) - 1

Init == ~answer.done

Read(a, data) ==
  /\ Span(a, data) \subseteq DOMAIN cell
  /\ \A i \in DOMAIN data : data[i] = cell[a + i - 1]
  /\ UNCHANGED <<cell, locked>>

Write(a, data) ==
  /\ Span(a, data) \subseteq DOMAIN cell \ locked
  /\ cell' = [x \in DOMAIN cell |->
                IF x \in Span(a, data) THEN data[x - a + 1] ELSE cell[x]]
  /\ UNCHANGED locked

Refuse == UNCHANGED <<cell, locked>>

Next ==
  \/ answer'.done /\ answer'.op = "read"  /\ Read(answer'.address, answer'.data)
  \/ answer'.done /\ answer'.op = "write" /\ Write(answer'.address, answer'.data)
  \/ ~answer'.done /\ Refuse

Spec == Init /\ [][Next]_vars
=============================================================================
