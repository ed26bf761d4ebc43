------------------------------- MODULE Delivery -------------------------------
(***************************************************************************)
(* What a queue of scheduled interrupts promises: every interrupt that is  *)
(* sent is delivered at most once and never before its time, and nothing   *)
(* is delivered that was not sent.  Interrupts are told apart by a number; *)
(* there is no process and no wakeup here.                                 *)
(***************************************************************************)
EXTENDS Integers

CONSTANTS Ids,          \* the numbers interrupts are given
          Delays        \* how long after it is sent an interrupt may be due

VARIABLES now,          \* the current time
          waiting,      \* interrupts sent, each with the time it is due
          delivered,    \* the numbers of those delivered
          dropped       \* the numbers of those discarded

vars == <<now, waiting, delivered, dropped>>

Numbers == {w.id : w \in waiting}

Init ==
  /\ now = 0
  /\ waiting = {}
  /\ delivered = {}
  /\ dropped = {}

Send == \E n \in Ids, d \in Delays :
  /\ n \notin Numbers \cup delivered \cup dropped
  /\ waiting' = waiting \cup {[id |-> n, time |-> now + d]}
  /\ UNCHANGED <<now, delivered, dropped>>

Deliver == \E w \in waiting :
  /\ w.time <= now
  /\ waiting' = waiting \ {w}
  /\ delivered' = delivered \cup {w.id}
  /\ UNCHANGED <<now, dropped>>

Discard ==
  /\ dropped' = dropped \cup Numbers
  /\ waiting' = {}
  /\ UNCHANGED <<now, delivered>>

Pass ==
  /\ now' = now + 1
  /\ UNCHANGED <<waiting, delivered, dropped>>

Next == Send \/ Deliver \/ Discard \/ Pass

Spec == Init /\ [][Next]_vars
=============================================================================
