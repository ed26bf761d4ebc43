------------------------------- MODULE Countdown -------------------------------
(***************************************************************************)
(* What a timer promises: once started it expires after its load delay,    *)
(* counted in time units during which it was running, and the time that    *)
(* was left when it was paused is what is left when it is resumed.  There  *)
(* is no clock here, only the time that is left.                           *)
(***************************************************************************)
EXTENDS Integers

CONSTANTS Loads,        \* load delays a client may program
          Delays        \* time annotations a client may pass with a call

VARIABLES mode,         \* "stopped", "running" or "paused"
          left,         \* running time until the timer expires
          load,         \* the programmed delay
          continuous,   \* start over when expired
          triggered     \* the timer expired

vars == <<mode, left, load, continuous, triggered>>

Init ==
  /\ mode = "stopped"
  /\ left = 0
  /\ load = 0
  /\ continuous = FALSE
  /\ triggered = FALSE

Program(l) == /\ load' = l
              /\ UNCHANGED <<mode, left, continuous, triggered>>

SetMode(c) == /\ continuous' = c
              /\ UNCHANGED <<mode, left, load, triggered>>

Mark(b) == /\ triggered' = b
           /\ UNCHANGED <<mode, left, load, continuous>>

Begin(d) == /\ mode = "stopped"
            /\ mode' = "running"
            /\ left' = load + d
            /\ UNCHANGED <<load, continuous, triggered>>

Freeze(d) == /\ mode = "running"
             /\ left > d
             /\ mode' = "paused"
             /\ left' = left - d
             /\ UNCHANGED <<load, continuous, triggered>>

Thaw(d) == /\ mode = "paused"
           /\ mode' = "running"
           /\ left' = left + d
           /\ UNCHANGED <<load, continuous, triggered>>

Halt == /\ mode' = "stopped"
        /\ left' = 0
        /\ UNCHANGED <<load, continuous, triggered>>

Clear == /\ mode' = "stopped"
         /\ left' = 0
         /\ load' = 0
         /\ continuous' = FALSE
         /\ triggered' = FALSE

Elapse == /\ mode = "running"
          /\ left > 0
          /\ left' = left - 1
          /\ UNCHANGED <<mode, load, continuous, triggered>>

Expire == /\ mode = "running"
          /\ left = 0
          /\ triggered' = TRUE
          /\ IF continuous
               THEN left' = load /\ UNCHANGED mode
               ELSE mode' = "stopped" /\ UNCHANGED left
          /\ UNCHANGED <<load, continuous>>

Next ==
  \/ \E l \in Loads : Program(l)
  \/ \E b \in BOOLEAN : SetMode(b) \/ Mark(b)
  \/ \E d \in Delays : Begin(d) \/ Freeze(d) \/ Thaw(d)
  \/ Halt
  \/ Clear
  \/ Elapse
  \/ Expire

Spec == Init /\ [][Next]_vars
=============================================================================
