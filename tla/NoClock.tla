-------------------------------- MODULE NoClock --------------------------------
(***************************************************************************)
(* no_clock (no_clock/no_clock.hpp, no_clock.cpp): a clock without a       *)
(* process.  A caller asks how long it is until, or to the next, edge and  *)
(* waits that long, while other processes change the period, the offset,   *)
(* the duty cycle and the other settings of the clock at any moment.       *)
(*                                                                         *)
(* Times are whole ticks.  An sc_time is unsigned; its product with a      *)
(* double is rounded to the nearest tick, its quotient is cut (Clock_count_t*)
(* of a double), and its remainder is that of the ticks.                   *)
(***************************************************************************)
EXTENDS Integers, FiniteSets

CONSTANTS Periods,      \* periods a client sets, in ticks
          Duties,       \* duty cycles a client sets, in percent
          Offsets,      \* offsets, and sample and setedge times, a client sets
          Shifts,       \* temporal shifts a client sets
          MaxTime,      \* bound: simulation ends at this time
          MaxChanges,   \* bound: calls of the set functions
          MaxCycles     \* bound: cycles asked for in a wait

ASSUME NoClockAssumption ==
  /\ Periods \subseteq Nat \ {0}
  /\ Duties \subseteq 1 .. 99
  /\ Offsets \cup Shifts \subseteq Nat
  /\ {MaxTime, MaxChanges, MaxCycles} \subseteq Nat

VARIABLES now,          \* sc_time_stamp()
          clk,          \* the attributes of the clock
          sleep,        \* the process that waits on the clock
          changes,      \* calls of the set functions (history)
          before        \* whole cycles up to the last change of the period (history)

vars == <<now, clk, sleep, changes, before>>

\* cycles of m_tPERIOD times the duty cycle, rounded.
High(duty, period) == (duty * period + 50) \div 100

\* m_tPOSEDGE and m_tNEGEDGE follow from the offset, the duty cycle and the polarity.
Posedge(c) == IF c.positive THEN c.offset ELSE c.offset + High(c.duty, c.period)
Negedge(c) == IF c.positive THEN c.offset + High(c.duty, c.period) ELSE c.offset

Clocks == [period : Periods, duty : Duties, offset : Offsets, positive : BOOLEAN,
           posedge : Nat, negedge : Nat, sample : Nat, setedge : Nat,
           frequencySet : Nat, freqCount : Nat, baseCount : Nat, shift : Shifts \cup {0}]

Settings ==
  [period : Periods, duty : Duties, offset : Offsets, positive : BOOLEAN,
   sample : Offsets, setedge : Offsets]

\* The constructor with seven parameters, which global() calls.
New(s) ==
  [period |-> s.period, duty |-> s.duty, offset |-> s.offset, positive |-> s.positive,
   posedge |-> Posedge(s), negedge |-> Negedge(s),
   sample |-> s.sample, setedge |-> s.setedge,
   frequencySet |-> 0, freqCount |-> 0, baseCount |-> 0, shift |-> 0]

\* The original constructor leaves m_tPOSEDGE and m_tNEGEDGE zero and derives the
\* sample time and the setedge time.
NewOriginal(s) ==
  [New(s) EXCEPT
     !.posedge = 0, !.negedge = 0,
     !.sample  = IF s.positive THEN s.offset ELSE s.offset + High(100 - s.duty, s.period),
     !.setedge = IF s.positive THEN s.offset + High(s.duty, s.period) ELSE s.offset]

\* The constructors refuse an offset, a sample or a setedge time beyond the period.
Constructed == {c \in {New(s) : s \in Settings} \cup {NewOriginal(s) : s \in Settings} :
                  {c.offset, c.sample, c.setedge} \subseteq 0 .. c.period - 1}

Awake == [asleep |-> FALSE]

Init ==
  /\ now = 0
  /\ clk \in Constructed
  /\ sleep = Awake
  /\ changes = 0
  /\ before = 0

-----------------------------------------------------------------------------
(* Questions to the clock c *)

\* Variant: the edge of this period, past or not.
DelayInPeriod(c, offset) == offset - ((now + c.shift) % c.period)

\* delay()
Delay(c, offset) ==
  LET remainder == (now + c.shift) % c.period
  IN IF remainder <= offset THEN offset - remainder ELSE c.period + offset - remainder

\* clocks(), cycles()
WholeCycles(c, zero) == (now + c.shift - zero) \div c.period
Cycles(c) == c.baseCount + WholeCycles(c, c.frequencySet)

\* Variant: a clock that starts low is read upside down.
ReadUpsideDown(c) ==
  IF c.positive THEN Delay(c, c.negedge) < Delay(c, c.posedge)
                ELSE Delay(c, c.posedge) < Delay(c, c.negedge)

\* read()
Read(c) == Delay(c, c.negedge) < Delay(c, c.posedge)

\* The edge that an "any" edge stands for at this moment.
EdgeOf(c, edge) ==
  IF edge = "any" THEN (IF Read(c) THEN c.negedge ELSE c.posedge) ELSE c[edge]

\* until_posedge ... until_setedge
Until(c, edge, n) == n * c.period + Delay(c, EdgeOf(c, edge))

\* Variant: an edge that is now is the next one.
NextEdgeNow(c, edge, n) == Until(c, edge, n)

\* next_posedge ... next_setedge
NextEdge(c, edge, n) ==
  LET t == Delay(c, EdgeOf(c, edge))
  IN (n + (IF t = 0 THEN 1 ELSE 0)) * c.period + t
-----------------------------------------------------------------------------
(* The process that waits *)

Edges == {"posedge", "negedge", "any", "sample", "setedge"}
Sleeping ==
  [asleep : {TRUE}, how : {"until", "next"}, edge : Edges, n : 0 .. MaxCycles,
   from : Nat, wake : Nat, steady : BOOLEAN]

\* wait_posedge ... wait_setedge wait until the edge; a wait of no time returns at
\* once.  A client waits for a next_ edge by itself.
WaitFor(how, edge, n) ==
  /\ ~sleep.asleep
  /\ LET t == IF how = "until" THEN Until(clk, edge, n) ELSE NextEdge(clk, edge, n)
     IN sleep' = [asleep |-> TRUE, how |-> how, edge |-> edge, n |-> n,
                  from |-> now, wake |-> now + t, steady |-> TRUE]
  /\ UNCHANGED <<now, clk, changes, before>>

Wake ==
  /\ sleep.asleep
  /\ sleep.wake = now
  /\ sleep' = Awake
  /\ UNCHANGED <<now, clk, changes, before>>

-----------------------------------------------------------------------------
(* Settings.  A value that the code refuses ends the simulation; it is not given. *)

Set(c) ==
  /\ changes < MaxChanges
  /\ changes' = changes + 1
  /\ clk' = c
  /\ sleep' = IF sleep.asleep THEN [sleep EXCEPT !.steady = FALSE] ELSE sleep
  /\ UNCHANGED now

\* Variant: the cycles of the old period are forgotten.
WithPeriodAnew(c, period) ==
  [c EXCEPT !.freqCount = @ + 1, !.period = period, !.frequencySet = now]

\* Neither edge is computed anew, and sample and setedge times are not checked anew.
WithPeriod(c, period) ==
  [c EXCEPT !.freqCount = @ + 1, !.baseCount = @ + Cycles(c),
            !.period = period, !.frequencySet = now]

\* set_frequency, set_period_time
SetPeriodTime(period) ==
  /\ Set(WithPeriod(clk, period))
  /\ before' = before + WholeCycles(clk, clk.frequencySet)

SetOffsetTime(offset) == Set([clk EXCEPT !.offset = offset]) /\ UNCHANGED before

SetDutyCycle(duty) ==
  LET c == [clk EXCEPT !.duty = duty]
  IN Set([c EXCEPT !.posedge = Posedge(c), !.negedge = Negedge(c)]) /\ UNCHANGED before

SetSampleTime(t) ==
  /\ t < clk.period
  /\ Set([clk EXCEPT !.sample = t])
  /\ UNCHANGED before

SetSetedgeTime(t) ==
  /\ t < clk.period
  /\ Set([clk EXCEPT !.setedge = t])
  /\ UNCHANGED before

SetTimeShift(t) == Set([clk EXCEPT !.shift = t]) /\ UNCHANGED before

\* The kernel advances time to the next wakeup (external).
Tick ==
  /\ now < MaxTime
  /\ sleep.asleep => sleep.wake # now
  /\ now' = now + 1
  /\ UNCHANGED <<clk, sleep, changes, before>>

Next ==
  \/ \E how \in {"until", "next"}, edge \in Edges, n \in 0 .. MaxCycles : WaitFor(how, edge, n)
  \/ Wake
  \/ \E period \in Periods : SetPeriodTime(period)
  \/ \E offset \in Offsets : SetOffsetTime(offset)
  \/ \E duty \in Duties : SetDutyCycle(duty)
  \/ \E t \in Offsets : SetSampleTime(t) \/ SetSetedgeTime(t)
  \/ \E t \in Shifts : SetTimeShift(t)
  \/ Tick

Spec == Init /\ [][Next]_vars

-----------------------------------------------------------------------------
(* Properties *)

\* Times and counts are unsigned: no question about an edge, after any sequence of
\* settings, is answered with a time in the past.
TypeOK ==
  /\ now \in 0 .. MaxTime
  /\ clk \in Clocks
  /\ clk.frequencySet <= now
  /\ sleep = Awake \/ sleep \in Sleeping
  /\ sleep.asleep => sleep.from <= now /\ now <= sleep.wake
  /\ changes \in 0 .. MaxChanges
  /\ before \in Nat

Phases(c, edge) == {c[e] : e \in IF edge = "any" THEN {"posedge", "negedge"} ELSE {edge}}
OnEdge(c, edge, t) == \E p \in Phases(c, edge) : (t + c.shift) % c.period = p % c.period

\* A process that waited on a clock nobody changed wakes on the edge it waited for.
\* When the edge lies inside the period, exactly the cycles it asked for have passed:
\* no edge is skipped and none is taken twice.  The next edge of either kind, asked for
\* on an edge, is the one exception: next_anyedge then skips the other edge.
WakesOnEdge ==
  (sleep.asleep /\ sleep.steady /\ now = sleep.wake) =>
    /\ OnEdge(clk, sleep.edge, now)
    /\ (/\ Phases(clk, sleep.edge) \subseteq 0 .. clk.period - 1
        /\ sleep.how = "next" /\ sleep.edge = "any" => ~OnEdge(clk, "any", sleep.from)) =>
       LET first  == IF sleep.how = "until" THEN sleep.from ELSE sleep.from + 1
           passed == {t \in first .. now - 1 : OnEdge(clk, sleep.edge, t)}
       IN Cardinality(passed) = sleep.n * Cardinality(Phases(clk, sleep.edge))

\* Between its edges the clock reads the level that the last edge left: high from the
\* rising edge to the falling one.
ReadIsLevel ==
  (Phases(clk, "any") \subseteq 0 .. clk.period - 1 /\ ~OnEdge(clk, "any", now)) =>
    (Read(clk) <=> (now + clk.shift - clk.posedge) % clk.period
                     < (clk.negedge - clk.posedge) % clk.period)

\* The count of cycles never runs back, whatever is set, unless the clock is shifted
\* back in time.
CyclesNeverRunBack == [][clk'.shift >= clk.shift => Cycles(clk)' >= Cycles(clk)]_vars

\* "Number of clock cycles since start" (no_clock.hpp:155), from below: no change of
\* the period loses a whole cycle of the periods before it.  (The sum is not exact:
\* cycles() includes the base count to which no_clock.cpp:173 adds it, so a further
\* change counts the earlier cycles again.)
NoCycleLost == Cycles(clk) >= before + WholeCycles(clk, clk.frequencySet)
=============================================================================
