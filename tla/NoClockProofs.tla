----------------------------- MODULE NoClockProofs -----------------------------
(***************************************************************************)
(* What holds of a clock without a process for every period, duty cycle,   *)
(* offset and shift that clients set, at every time and in every order.    *)
(* Three facts about division by a period carry all of it.  The questions  *)
(* of NoClock are asked now; they are restated here for any moment, so     *)
(* that the end of a wait can be compared with its beginning.              *)
(***************************************************************************)
EXTENDS NoClock, FiniteSetTheorems, TLAPS

-----------------------------------------------------------------------------
(* Division by a period *)

LEMMA Division ==
  ASSUME NEW x \in Int, NEW d \in Nat \ {0}
  PROVE  /\ x \div d \in Int /\ x % d \in 0 .. d - 1
         /\ x = d * (x \div d) + (x % d)
<1>1. x \div d \in Int
  OBVIOUS
<1>2. x % d \in 0 .. d - 1
  OBVIOUS
<1>3. x = d * (x \div d) + (x % d)
  OBVIOUS
<1>4. QED
  BY <1>1, <1>2, <1>3

\* A quotient and a remainder below the period are those of the division.
LEMMA DivisionIsUnique ==
  ASSUME NEW d \in Nat \ {0}, NEW q \in Int, NEW r \in 0 .. d - 1, NEW x \in Int,
         x = d * q + r
  PROVE  x % d = r /\ x \div d = q
  OBVIOUS

LEMMA DivisionIsMonotone ==
  ASSUME NEW x \in Int, NEW y \in Int, NEW d \in Nat \ {0}, x <= y
  PROVE  x \div d <= y \div d
  OBVIOUS

LEMMA DivisionOfNat ==
  ASSUME NEW x \in Nat, NEW d \in Nat \ {0}
  PROVE  x \div d \in Nat
  OBVIOUS

\* Whole periods do not move a time within its period.
LEMMA WholePeriods ==
  ASSUME NEW x \in Int, NEW d \in Nat \ {0}, NEW q \in Int
  PROVE  (x + q * d) % d = x % d
<1>1. x \div d \in Int /\ x % d \in 0 .. d - 1 /\ x = d * (x \div d) + (x % d)
  BY Division
<1>2. \A k \in Int : d * k + q * d = d * (k + q) /\ k + q \in Int
  OBVIOUS
<1>3. x + q * d = d * (x \div d + q) + (x % d) /\ x \div d + q \in Int /\ x + q * d \in Int
  BY <1>1, <1>2
<1>4. QED
  BY <1>1, <1>3, DivisionIsUnique

-----------------------------------------------------------------------------
(* Clocks *)

LEMMA ConstantTypes ==
  /\ \A period \in Periods : period \in Nat \ {0}
  /\ \A duty \in Duties : duty \in 1 .. 99
  /\ \A t \in Offsets : t \in Nat
  /\ \A t \in Shifts \cup {0} : t \in Nat
  /\ MaxTime \in Nat /\ MaxChanges \in Nat /\ MaxCycles \in Nat
<1>1. /\ Periods \subseteq Nat \ {0} /\ Duties \subseteq 1 .. 99
      /\ Offsets \cup Shifts \subseteq Nat
  BY NoClockAssumption
<1>2. MaxTime \in Nat /\ MaxChanges \in Nat /\ MaxCycles \in Nat
  BY NoClockAssumption
<1>3. QED
  BY <1>1, <1>2

LEMMA ClockFields ==
  ASSUME NEW c \in Clocks
  PROVE  /\ c.period \in Periods /\ c.period \in Nat \ {0}
         /\ c.duty \in Duties /\ c.duty \in 1 .. 99
         /\ c.offset \in Offsets /\ c.offset \in Nat
         /\ c.positive \in BOOLEAN
         /\ c.posedge \in Nat /\ c.negedge \in Nat /\ c.sample \in Nat /\ c.setedge \in Nat
         /\ c.frequencySet \in Nat /\ c.freqCount \in Nat /\ c.baseCount \in Nat
         /\ c.shift \in Shifts \cup {0} /\ c.shift \in Nat
<1>1. /\ c.period \in Periods /\ c.duty \in Duties /\ c.offset \in Offsets
      /\ c.posedge \in Nat /\ c.negedge \in Nat /\ c.sample \in Nat /\ c.setedge \in Nat
      /\ c.frequencySet \in Nat /\ c.freqCount \in Nat /\ c.baseCount \in Nat
      /\ c.shift \in Shifts \cup {0}
  BY DEF Clocks
<1>2. c.positive \in BOOLEAN
  BY DEF Clocks
<1>3. c.period \in Nat \ {0} /\ c.duty \in 1 .. 99 /\ c.offset \in Nat /\ c.shift \in Nat
  BY <1>1, ConstantTypes
<1>4. QED
  BY <1>1, <1>2, <1>3

LEMMA HighIsNat ==
  ASSUME NEW duty \in 0 .. 100, NEW period \in Nat
  PROVE  High(duty, period) \in Nat
<1>1. duty * period \in Nat
  OBVIOUS
<1>2. QED
  BY <1>1, DivisionOfNat DEF High

LEMMA EdgesAreNat ==
  ASSUME NEW c, c.offset \in Nat, c.period \in Nat, c.duty \in 1 .. 99
  PROVE  Posedge(c) \in Nat /\ Negedge(c) \in Nat
<1>1. c.duty \in 0 .. 100
  OBVIOUS
<1>2. High(c.duty, c.period) \in Nat
  BY <1>1, HighIsNat
<1>3. QED
  BY <1>2 DEF Posedge, Negedge

LEMMA WithEdgesIsClock ==
  ASSUME NEW c \in Clocks, NEW pos \in Nat, NEW neg \in Nat
  PROVE  /\ [c EXCEPT !.posedge = pos, !.negedge = neg] \in Clocks
         /\ [c EXCEPT !.posedge = pos, !.negedge = neg].frequencySet = c.frequencySet
  BY DEF Clocks

LEMMA ConstructedAreClocks == \A c \in Constructed : c \in Clocks /\ c.frequencySet = 0
<1>1. ASSUME NEW s \in Settings
      PROVE  /\ New(s) \in Clocks /\ New(s).frequencySet = 0
             /\ NewOriginal(s) \in Clocks /\ NewOriginal(s).frequencySet = 0
  <2>1. /\ s.period \in Periods /\ s.duty \in Duties /\ s.offset \in Offsets
        /\ s.sample \in Offsets /\ s.setedge \in Offsets
    BY DEF Settings
  <2>2. s.positive \in BOOLEAN
    BY DEF Settings
  <2>3. s.period \in Nat /\ s.duty \in 1 .. 99 /\ s.offset \in Nat
        /\ s.sample \in Nat /\ s.setedge \in Nat
    BY <2>1, ConstantTypes
  <2>4. s.duty \in 0 .. 100 /\ 100 - s.duty \in 0 .. 100
    BY <2>3
  <2>5. Posedge(s) \in Nat /\ Negedge(s) \in Nat
    BY <2>3, EdgesAreNat
  <2>6. High(s.duty, s.period) \in Nat /\ High(100 - s.duty, s.period) \in Nat
    BY <2>3, <2>4, HighIsNat
  <2>7. New(s) \in Clocks /\ New(s).frequencySet = 0
    BY <2>1, <2>2, <2>3, <2>5 DEF New, Clocks
  <2>8. NewOriginal(s) \in Clocks /\ NewOriginal(s).frequencySet = 0
    <3> DEFINE sample  == IF s.positive THEN s.offset
                          ELSE s.offset + High(100 - s.duty, s.period)
               setedge == IF s.positive THEN s.offset + High(s.duty, s.period) ELSE s.offset
               c       == [New(s) EXCEPT !.posedge = 0, !.negedge = 0]
               d       == [c EXCEPT !.sample = sample, !.setedge = setedge]
    <3>1. sample \in Nat /\ setedge \in Nat
      BY <2>3, <2>6
    <3>2. NewOriginal(s) = d
      BY DEF NewOriginal
    <3>3. c \in Clocks /\ c.frequencySet = 0
      <4>1. \A b \in Clocks : /\ [b EXCEPT !.posedge = 0, !.negedge = 0] \in Clocks
                             /\ [b EXCEPT !.posedge = 0, !.negedge = 0].frequencySet
                                  = b.frequencySet
        BY WithEdgesIsClock
      <4>2. QED
        BY <2>7, <4>1
    <3> HIDE DEF sample, setedge, c
    <3>4. d \in Clocks /\ d.frequencySet = 0
      BY <3>1, <3>3 DEF Clocks
    <3>5. QED
      BY <3>2, <3>4
  <2>9. QED
    BY <2>7, <2>8
<1>2. QED
  BY <1>1 DEF Constructed

-----------------------------------------------------------------------------
(* The questions, asked at the time t *)

DelayAt(c, offset, t) ==
  LET remainder == (t + c.shift) % c.period
  IN IF remainder <= offset THEN offset - remainder ELSE c.period + offset - remainder

ReadAt(c, t) == DelayAt(c, c.negedge, t) < DelayAt(c, c.posedge, t)

EdgeAt(c, edge, t) ==
  IF edge = "any" THEN (IF ReadAt(c, t) THEN c.negedge ELSE c.posedge) ELSE c[edge]

WaitAt(c, how, edge, n, t) ==
  LET d == DelayAt(c, EdgeAt(c, edge, t), t)
  IN IF how = "until" THEN n * c.period + d
     ELSE (n + (IF d = 0 THEN 1 ELSE 0)) * c.period + d

LEMMA AskedNow ==
  ASSUME NEW c, NEW edge, NEW n
  PROVE  /\ \A offset : Delay(c, offset) = DelayAt(c, offset, now)
         /\ Read(c) = ReadAt(c, now)
         /\ Until(c, edge, n) = WaitAt(c, "until", edge, n, now)
         /\ NextEdge(c, edge, n) = WaitAt(c, "next", edge, n, now)
  BY DEF Delay, DelayAt, Read, ReadAt, EdgeOf, EdgeAt, Until, NextEdge, WaitAt

\* A delay is never negative, and leads to a time that has the phase asked for.  To a
\* phase within the period it is shorter than a period.
LEMMA DelayLeadsToEdge ==
  ASSUME NEW c \in Clocks, NEW offset \in Nat, NEW t \in Nat
  PROVE  /\ DelayAt(c, offset, t) \in Nat
         /\ \E q \in Int : t + c.shift + DelayAt(c, offset, t) = offset + q * c.period
         /\ offset < c.period => DelayAt(c, offset, t) < c.period
<1> DEFINE p == c.period
           x == t + c.shift
           r == x % p
           q == x \div p
<1>1. p \in Nat \ {0} /\ x \in Nat
  BY ClockFields
<1>2. DelayAt(c, offset, t) = IF r <= offset THEN offset - r ELSE p + offset - r
  BY DEF DelayAt
<1> HIDE DEF p, x, r, q
<1>3. q \in Int /\ r \in 0 .. p - 1 /\ x = p * q + r
  BY <1>1, Division DEF r, q
<1>4. DelayAt(c, offset, t) \in Nat
  BY <1>1, <1>2, <1>3
<1>5. offset < p => DelayAt(c, offset, t) < p
  BY <1>1, <1>2, <1>3
<1>6. \E k \in Int : x + DelayAt(c, offset, t) = offset + k * p
  <2>1. p * q = q * p /\ (q + 1) * p = q * p + p /\ q * p \in Int
    BY <1>1, <1>3
  <2>2. CASE r <= offset
    <3>1. x + DelayAt(c, offset, t) = offset + q * p
      BY <1>1, <1>2, <1>3, <2>1, <2>2
    <3>2. QED
      BY <1>3, <3>1
  <2>3. CASE ~(r <= offset)
    <3>1. x + DelayAt(c, offset, t) = offset + (q + 1) * p
      BY <1>1, <1>2, <1>3, <2>1, <2>3
    <3>2. q + 1 \in Int
      BY <1>3
    <3>3. QED
      BY <3>1, <3>2
  <2>4. QED
    BY <2>2, <2>3
<1>7. QED
  BY <1>4, <1>5, <1>6 DEF p, x

LEMMA EdgeIsPhase ==
  ASSUME NEW c \in Clocks, NEW edge \in Edges, NEW t \in Nat
  PROVE  EdgeAt(c, edge, t) \in Phases(c, edge) /\ EdgeAt(c, edge, t) \in Nat
<1>1. EdgeAt(c, edge, t) \in Phases(c, edge)
  BY DEF EdgeAt, Phases
<1>2. Phases(c, edge) \subseteq Nat
  BY ClockFields DEF Phases, Edges
<1>3. QED
  BY <1>1, <1>2

LEMMA WaitIsNat ==
  ASSUME NEW c \in Clocks, NEW how, NEW edge \in Edges, NEW n \in Nat, NEW t \in Nat
  PROVE  WaitAt(c, how, edge, n, t) \in Nat
<1> DEFINE d == DelayAt(c, EdgeAt(c, edge, t), t)
<1>1. d \in Nat
  BY EdgeIsPhase, DelayLeadsToEdge
<1> HIDE DEF d
<1>2. c.period \in Nat
  BY ClockFields
<1>3. n * c.period \in Nat /\ (n + 1) * c.period \in Nat /\ (n + 0) * c.period \in Nat
  BY <1>2
<1>4. WaitAt(c, how, edge, n, t) = IF how = "until" THEN n * c.period + d
                                   ELSE (n + (IF d = 0 THEN 1 ELSE 0)) * c.period + d
  BY DEF WaitAt, d
<1>5. QED
  BY <1>1, <1>3, <1>4

-----------------------------------------------------------------------------
(* Types *)

LEMMA SetKeepsTypes ==
  ASSUME TypeOK, NEW c \in Clocks, c.frequencySet <= now, Set(c), before' \in Nat
  PROVE  TypeOK'
<1>1. now' = now /\ clk' = c /\ changes' \in 0 .. MaxChanges
  BY ConstantTypes DEF Set, TypeOK
<1>2. CASE sleep \in Sleeping
  <2>1. sleep' = [sleep EXCEPT !.steady = FALSE]
    BY <1>2 DEF Set, Sleeping
  <2>2. /\ sleep' \in Sleeping /\ sleep'.from = sleep.from /\ sleep'.wake = sleep.wake
        /\ sleep.asleep
    BY <1>2, <2>1 DEF Sleeping
  <2>3. QED
    BY <1>1, <2>2 DEF TypeOK
<1>3. CASE sleep = Awake
  BY <1>1, <1>3 DEF Set, TypeOK, Awake
<1>4. QED
  BY <1>2, <1>3 DEF TypeOK

\* The cycles of a period are counted from below: the period was set in the past.
LEMMA CountIsNat ==
  ASSUME TypeOK
  PROVE  /\ WholeCycles(clk, clk.frequencySet) \in Nat
         /\ Cycles(clk) \in Nat
         /\ Cycles(clk) = clk.baseCount + WholeCycles(clk, clk.frequencySet)
<1>1. /\ clk.period \in Nat \ {0} /\ clk.shift \in Nat /\ clk.frequencySet \in Nat
      /\ clk.baseCount \in Nat
  BY ClockFields DEF TypeOK
<1>2. now \in Nat /\ clk.frequencySet <= now
  BY DEF TypeOK
<1>3. now + clk.shift - clk.frequencySet \in Nat
  BY <1>1, <1>2
<1>4. WholeCycles(clk, clk.frequencySet) \in Nat
  BY <1>1, <1>3, DivisionOfNat DEF WholeCycles
<1>5. QED
  BY <1>1, <1>4 DEF Cycles

LEMMA WithPeriodIsClock ==
  ASSUME TypeOK, NEW period \in Periods
  PROVE  WithPeriod(clk, period) \in Clocks /\ WithPeriod(clk, period).frequencySet = now
<1>1. clk \in Clocks /\ now \in Nat
  BY DEF TypeOK
<1>2. clk.baseCount + Cycles(clk) \in Nat /\ clk.freqCount + 1 \in Nat
  BY <1>1, CountIsNat, ClockFields
<1>3. QED
  BY <1>1, <1>2 DEF WithPeriod, Clocks

LEMMA WithDutyIsClock ==
  ASSUME NEW c \in Clocks, NEW duty \in Duties
  PROVE  LET d == [c EXCEPT !.duty = duty]
             e == [d EXCEPT !.posedge = Posedge(d), !.negedge = Negedge(d)]
         IN e \in Clocks /\ e.frequencySet = c.frequencySet
<1> DEFINE d == [c EXCEPT !.duty = duty]
<1>1. d \in Clocks /\ d.frequencySet = c.frequencySet
  BY DEF Clocks
<1> HIDE DEF d
<1>2. Posedge(d) \in Nat /\ Negedge(d) \in Nat
  BY <1>1, ClockFields, EdgesAreNat
<1>3. QED
  BY <1>1, <1>2, WithEdgesIsClock DEF d

LEMMA OtherSettingsAreClocks ==
  ASSUME NEW c \in Clocks, NEW t
  PROVE  /\ t \in Offsets => [c EXCEPT !.offset = t] \in Clocks
         /\ t \in Nat => [c EXCEPT !.sample = t] \in Clocks /\ [c EXCEPT !.setedge = t] \in Clocks
         /\ t \in Shifts => [c EXCEPT !.shift = t] \in Clocks
         /\ [c EXCEPT !.offset = t].frequencySet = c.frequencySet
         /\ [c EXCEPT !.sample = t].frequencySet = c.frequencySet
         /\ [c EXCEPT !.setedge = t].frequencySet = c.frequencySet
         /\ [c EXCEPT !.shift = t].frequencySet = c.frequencySet
  BY DEF Clocks

LEMMA SleepIsTyped ==
  ASSUME TypeOK, NEW how \in {"until", "next"}, NEW edge \in Edges, NEW n \in 0 .. MaxCycles,
         WaitFor(how, edge, n)
  PROVE  /\ sleep' \in Sleeping
         /\ sleep'.from = now /\ now <= sleep'.wake /\ sleep'.steady
         /\ sleep'.how = how /\ sleep'.edge = edge /\ sleep'.n = n
         /\ sleep'.wake = now + WaitAt(clk, how, edge, n, now)
<1> DEFINE w == WaitAt(clk, how, edge, n, now)
<1>1. sleep' = [asleep |-> TRUE, how |-> how, edge |-> edge, n |-> n,
                from |-> now, wake |-> now + w, steady |-> TRUE]
  BY AskedNow DEF WaitFor
<1>2. now \in Nat /\ n \in Nat /\ clk \in Clocks
  BY DEF TypeOK
<1>3. w \in Nat
  BY <1>2, WaitIsNat
<1> HIDE DEF w
<1>4. now + w \in Nat /\ now <= now + w
  BY <1>2, <1>3
<1>5. QED
  BY <1>1, <1>2, <1>4 DEF Sleeping, w

LEMMA TypesFromTheStart ==
  ASSUME Init
  PROVE  TypeOK
<1>1. clk \in Clocks /\ clk.frequencySet = 0
  BY ConstructedAreClocks DEF Init
<1>2. QED
  BY <1>1, ConstantTypes DEF Init, TypeOK, Awake

LEMMA StepKeepsTypes ==
  ASSUME TypeOK, [Next]_vars
  PROVE  TypeOK'
<1>1. clk \in Clocks /\ now \in Nat /\ clk.frequencySet <= now /\ before \in Nat
  BY DEF TypeOK
<1>2. ASSUME NEW how \in {"until", "next"}, NEW edge \in Edges, NEW n \in 0 .. MaxCycles,
             WaitFor(how, edge, n)
      PROVE  TypeOK'
  <2>1. UNCHANGED <<now, clk, changes, before>>
    BY <1>2 DEF WaitFor
  <2>2. /\ sleep' \in Sleeping /\ sleep'.from = now /\ now <= sleep'.wake
    BY <1>2, SleepIsTyped
  <2>3. now <= now
    BY <1>1
  <2>4. QED
    BY <2>1, <2>2, <2>3 DEF TypeOK
<1>3. CASE Wake
  BY <1>3 DEF Wake, TypeOK, Awake
<1>4. ASSUME NEW period \in Periods, SetPeriodTime(period)
      PROVE  TypeOK'
  <2>1. before' \in Nat
    BY <1>1, <1>4, CountIsNat DEF SetPeriodTime
  <2>2. now <= now
    BY <1>1
  <2>3. QED
    BY <1>4, <2>1, <2>2, WithPeriodIsClock, SetKeepsTypes DEF SetPeriodTime
<1>5. ASSUME NEW offset \in Offsets, SetOffsetTime(offset)
      PROVE  TypeOK'
  BY <1>1, <1>5, OtherSettingsAreClocks, SetKeepsTypes DEF SetOffsetTime
<1>6. ASSUME NEW duty \in Duties, SetDutyCycle(duty)
      PROVE  TypeOK'
  BY <1>1, <1>6, WithDutyIsClock, SetKeepsTypes DEF SetDutyCycle
<1>7. ASSUME NEW t \in Offsets, SetSampleTime(t) \/ SetSetedgeTime(t)
      PROVE  TypeOK'
  <2>1. t \in Nat
    BY ConstantTypes
  <2>2. QED
    BY <1>1, <1>7, <2>1, OtherSettingsAreClocks, SetKeepsTypes
       DEF SetSampleTime, SetSetedgeTime
<1>8. ASSUME NEW t \in Shifts, SetTimeShift(t)
      PROVE  TypeOK'
  BY <1>1, <1>8, OtherSettingsAreClocks, SetKeepsTypes DEF SetTimeShift
<1>9. CASE Tick
  <2>1. now' = now + 1 /\ now' \in 0 .. MaxTime /\ UNCHANGED <<clk, sleep, changes, before>>
    BY <1>9, ConstantTypes DEF Tick, TypeOK
  <2>2. clk.frequencySet \in Nat
    BY <1>1, ClockFields
  <2>3. clk.frequencySet <= now'
    BY <1>1, <2>1, <2>2
  <2>4. CASE sleep \in Sleeping
    <3>1. sleep.from \in Nat /\ sleep.wake \in Nat /\ sleep.asleep
      BY <2>4 DEF Sleeping
    <3>2. sleep.from <= now' /\ now' <= sleep.wake
      BY <1>1, <1>9, <2>1, <3>1 DEF Tick, TypeOK
    <3>3. QED
      BY <2>1, <2>3, <3>2 DEF TypeOK
  <2>5. CASE sleep = Awake
    BY <2>1, <2>3, <2>5 DEF TypeOK, Awake
  <2>6. QED
    BY <2>4, <2>5 DEF TypeOK
<1>10. CASE UNCHANGED vars
  BY <1>10 DEF vars, TypeOK
<1>11. QED
  BY <1>2, <1>3, <1>4, <1>5, <1>6, <1>7, <1>8, <1>9, <1>10 DEF Next

\* No question about an edge is answered with a time in the past, after any sequence
\* of settings of any values.
THEOREM ClockTypesAlways == Spec => []TypeOK
  BY TypesFromTheStart, StepKeepsTypes, PTL DEF Spec

-----------------------------------------------------------------------------
(* Cycles *)

\* The clock that each step leaves: the settings that the count of cycles depends on
\* change only in SetPeriodTime and SetTimeShift, and time changes only in Tick.
SameCount == /\ now' = now /\ before' = before
             /\ clk'.period = clk.period /\ clk'.shift = clk.shift
             /\ clk'.baseCount = clk.baseCount /\ clk'.frequencySet = clk.frequencySet

NewPeriod == \E period \in Periods :
  /\ now' = now /\ before' = before + WholeCycles(clk, clk.frequencySet)
  /\ clk'.period = period /\ clk'.shift = clk.shift
  /\ clk'.baseCount = clk.baseCount + Cycles(clk) /\ clk'.frequencySet = now

NewShift == /\ now' = now /\ before' = before
            /\ clk'.period = clk.period /\ clk'.shift \in Nat
            /\ clk'.baseCount = clk.baseCount /\ clk'.frequencySet = clk.frequencySet

Later == now' = now + 1 /\ before' = before /\ clk' = clk

LEMMA StepOfCount ==
  ASSUME TypeOK, [Next]_vars
  PROVE  SameCount \/ NewPeriod \/ NewShift \/ Later
<1>1. clk \in Clocks
  BY DEF TypeOK
<1>2. ASSUME NEW how, NEW edge, NEW n, WaitFor(how, edge, n)
      PROVE  SameCount
  BY <1>2 DEF WaitFor, SameCount
<1>3. CASE Wake
  BY <1>3 DEF Wake, SameCount
<1>4. ASSUME NEW period \in Periods, SetPeriodTime(period)
      PROVE  NewPeriod
  BY <1>1, <1>4 DEF SetPeriodTime, Set, WithPeriod, NewPeriod, Clocks
<1>5. ASSUME NEW offset, SetOffsetTime(offset)
      PROVE  SameCount
  BY <1>1, <1>5 DEF SetOffsetTime, Set, SameCount, Clocks
<1>6. ASSUME NEW duty, SetDutyCycle(duty)
      PROVE  SameCount
  BY <1>1, <1>6 DEF SetDutyCycle, Set, SameCount, Clocks
<1>7. ASSUME NEW t, SetSampleTime(t) \/ SetSetedgeTime(t)
      PROVE  SameCount
  BY <1>1, <1>7 DEF SetSampleTime, SetSetedgeTime, Set, SameCount, Clocks
<1>8. ASSUME NEW t \in Shifts, SetTimeShift(t)
      PROVE  NewShift
  BY <1>1, <1>8, ConstantTypes DEF SetTimeShift, Set, NewShift, Clocks
<1>9. CASE Tick
  BY <1>9 DEF Tick, Later
<1>10. CASE UNCHANGED vars
  BY <1>10 DEF vars, SameCount
<1>11. QED
  BY <1>2, <1>3, <1>4, <1>5, <1>6, <1>7, <1>8, <1>9, <1>10 DEF Next

\* What a change of the period makes of the count.
LEMMA NewPeriodCounts ==
  ASSUME TypeOK, NewPeriod
  PROVE  /\ WholeCycles(clk, clk.frequencySet)' \in Nat
         /\ Cycles(clk)' = clk.baseCount + Cycles(clk) + WholeCycles(clk, clk.frequencySet)'
<1>1. PICK period \in Periods :
        /\ now' = now /\ clk'.period = period /\ clk'.shift = clk.shift
        /\ clk'.baseCount = clk.baseCount + Cycles(clk) /\ clk'.frequencySet = now
  BY DEF NewPeriod
<1>2. now \in Nat /\ clk.shift \in Nat /\ period \in Nat \ {0}
  BY ClockFields, ConstantTypes DEF TypeOK
<1>3. WholeCycles(clk, clk.frequencySet)' = (now + clk.shift - now) \div period
  BY <1>1 DEF WholeCycles
<1>4. now + clk.shift - now \in Nat
  BY <1>2
<1>5. WholeCycles(clk, clk.frequencySet)' \in Nat
  BY <1>2, <1>3, <1>4, DivisionOfNat
<1>6. QED
  BY <1>1, <1>5 DEF Cycles

\* The whole cycles up to the last change are in the base count.
CountInv == TypeOK /\ clk.baseCount >= before

LEMMA CountInvAlways == Spec => []CountInv
<1>1. Init => CountInv
  <2>1. Init => clk.baseCount = 0 /\ before = 0
    <3>1. \A s : New(s).baseCount = 0 /\ NewOriginal(s).baseCount = 0
      BY DEF New, NewOriginal
    <3>2. QED
      BY <3>1 DEF Init, Constructed
  <2>2. 0 >= 0
    OBVIOUS
  <2>3. QED
    BY <2>1, <2>2, TypesFromTheStart DEF CountInv
<1>2. CountInv /\ [Next]_vars => CountInv'
  <2> SUFFICES ASSUME CountInv, [Next]_vars PROVE CountInv'
    OBVIOUS
  <2>1. TypeOK'
    BY StepKeepsTypes DEF CountInv
  <2>2. /\ clk.baseCount \in Nat /\ before \in Nat /\ clk.baseCount >= before
        /\ WholeCycles(clk, clk.frequencySet) \in Nat
        /\ Cycles(clk) = clk.baseCount + WholeCycles(clk, clk.frequencySet)
    BY ClockFields, CountIsNat DEF CountInv, TypeOK
  <2>3. clk'.baseCount >= before'
    <3>1. CASE NewPeriod
      <4>1. /\ before' = before + WholeCycles(clk, clk.frequencySet)
            /\ clk'.baseCount = clk.baseCount + Cycles(clk)
        BY <3>1 DEF NewPeriod
      <4>2. QED
        BY <2>2, <4>1
    <3>2. CASE SameCount \/ NewShift \/ Later
      BY <2>2, <3>2 DEF SameCount, NewShift, Later
    <3>3. QED
      BY <3>1, <3>2, StepOfCount DEF CountInv
  <2>4. QED
    BY <2>1, <2>3 DEF CountInv
<1>3. QED
  BY <1>1, <1>2, PTL DEF Spec

\* No sequence of changes of the period, to whatever periods, loses a whole cycle of
\* the periods before.
THEOREM NoCycleLostAlways == Spec => []NoCycleLost
<1>1. CountInv => NoCycleLost
  <2> SUFFICES ASSUME CountInv PROVE NoCycleLost
    OBVIOUS
  <2>1. /\ clk.baseCount \in Nat /\ before \in Nat /\ clk.baseCount >= before
        /\ WholeCycles(clk, clk.frequencySet) \in Nat
        /\ Cycles(clk) = clk.baseCount + WholeCycles(clk, clk.frequencySet)
    BY ClockFields, CountIsNat DEF CountInv, TypeOK
  <2>2. QED
    BY <2>1 DEF NoCycleLost
<1>2. QED
  BY <1>1, CountInvAlways, PTL

\* The count of cycles is monotone in every step but one that shifts the clock back.
THEOREM CyclesNeverRunBackAlways == Spec => CyclesNeverRunBack
<1> DEFINE w == WholeCycles(clk, clk.frequencySet)
           Monotone == clk'.shift >= clk.shift => Cycles(clk)' >= Cycles(clk)
<1>1. TypeOK /\ [Next]_vars => Monotone
  <2> SUFFICES ASSUME TypeOK, [Next]_vars, clk'.shift >= clk.shift
               PROVE  Cycles(clk)' >= Cycles(clk)
    OBVIOUS
  <2>1. /\ clk.baseCount \in Nat /\ w \in Nat /\ Cycles(clk) = clk.baseCount + w
        /\ clk.period \in Nat \ {0} /\ clk.shift \in Nat /\ clk.frequencySet \in Nat
        /\ now \in Nat
    BY ClockFields, CountIsNat DEF TypeOK
  <2>2. CASE NewPeriod
    <3>1. w' \in Nat /\ Cycles(clk)' = clk.baseCount + Cycles(clk) + w'
      BY <2>2, NewPeriodCounts
    <3> HIDE DEF w
    <3>2. QED
      BY <2>1, <3>1
  <2>3. CASE SameCount \/ NewShift \/ Later
    <3> DEFINE x == now + clk.shift - clk.frequencySet
    <3>1. /\ clk'.period = clk.period /\ clk'.baseCount = clk.baseCount
          /\ clk'.frequencySet = clk.frequencySet /\ now' \in {now, now + 1}
          /\ clk'.shift \in Nat
      BY <2>1, <2>3 DEF SameCount, NewShift, Later
    <3>2. x \in Int /\ x' \in Int /\ x <= x'
      BY <2>1, <3>1
    <3>3. w = x \div clk.period /\ w' = x' \div clk.period
      BY <3>1 DEF WholeCycles
    <3> HIDE DEF w, x
    <3>4. w <= w' /\ w \in Int /\ w' \in Int
      BY <2>1, <3>2, <3>3, Division, DivisionIsMonotone
    <3>5. Cycles(clk)' = clk.baseCount + w'
      BY <3>1 DEF Cycles, w
    <3>6. QED
      BY <2>1, <3>4, <3>5
  <2>4. QED
    BY <2>2, <2>3, StepOfCount
<1>2. TypeOK /\ [Next]_vars => [Monotone]_vars
  BY <1>1
<1>3. QED
  BY <1>2, ClockTypesAlways, PTL DEF Spec, CyclesNeverRunBack

-----------------------------------------------------------------------------
(* Levels and edges *)

\* How far a time x is from a phase of its period: zero on the phase, and otherwise
\* what is left of the period where the phase is past.
LEMMA DelayWithinPeriod ==
  ASSUME NEW c \in Clocks, NEW t \in Nat, NEW e \in 0 .. c.period - 1
  PROVE  LET r == (t + c.shift) % c.period
         IN /\ r \in 0 .. c.period - 1
            /\ DelayAt(c, e, t) = IF r <= e THEN e - r ELSE c.period + e - r
            /\ DelayAt(c, e, t) \in 0 .. c.period - 1
            /\ DelayAt(c, e, t) = 0 <=> r = e
            /\ e % c.period = e
<1> DEFINE p == c.period
           x == t + c.shift
           r == x % p
<1>1. p \in Nat \ {0} /\ x \in Int
  BY ClockFields
<1>2. DelayAt(c, e, t) = IF r <= e THEN e - r ELSE p + e - r
  BY DEF DelayAt
<1> HIDE DEF p, x
<1>3. r \in 0 .. p - 1
  BY <1>1, Division
<1>4. e \in 0 .. p - 1 /\ e \in Int /\ e = p * 0 + e
  BY <1>1 DEF p
<1>5. e % p = e
  BY <1>1, <1>4, DivisionIsUnique
<1> HIDE DEF r
<1>6. /\ DelayAt(c, e, t) \in 0 .. p - 1
      /\ DelayAt(c, e, t) = 0 <=> r = e
  BY <1>1, <1>2, <1>3, <1>4
<1>7. QED
  BY <1>2, <1>3, <1>5, <1>6 DEF p, x, r

\* The distance back from one time of a period to another, around the period.
LEMMA Around ==
  ASSUME NEW d \in Nat \ {0}, NEW x \in Int, NEW e \in 0 .. d - 1
  PROVE  (x - e) % d = IF x % d >= e THEN (x % d) - e ELSE (x % d) - e + d
<1> DEFINE r == x % d
           q == x \div d
<1>1. q \in Int /\ r \in 0 .. d - 1 /\ x = d * q + r
  BY Division
<1> HIDE DEF r, q
<1>2. d * (q - 1) = d * q - d /\ d * q \in Int /\ q - 1 \in Int
  BY <1>1
<1>3. CASE r >= e
  <2>1. x - e = d * q + (r - e) /\ r - e \in 0 .. d - 1 /\ x - e \in Int
    BY <1>1, <1>2, <1>3
  <2>2. (x - e) % d = r - e
    BY <1>1, <2>1, DivisionIsUnique
  <2>3. QED
    BY <1>3, <2>2 DEF r
<1>4. CASE ~(r >= e)
  <2> DEFINE back == q - 1
             rest == r - e + d
  <2>1. x - e = d * back + rest /\ back \in Int /\ rest \in 0 .. d - 1 /\ x - e \in Int
    BY <1>1, <1>2, <1>4
  <2> HIDE DEF back, rest
  <2>2. (x - e) % d = rest
    BY <2>1, DivisionIsUnique
  <2>3. QED
    BY <1>4, <2>2 DEF r, rest
<1>5. QED
  BY <1>3, <1>4

\* Between its edges a clock reads the level that the last edge left, for any period
\* and any edges within it, whichever comes first.
THEOREM ReadIsLevelAlways == Spec => []ReadIsLevel
<1>1. TypeOK => ReadIsLevel
  <2> SUFFICES ASSUME TypeOK, Phases(clk, "any") \subseteq 0 .. clk.period - 1,
                      ~OnEdge(clk, "any", now)
               PROVE  Read(clk) <=> (now + clk.shift - clk.posedge) % clk.period
                                      < (clk.negedge - clk.posedge) % clk.period
    BY DEF ReadIsLevel, Read
  <2> DEFINE p == clk.period
             x == now + clk.shift
             r == x % p
             pos == clk.posedge
             neg == clk.negedge
  <2>1. clk \in Clocks /\ now \in Nat /\ p \in Nat \ {0} /\ x \in Int
    BY ClockFields DEF TypeOK
  <2>2. pos \in 0 .. p - 1 /\ neg \in 0 .. p - 1
    BY DEF Phases
  <2>3. r # pos /\ r # neg
    BY <2>1, <2>2, DelayWithinPeriod DEF OnEdge, Phases
  <2>4. /\ r \in 0 .. p - 1 /\ neg % p = neg
        /\ DelayAt(clk, pos, now) = IF r <= pos THEN pos - r ELSE p + pos - r
        /\ DelayAt(clk, neg, now) = IF r <= neg THEN neg - r ELSE p + neg - r
    BY <2>1, <2>2, DelayWithinPeriod
  <2>5. now + clk.shift - clk.posedge = x - pos
    BY <2>1, <2>2, ClockFields
  <2>6. Read(clk) <=> DelayAt(clk, neg, now) < DelayAt(clk, pos, now)
    BY DEF Read, Delay, DelayAt
  <2> HIDE DEF p, x, pos, neg
  <2>7. (x - pos) % p = IF r >= pos THEN r - pos ELSE r - pos + p
    BY <2>1, <2>2, Around
  <2>8. (neg - pos) % p = IF neg % p >= pos THEN (neg % p) - pos ELSE (neg % p) - pos + p
    <3>1. neg \in Int
      BY <2>2
    <3>2. QED
      BY <2>1, <2>2, <3>1, Around
  <2> DEFINE toNeg == DelayAt(clk, neg, now)
             toPos == DelayAt(clk, pos, now)
             since == (x - pos) % p
             high  == (neg - pos) % p
  <2>9. /\ toNeg = IF r <= neg THEN neg - r ELSE p + neg - r
        /\ toPos = IF r <= pos THEN pos - r ELSE p + pos - r
        /\ since = IF r >= pos THEN r - pos ELSE r - pos + p
        /\ high = IF neg >= pos THEN neg - pos ELSE neg - pos + p
    BY <2>4, <2>7, <2>8 DEF r
  <2> HIDE DEF r, toNeg, toPos, since, high
  <2>10. toNeg < toPos <=> since < high
    <3>1. /\ p \in Int /\ r \in Int /\ pos \in Int /\ neg \in Int
          /\ 0 <= r /\ r < p /\ 0 <= pos /\ pos < p /\ 0 <= neg /\ neg < p
      BY <2>1, <2>2, <2>4
    <3>2. QED
      BY <2>3, <2>9, <3>1
  <2>11. QED
    BY <2>5, <2>6, <2>10 DEF p, x, pos, neg, toNeg, toPos, since, high
<1>2. QED
  BY <1>1, ClockTypesAlways, PTL

-----------------------------------------------------------------------------
(* Waits *)

\* A wait ends on an edge of the kind it was for.
LEMMA WaitEndsOnEdge ==
  ASSUME NEW c \in Clocks, NEW how \in {"until", "next"}, NEW edge \in Edges,
         NEW n \in Nat, NEW t \in Nat
  PROVE  OnEdge(c, edge, t + WaitAt(c, how, edge, n, t))
<1> DEFINE p == c.period
           e == EdgeAt(c, edge, t)
           d == DelayAt(c, e, t)
           w == WaitAt(c, how, edge, n, t)
<1>1. p \in Nat \ {0} /\ c.shift \in Nat
  BY ClockFields
<1>2. e \in Phases(c, edge) /\ e \in Nat
  BY EdgeIsPhase
<1>3. d \in Nat /\ \E q \in Int : t + c.shift + d = e + q * p
  BY <1>2, DelayLeadsToEdge
<1>4. \E m \in Nat : w = m * p + d
  <2>1. w = IF how = "until" THEN n * p + d ELSE (n + (IF d = 0 THEN 1 ELSE 0)) * p + d
    BY DEF WaitAt
  <2> HIDE DEF w, d, p
  <2>2. n + 1 \in Nat /\ n + 0 \in Nat
    OBVIOUS
  <2>3. QED
    BY <2>1, <2>2
<1> HIDE DEF w, d, p, e
<1>5. PICK q \in Int, m \in Nat : t + c.shift + d = e + q * p /\ w = m * p + d
  BY <1>3, <1>4
<1>6. t + w + c.shift = e + (q + m) * p
  <2>1. (q + m) * p = q * p + m * p /\ q * p \in Int /\ m * p \in Int
    BY <1>1
  <2>2. QED
    BY <1>1, <1>2, <1>3, <1>5, <2>1
<1>7. (e + (q + m) * p) % p = e % p
  <2>1. \A x \in Int, k \in Int : (x + k * p) % p = x % p
    BY <1>1, WholePeriods
  <2>2. e \in Int /\ q + m \in Int
    BY <1>2
  <2>3. QED
    BY <2>1, <2>2
<1>8. (t + w + c.shift) % p = e % p
  BY <1>6, <1>7
<1>9. QED
  BY <1>2, <1>8 DEF OnEdge, w, p

\* The products of a period are ordered as their factors.
LEMMA ProductsAreOrdered ==
  ASSUME NEW d \in Nat \ {0}, NEW j \in Int, NEW k \in Int
  PROVE  /\ d * j \in Int
         /\ j < k <=> d * j < d * k
         /\ d * j = d * k => j = k
         /\ d * (j - k) = d * j - d * k
<1>1. d * j \in Int /\ d * k \in Int /\ d * (j - k) = d * j - d * k
  OBVIOUS
<1>2. \A i \in Int : i > 0 => d * i > 0
  OBVIOUS
<1>3. k > j => d * k > d * j
  <2>1. d * (k - j) = d * k - d * j /\ k - j \in Int
    OBVIOUS
  <2>2. QED
    BY <1>1, <1>2, <2>1
<1>4. j > k => d * j > d * k
  <2>1. d * (j - k) = d * j - d * k /\ j - k \in Int
    OBVIOUS
  <2>2. QED
    BY <1>1, <1>2, <2>1
<1>5. QED
  BY <1>1, <1>3, <1>4

\* The times at which the clock c is at the phase e of its period.
EdgesAt(c, e, first, last) == {t \in first .. last : (t + c.shift) % c.period = e}

\* Where the first edge is f and the next n - 1 edges come before the end, but no
\* more, there are n edges: the k-th is f + (k - 1) periods.
LEMMA EdgesCounted ==
  ASSUME NEW c \in Clocks, NEW e \in 0 .. c.period - 1, NEW n \in Nat,
         NEW first \in Int, NEW last \in Int, NEW f \in first .. first + c.period - 1,
         (f + c.shift) % c.period = e,
         f + c.period * n - c.period <= last, last < f + c.period * n
  PROVE  /\ IsFiniteSet(EdgesAt(c, e, first, last))
         /\ Cardinality(EdgesAt(c, e, first, last)) = n
<1> DEFINE p == c.period
           S == EdgesAt(c, e, first, last)
           edge == [k \in 1 .. n |-> f + p * (k - 1)]
<1>1. p \in Nat \ {0} /\ c.shift \in Int /\ f \in Int /\ f >= first /\ f < first + p
  BY ClockFields
<1> HIDE DEF p
<1>2. ASSUME NEW k \in 1 .. n
      PROVE  edge[k] \in S
  <2>1. k - 1 \in Int /\ 0 <= k - 1 /\ k - 1 < n
    OBVIOUS
  <2>2. p * (k - 1) \in Int /\ 0 <= p * (k - 1) /\ p * (k - 1) <= p * n - p /\ p * n \in Int
    <3>1. p * 0 = 0 /\ p * (n - 1) = p * n - p /\ p * n \in Int
      BY <1>1
    <3>2. p * (k - 1) \in Int /\ p * 0 <= p * (k - 1) /\ p * (k - 1) <= p * (n - 1)
      BY <1>1, <2>1, ProductsAreOrdered
    <3>3. QED
      BY <3>1, <3>2
  <2>3. f + p * (k - 1) \in first .. last
    BY <1>1, <2>2 DEF p
  <2>4. (f + p * (k - 1) + c.shift) % p = e
    <3>1. f + p * (k - 1) + c.shift = f + c.shift + (k - 1) * p /\ f + c.shift \in Int
      BY <1>1, <2>1, <2>2
    <3>2. \A x \in Int, i \in Int : (x + i * p) % p = x % p
      BY <1>1, WholePeriods
    <3>3. (f + c.shift + (k - 1) * p) % p = (f + c.shift) % p
      BY <2>1, <3>1, <3>2
    <3>4. QED
      BY <3>1, <3>3 DEF p
  <2>5. QED
    BY <2>3, <2>4 DEF EdgesAt, p
<1>3. ASSUME NEW j \in 1 .. n, NEW k \in 1 .. n, edge[j] = edge[k]
      PROVE  j = k
  <2>1. p * (j - 1) \in Int /\ p * (k - 1) \in Int /\ f + p * (j - 1) = f + p * (k - 1)
    BY <1>1, <1>3
  <2>2. p * (j - 1) = p * (k - 1) /\ j - 1 \in Int /\ k - 1 \in Int
    BY <1>1, <2>1
  <2>3. j - 1 = k - 1
    BY <1>1, <2>2, ProductsAreOrdered
  <2>4. QED
    BY <2>3
<1>4. ASSUME NEW t \in S
      PROVE  \E k \in 1 .. n : edge[k] = t
  <2> DEFINE a == (t + c.shift) \div p
             b == (f + c.shift) \div p
  <2>1. t \in Int /\ first <= t /\ t <= last /\ (t + c.shift) % p = e
    BY <1>4 DEF EdgesAt, p
  <2>2. /\ a \in Int /\ t + c.shift = p * a + e
        /\ b \in Int /\ f + c.shift = p * b + e
    <3>1. t + c.shift \in Int /\ f + c.shift \in Int
      BY <1>1, <2>1
    <3>2. a \in Int /\ t + c.shift = p * a + ((t + c.shift) % p)
      BY <1>1, <3>1, Division
    <3>3. b \in Int /\ f + c.shift = p * b + ((f + c.shift) % p)
      BY <1>1, <3>1, Division
    <3>4. QED
      BY <2>1, <3>2, <3>3 DEF p
  <2> HIDE DEF a, b
  <2>3. p * (a - b) = p * a - p * b /\ p * a \in Int /\ p * b \in Int
    BY <1>1, <2>2, ProductsAreOrdered
  <2>4. e \in Int
    OBVIOUS
  <2>5. t - f = p * (a - b) /\ a - b \in Int
    BY <1>1, <2>1, <2>2, <2>3, <2>4
  <2>6. p * (-1) < p * (a - b) /\ p * (a - b) < p * n
    <3>1. p * (-1) = -p /\ p * n \in Int
      BY <1>1
    <3>2. QED
      BY <1>1, <2>1, <2>5, <3>1 DEF p
  <2>7. -1 < a - b /\ a - b < n
    BY <1>1, <2>5, <2>6, ProductsAreOrdered
  <2> DEFINE k == a - b + 1
  <2>8. k \in 1 .. n /\ k - 1 = a - b
    BY <2>5, <2>7
  <2> HIDE DEF k
  <2>9. edge[k] = f + p * (a - b)
    BY <2>8
  <2>10. edge[k] = t
    BY <1>1, <2>1, <2>5, <2>9
  <2>11. QED
    BY <2>8, <2>10
<1> HIDE DEF S
<1>5. edge \in Bijection(1 .. n, S)
  <2>1. edge \in [1 .. n -> S]
    BY <1>2
  <2> HIDE DEF edge
  <2>2. QED
    BY <1>3, <1>4, <2>1 DEF Bijection, Injection, Surjection, IsInjective
<1>6. ExistsBijection(1 .. n, S)
  BY <1>5 DEF ExistsBijection
<1>7. QED
  BY <1>6, FS_CountingElements, FS_NatBijection DEF S

\* From where the edges that a wait has passed are counted.
FirstPassed(how, t) == IF how = "until" THEN t ELSE t + 1

\* A wait for the phase e passes n edges of every phase that is not nearer than e.
\* One that begins on e itself, and is for the next, lasts a period more.
LEMMA WaitPassesEdges ==
  ASSUME NEW c \in Clocks, NEW how \in {"until", "next"}, NEW edge \in Edges,
         NEW n \in Nat, NEW t \in Nat,
         NEW e \in 0 .. c.period - 1, e = EdgeAt(c, edge, t),
         NEW o \in 0 .. c.period - 1, DelayAt(c, e, t) <= DelayAt(c, o, t),
         o = e \/ how = "until" \/ DelayAt(c, e, t) # 0
  PROVE  LET passed == EdgesAt(c, o, FirstPassed(how, t), (t + WaitAt(c, how, edge, n, t)) - 1)
         IN IsFiniteSet(passed) /\ Cardinality(passed) = n
<1> DEFINE p == c.period
           d == DelayAt(c, e, t)
           far == DelayAt(c, o, t)
           first == FirstPassed(how, t)
           w == WaitAt(c, how, edge, n, t)
           last == (t + w) - 1
<1>1. /\ p \in Nat \ {0} /\ c.shift \in Nat
      /\ d \in 0 .. p - 1 /\ far \in 0 .. p - 1 /\ o % p = o /\ o \in Nat
  BY ClockFields, DelayWithinPeriod
<1>2. w = IF how = "until" THEN n * p + d ELSE (n + (IF d = 0 THEN 1 ELSE 0)) * p + d
  BY DEF WaitAt
<1>3. \E q \in Int : t + c.shift + far = o + q * p
  BY <1>1, DelayLeadsToEdge
<1> HIDE DEF p, d, far, w
<1>4. \A x \in Int, q \in Int : (x + q * p) % p = x % p
  BY <1>1, WholePeriods
<1>5. (t + far + c.shift) % p = o
  <2>1. PICK q \in Int : t + c.shift + far = o + q * p
    BY <1>3
  <2>2. o \in Int /\ t + far + c.shift = o + q * p
    BY <1>1, <2>1
  <2>3. (o + q * p) % p = o % p
    BY <1>4, <2>2
  <2>4. QED
    BY <1>1, <2>2, <2>3
<1>6. p * n \in Nat /\ n * p = p * n /\ (n + 1) * p = p * n + p /\ (n + 0) * p = p * n
  BY <1>1
<1>7. d <= far
  BY DEF d, far
<1>8. CASE how = "until" \/ d # 0
  <2>1. w = p * n + d
    BY <1>2, <1>6, <1>8
  <2>2. first \in Int /\ last \in Int /\ t + far \in first .. first + p - 1
    BY <1>1, <1>6, <1>7, <1>8, <2>1 DEF FirstPassed
  <2>3. t + far + p * n - p <= last /\ last < t + far + p * n
    BY <1>1, <1>6, <1>7, <2>1
  <2> HIDE DEF first, last
  <2>4. QED
    BY <1>5, <2>2, <2>3, EdgesCounted DEF p, first, last, w
<1>9. CASE how # "until" /\ d = 0
  <2>1. w = p * n + p
    <3>1. w = (n + 1) * p + 0
      BY <1>2, <1>9
    <3>2. QED
      BY <1>1, <1>6, <3>1
  <2>2. o = e /\ far = 0
    BY <1>9 DEF d, far
  <2>3. (t + p + c.shift) % p = o
    <3>1. t + c.shift \in Int /\ t + p + c.shift = t + c.shift + 1 * p /\ 1 \in Int
      BY <1>1
    <3>2. (t + c.shift + 1 * p) % p = (t + c.shift) % p
      BY <1>4, <3>1
    <3>3. t + far + c.shift = t + c.shift
      BY <1>1, <2>2
    <3>4. QED
      BY <1>5, <3>1, <3>2, <3>3
  <2>4. first \in Int /\ last \in Int /\ t + p \in first .. first + p - 1
    BY <1>1, <1>6, <1>9, <2>1 DEF FirstPassed
  <2>5. t + p + p * n - p <= last /\ last < t + p + p * n
    BY <1>1, <1>6, <2>1
  <2> HIDE DEF first, last
  <2>6. QED
    BY <2>3, <2>4, <2>5, EdgesCounted DEF p, first, last, w
<1>10. QED
  BY <1>8, <1>9

\* A wait for n cycles passes each phase it is for n times.
LEMMA WaitPassesCycles ==
  ASSUME NEW c \in Clocks, NEW how \in {"until", "next"}, NEW edge \in Edges,
         NEW n \in Nat, NEW t \in Nat,
         Phases(c, edge) \subseteq 0 .. c.period - 1,
         how = "next" /\ edge = "any" => ~OnEdge(c, "any", t)
  PROVE  LET passed == {x \in FirstPassed(how, t) .. (t + WaitAt(c, how, edge, n, t)) - 1 :
                          OnEdge(c, edge, x)}
         IN Cardinality(passed) = n * Cardinality(Phases(c, edge))
<1> DEFINE p == c.period
           e == EdgeAt(c, edge, t)
           first == FirstPassed(how, t)
           last == (t + WaitAt(c, how, edge, n, t)) - 1
           passed == {x \in first .. last : OnEdge(c, edge, x)}
<1>1. e \in Phases(c, edge) /\ e \in 0 .. p - 1
  BY EdgeIsPhase
<1>2. \A q \in Phases(c, edge) : q % p = q
  BY DelayWithinPeriod
<1>3. \A x : OnEdge(c, edge, x) <=> \E q \in Phases(c, edge) : (x + c.shift) % p = q
  BY <1>2 DEF OnEdge
<1>4. CASE Phases(c, edge) = {e}
  <2>1. passed = EdgesAt(c, e, first, last)
    BY <1>3, <1>4 DEF EdgesAt
  <2>2. DelayAt(c, e, t) \in Nat
    BY <1>1, DelayLeadsToEdge
  <2>3. DelayAt(c, e, t) <= DelayAt(c, e, t)
    BY <2>2
  <2>4. Cardinality(EdgesAt(c, e, first, last)) = n
    BY <1>1, <2>3, WaitPassesEdges
  <2> HIDE DEF e, first, last, passed
  <2>5. Cardinality({e}) = 1
    BY FS_Singleton
  <2>6. n * 1 = n
    OBVIOUS
  <2>7. QED
    BY <1>4, <2>1, <2>4, <2>5, <2>6 DEF passed, first, last
<1>5. CASE edge = "any" /\ c.posedge # c.negedge
  <2> DEFINE o == IF ReadAt(c, t) THEN c.posedge ELSE c.negedge
             near == DelayAt(c, e, t)
             far == DelayAt(c, o, t)
             r == (t + c.shift) % p
  <2>1. Phases(c, edge) = {e, o} /\ e # o /\ o \in 0 .. p - 1
    BY <1>5 DEF Phases, EdgeAt
  <2>2. near \in Int /\ far \in Int /\ (near = 0 => r = e)
    <3>1. /\ near \in 0 .. p - 1 /\ (near = 0 <=> r = e)
          /\ far \in 0 .. p - 1
      BY <1>1, <2>1, DelayWithinPeriod
    <3> HIDE DEF near, far, r, e
    <3>2. QED
      BY <3>1
  <2>3. near <= far
    <3>1. CASE ReadAt(c, t)
      <4>1. near < far
        BY <1>5, <3>1 DEF EdgeAt, ReadAt
      <4> HIDE DEF near, far
      <4>2. QED
        BY <2>2, <4>1
    <3>2. CASE ~ReadAt(c, t)
      <4>1. ~(far < near)
        BY <1>5, <3>2 DEF EdgeAt, ReadAt
      <4> HIDE DEF near, far
      <4>2. QED
        BY <2>2, <4>1
    <3>3. QED
      BY <3>1, <3>2
  <2>4. how = "until" \/ near # 0
    <3>1. how = "next" => ~(r = e)
      BY <1>1, <1>3, <1>5
    <3>2. QED
      BY <2>2, <3>1
  <2>5. near <= near
    BY <2>2
  <2>6. /\ IsFiniteSet(EdgesAt(c, e, first, last)) /\ Cardinality(EdgesAt(c, e, first, last)) = n
        /\ IsFiniteSet(EdgesAt(c, o, first, last)) /\ Cardinality(EdgesAt(c, o, first, last)) = n
    BY <1>1, <2>1, <2>3, <2>4, <2>5, WaitPassesEdges
  <2>7. passed = EdgesAt(c, e, first, last) \cup EdgesAt(c, o, first, last)
    BY <1>3, <2>1 DEF EdgesAt
  <2>8. EdgesAt(c, e, first, last) \cap EdgesAt(c, o, first, last) = {}
    BY <2>1 DEF EdgesAt
  <2> HIDE DEF e, o, first, last, passed
  <2>9. Cardinality({}) = 0
    BY FS_EmptySet
  <2>10. Cardinality(passed) = n + n - 0
    BY <2>6, <2>7, <2>8, <2>9, FS_Union
  <2>11. Cardinality({e, o}) = 2
    <3>1. IsFiniteSet({e}) /\ Cardinality({e}) = 1 /\ o \notin {e}
      BY <2>1, FS_Singleton
    <3>2. Cardinality({e} \cup {o}) = Cardinality({e}) + 1
      BY <3>1, FS_AddElement
    <3>3. {e, o} = {e} \cup {o}
      OBVIOUS
    <3>4. QED
      BY <3>1, <3>2, <3>3
  <2>12. n + n - 0 = n * 2
    OBVIOUS
  <2>13. QED
    BY <2>1, <2>10, <2>11, <2>12 DEF passed, first, last
<1>6. edge # "any" \/ c.posedge = c.negedge => Phases(c, edge) = {e}
  BY DEF Phases, EdgeAt
<1>7. QED
  BY <1>4, <1>5, <1>6

-----------------------------------------------------------------------------
(* The process that waits *)

\* While nobody changes the clock, the end of the wait is the one computed from the
\* clock as it was, and is, at its beginning.
WaitInv ==
  /\ TypeOK
  /\ sleep \in Sleeping /\ sleep.steady =>
       sleep.wake = sleep.from + WaitAt(clk, sleep.how, sleep.edge, sleep.n, sleep.from)

LEMMA WaitInvAlways == Spec => []WaitInv
<1>1. Awake \notin Sleeping
  BY DEF Awake, Sleeping
<1>2. Init => WaitInv
  BY <1>1, TypesFromTheStart DEF Init, WaitInv
<1>3. WaitInv /\ [Next]_vars => WaitInv'
  <2> SUFFICES ASSUME WaitInv, [Next]_vars PROVE WaitInv'
    OBVIOUS
  <2>1. TypeOK /\ TypeOK'
    BY StepKeepsTypes DEF WaitInv
  <2>2. CASE UNCHANGED <<clk, sleep>>
    BY <2>1, <2>2 DEF WaitInv
  <2>3. CASE sleep' = Awake
    BY <1>1, <2>1, <2>3 DEF WaitInv
  <2>4. ASSUME NEW how \in {"until", "next"}, NEW edge \in Edges, NEW n \in 0 .. MaxCycles,
               WaitFor(how, edge, n)
        PROVE  WaitInv'
    <3>1. clk' = clk
      BY <2>4 DEF WaitFor
    <3>2. QED
      BY <2>1, <2>4, <3>1, SleepIsTyped DEF WaitInv
  <2>5. ASSUME NEW c, Set(c)
        PROVE  sleep' = Awake \/ (sleep' \in Sleeping /\ sleep'.steady = FALSE)
    <3>1. CASE sleep \in Sleeping
      BY <2>5, <3>1 DEF Set, Sleeping
    <3>2. CASE sleep = Awake
      BY <2>5, <3>2 DEF Set, Awake
    <3>3. QED
      BY <2>1, <3>1, <3>2 DEF TypeOK
  <2>6. ASSUME NEW c, Set(c)
        PROVE  WaitInv'
    BY <1>1, <2>1, <2>5, <2>6 DEF WaitInv
  <2>7. Wake => sleep' = Awake
    BY DEF Wake
  <2>8. Tick \/ UNCHANGED vars => UNCHANGED <<clk, sleep>>
    BY DEF Tick, vars
  <2>9. ASSUME NEW period, SetPeriodTime(period)
        PROVE  WaitInv'
    BY <2>6, <2>9 DEF SetPeriodTime
  <2>10. ASSUME NEW t, SetOffsetTime(t) \/ SetDutyCycle(t) \/ SetSampleTime(t)
                         \/ SetSetedgeTime(t) \/ SetTimeShift(t)
         PROVE  WaitInv'
    BY <2>6, <2>10
       DEF SetOffsetTime, SetDutyCycle, SetSampleTime, SetSetedgeTime, SetTimeShift
  <2>11. QED
    BY <2>2, <2>3, <2>4, <2>7, <2>8, <2>9, <2>10 DEF Next
<1>4. QED
  BY <1>2, <1>3, PTL DEF Spec

\* A process that waited on a clock nobody changed wakes on the edge it waited for, and
\* when the edge lies inside the period exactly the cycles it asked for have passed: for
\* every period, duty cycle, offset, shift, kind of edge and number of cycles.
THEOREM WakesOnEdgeAlways == Spec => []WakesOnEdge
<1>1. WaitInv => WakesOnEdge
  <2> SUFFICES ASSUME WaitInv, sleep.asleep, sleep.steady, now = sleep.wake
               PROVE  /\ OnEdge(clk, sleep.edge, now)
                      /\ (/\ Phases(clk, sleep.edge) \subseteq 0 .. clk.period - 1
                          /\ sleep.how = "next" /\ sleep.edge = "any" =>
                               ~OnEdge(clk, "any", sleep.from)) =>
                         LET passed == {t \in FirstPassed(sleep.how, sleep.from) .. now - 1 :
                                          OnEdge(clk, sleep.edge, t)}
                         IN Cardinality(passed)
                              = sleep.n * Cardinality(Phases(clk, sleep.edge))
    BY DEF WakesOnEdge, FirstPassed
  <2>1. sleep \in Sleeping /\ clk \in Clocks
    BY DEF WaitInv, TypeOK, Awake
  <2>2. /\ sleep.how \in {"until", "next"} /\ sleep.edge \in Edges /\ sleep.from \in Nat
        /\ sleep.n \in 0 .. MaxCycles
    BY <2>1 DEF Sleeping
  <2>3. sleep.n \in Nat
    BY <2>2, ConstantTypes
  <2>4. now = sleep.from + WaitAt(clk, sleep.how, sleep.edge, sleep.n, sleep.from)
    BY <2>1 DEF WaitInv
  <2>5. OnEdge(clk, sleep.edge, now)
    BY <2>1, <2>2, <2>3, <2>4, WaitEndsOnEdge
  <2>6. QED
    BY <2>1, <2>2, <2>3, <2>4, <2>5, WaitPassesCycles
<1>2. QED
  BY <1>1, WaitInvAlways, PTL
=============================================================================
