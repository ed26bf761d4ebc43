--------------------------- MODULE TimerModuleProofs ---------------------------
(***************************************************************************)
(* The invariants of the register bank, for any number of timers, any      *)
(* width of sc_time and of the registers, and whatever control words,      *)
(* counts and delays software writes.  A register access is a composition  *)
(* of operations of one timer, so the lemmas of TimerOpsProofs carry over. *)
(***************************************************************************)
EXTENDS TimerModule, TimerOpsProofs

USE DEF Timers

\* What holds of every timer of the bank at every moment.
BankOK ==
  /\ TypeOK
  /\ \A i \in Timers : Wellformed(timer[i]) /\ Awake(timer[i], i \in ready)

-----------------------------------------------------------------------------
(* Lemmas about set_timer_status *)

\* The mode is set in a first step, which neither schedules nor cancels.
WithMode(t, w) ==
  [t EXCEPT !.reload = "RELOAD" \in w, !.continuous = "CONTINUOUS" \in w]

LEMMA WithModeWellformed ==
  ASSUME NEW t, Wellformed(t), NEW w, NEW r \in BOOLEAN, Awake(t, r)
  PROVE  Wellformed(WithMode(t, w)) /\ Awake(WithMode(t, w), r)
<1>1. ("RELOAD" \in w) \in BOOLEAN /\ ("CONTINUOUS" \in w) \in BOOLEAN
  OBVIOUS
<1>2. QED
  BY <1>1 DEF WithMode, Wellformed, Awake, Live, TimerState

\* Whatever word is written, the timer stays wellformed and awake.
LEMMA SetTimerStatusWellformed ==
  ASSUME now \in Int, NEW t, Wellformed(t), NEW w, NEW d \in Int,
         NEW r \in BOOLEAN, Awake(t, r)
  PROVE  Wellformed(SetTimerStatus(t, w, d)) /\ Awake(SetTimerStatus(t, w, d), r)
<1> DEFINE t1 == WithMode(t, w)
           t2 == ResumeIf(t1.paused /\ "NORMAL" \in w, t1, d)
           t3 == StartIf("START" \in w, t2, d)
           t4 == PauseIf("NORMAL" \notin w, t3, d)
<1>1. SetTimerStatus(t, w, d) =
        IF IsRunning(t1, 0, now) THEN IF "START" \in w THEN t1 ELSE Stop(t1) ELSE t4
  BY DEF SetTimerStatus, WithMode
<1>2. Wellformed(t1) /\ Awake(t1, r)
  BY WithModeWellformed
<1> HIDE DEF t1
<1>3. Wellformed(Stop(t1)) /\ Awake(Stop(t1), r)
  BY <1>2, StopWellformed
<1>4. Wellformed(t2) /\ Awake(t2, r)
  BY <1>2, ResumeWellformed DEF ResumeIf
<1> HIDE DEF t2
<1>5. Wellformed(t3) /\ Awake(t3, r)
  BY <1>4, StartWellformed DEF StartIf
<1> HIDE DEF t3
<1>6. Wellformed(t4) /\ Awake(t4, r)
  BY <1>5, PauseWellformed DEF PauseIf
<1> HIDE DEF t4
<1>7. QED
  BY <1>1, <1>2, <1>3, <1>6

\* A timer whose trigger time lies ahead is running in the sense of is_running.
LEMMA AheadIsRunning ==
  ASSUME now \in Time, NEW t \in TimerState, ~t.paused, t.trigger_time > now
  PROVE  IsRunning(t, 0, now)
<1>1. Plus(now, 0) = now
  BY TimeModAssumption DEF Plus, Time
<1>2. Minus(t.trigger_time, now) > 0
  BY TimeModAssumption DEF Minus, Time, TimerState
<1>3. t.trigger_time # 0
  BY DEF Time, TimerState
<1>4. QED
  BY <1>1, <1>2, <1>3 DEF IsRunning, GetTimeLeft

LEMMA SetTimerStatusKeepsSchedule ==
  ASSUME now \in Time, NEW t \in TimerState, NEW w, NEW d,
         ~t.paused, t.trigger_time > now
  PROVE  /\ ~SetTimerStatus(t, w, d).paused
         /\ SetTimerStatus(t, w, d).trigger_time \in {t.trigger_time, 0}
<1> DEFINE t1 == WithMode(t, w)
<1>1. /\ t1 \in TimerState
      /\ t1.paused = t.paused /\ t1.trigger_time = t.trigger_time
  <2>1. ("RELOAD" \in w) \in BOOLEAN /\ ("CONTINUOUS" \in w) \in BOOLEAN
    OBVIOUS
  <2>2. QED
    BY <2>1 DEF WithMode, TimerState
<1> HIDE DEF t1
<1>2. IsRunning(t1, 0, now)
  BY <1>1, AheadIsRunning
<1>3. SetTimerStatus(t, w, d) = IF "START" \in w THEN t1 ELSE Stop(t1)
  BY <1>2 DEF SetTimerStatus, t1, WithMode
<1>4. Stop(t1).trigger_time = 0 /\ Stop(t1).paused = FALSE
  BY <1>1 DEF Stop, TimerState
<1>5. QED
  BY <1>1, <1>3, <1>4

-----------------------------------------------------------------------------
(* The steps *)

LEMMA ConstantsAreInt ==
  /\ MaxTime \in Time /\ 0 .. MaxTime \subseteq Time
  /\ Delays \subseteq Int /\ Counts \subseteq Nat /\ WordMod \in Nat \ {0}
  BY TimerModuleAssumption, TimeModAssumption DEF TimerModuleAssumption, Time

LEMMA StatusIsWord ==
  ASSUME TypeOK, NEW i \in Timers
  PROVE  GetTimerStatus(i) \in SUBSET Flags
<1>1. reg[i].status \in SUBSET Flags
  BY DEF TypeOK, Registers
<1>2. QED
  BY <1>1 DEF GetTimerStatus, Flags

LEMMA BankInit == Init => BankOK
<1> SUFFICES ASSUME Init PROVE BankOK
  OBVIOUS
<1>1. \A i \in Timers : Wellformed(timer[i]) /\ Awake(timer[i], i \in ready)
  <2>1. PulseDelay \in Time
    BY TimerModuleAssumption DEF TimerModuleAssumption
  <2>2. Wellformed(NewTimer(PulseDelay)) /\ Awake(NewTimer(PulseDelay), FALSE)
    BY <2>1, NewTimerWellformed
  <2>3. \A i \in Timers : timer[i] = NewTimer(PulseDelay) /\ (i \in ready) = FALSE
    BY DEF Init
  <2>4. QED
    BY <2>2, <2>3
<1>2. [status |-> {}, ctrlset |-> {}, load_lo |-> 0, load_hi |-> 0] \in Registers
  BY TimerModuleAssumption DEF TimerModuleAssumption, Registers
<1>3. now \in 0 .. MaxTime
  BY ConstantsAreInt DEF Init, Time
<1>4. timer \in [Timers -> TimerState]
  BY <1>1 DEF Init, Wellformed
<1>5. QED
  BY <1>1, <1>2, <1>3, <1>4 DEF Init, BankOK, TypeOK

\* An access to the control word of a timer.
LEMMA ControlKeepsBank ==
  ASSUME BankOK, NEW i \in Timers, NEW w \in SUBSET Flags, NEW r \in Registers,
         NEW d \in Int, Control(i, w, r, d)
  PROVE  BankOK'
<1> DEFINE u == SetTimerStatus(timer[i], w, d)
<1>1. Wellformed(u) /\ Awake(u, i \in ready)
  <2>1. now \in Int /\ d \in Int
    BY ConstantsAreInt DEF BankOK, TypeOK, Time
  <2>2. Wellformed(timer[i]) /\ Awake(timer[i], i \in ready)
    BY DEF BankOK
  <2>3. (i \in ready) \in BOOLEAN
    OBVIOUS
  <2> HIDE DEF u
  <2>4. \A r1 \in BOOLEAN : Awake(timer[i], r1) => Wellformed(u) /\ Awake(u, r1)
    BY <2>1, <2>2, SetTimerStatusWellformed DEF u
  <2>5. QED
    BY <2>2, <2>3, <2>4
<1>2. timer' = [timer EXCEPT ![i] = u] /\ ready' = ready
  BY DEF Control
<1> HIDE DEF u
<1>3. \A j \in Timers : Wellformed(timer'[j]) /\ Awake(timer'[j], j \in ready')
  BY <1>1, <1>2 DEF BankOK, TypeOK
<1>4. timer' \in [Timers -> TimerState]
  BY <1>1, <1>2 DEF BankOK, TypeOK, Wellformed
<1>5. reg' \in [Timers -> Registers]
  <2>1. [r EXCEPT !.status = w] \in Registers
    BY DEF Registers
  <2>2. QED
    BY <2>1 DEF Control, BankOK, TypeOK
<1>6. QED
  BY <1>3, <1>4, <1>5 DEF Control, BankOK, TypeOK

\* A new load delay leaves what is scheduled alone.
LEMMA LoadKeepsBank ==
  ASSUME BankOK, NEW i \in Timers, NEW delay \in Int,
         NEW lo \in 0 .. WordMod - 1, NEW hi \in 0 .. WordMod - 1, Load(i, delay, lo, hi)
  PROVE  BankOK'
<1>1. delay % TimeMod \in Time
  BY TimeModAssumption DEF Time
<1>2. [timer[i] EXCEPT !.load_delay = delay % TimeMod] \in TimerState
  BY <1>1 DEF BankOK, TypeOK, TimerState
<1>3. timer' = [timer EXCEPT ![i] = [timer[i] EXCEPT !.load_delay = delay % TimeMod]]
  BY DEF Load
<1>4. \A j \in Timers : Wellformed(timer'[j]) /\ Awake(timer'[j], j \in ready)
  BY <1>2, <1>3 DEF BankOK, TypeOK, Wellformed, Awake, Live, TimerState
<1>5. reg' \in [Timers -> Registers]
  BY DEF Load, BankOK, TypeOK, Registers
<1>6. timer' \in [Timers -> TimerState]
  BY <1>4, <1>3, <1>2 DEF BankOK, TypeOK
<1>7. QED
  BY <1>4, <1>5, <1>6 DEF Load, BankOK, TypeOK

\* Accesses that leave the timers alone.
LEMMA RegistersKeepBank ==
  ASSUME BankOK, reg' \in [Timers -> Registers], aborted' \in BOOLEAN,
         UNCHANGED <<now, timer, ready, moduleReady, fired, raised>>
  PROVE  BankOK'
  BY DEF BankOK, TypeOK

LEMMA SoftwareKeepsBank ==
  ASSUME BankOK, Software
  PROVE  BankOK'
<1> PICK i \in Timers :
    \/ WriteBurst(i)
    \/ \E v \in Words : WriteDebug(i, v)
    \/ \E v \in Words, d \in Delays :
         WriteStatus(i, v, d) \/ WriteCtrlSet(i, v, d) \/ WriteCtrlClr(i, v, d)
    \/ \E v \in Counts : WriteLoadLo(i, v) \/ WriteLoadHi(i, v)
    \/ \E lo, hi \in Counts : WriteLoad64(i, lo, hi) \/ WriteCurr64(i, lo, hi)
    \/ ReadStatus(i)
    \/ \E d \in Delays : ReadCurr(i, d)
  BY DEF Software
<1>1. /\ reg \in [Timers -> Registers] /\ reg[i] \in Registers
      /\ Words \subseteq SUBSET Flags /\ Counts \subseteq 0 .. WordMod - 1
      /\ GetTimerStatus(i) \in SUBSET Flags
      /\ reg[i].load_lo \in 0 .. WordMod - 1 /\ reg[i].load_hi \in 0 .. WordMod - 1
  BY TimerModuleAssumption, StatusIsWord DEF TimerModuleAssumption, BankOK, TypeOK, Registers
<1>2. Scale(reg[i].status) \in Nat
  BY DEF Scale
<1>3. ASSUME NEW v \in Words, WriteDebug(i, v)
      PROVE  BankOK'
  <2>1. [reg[i] EXCEPT !.status = v] \in Registers
    BY <1>1 DEF Registers
  <2>2. reg' \in [Timers -> Registers]
    BY <1>1, <1>3, <2>1 DEF WriteDebug
  <2>3. QED
    BY <1>3, <2>2, RegistersKeepBank DEF WriteDebug, BankOK, TypeOK
<1>4. CASE WriteBurst(i)
  <2>1. [reg[i] EXCEPT !.status = {}, !.ctrlset = {}] \in Registers
    BY <1>1 DEF Registers
  <2>2. reg' \in [Timers -> Registers]
    BY <1>1, <1>4, <2>1 DEF WriteBurst
  <2>3. QED
    BY <1>4, <2>2, RegistersKeepBank DEF WriteBurst
<1>5. ASSUME NEW v \in Words, NEW d \in Delays, WriteStatus(i, v, d)
      PROVE  BankOK'
  BY <1>1, <1>5, ConstantsAreInt, ControlKeepsBank DEF WriteStatus
<1>6. ASSUME NEW v \in Words, NEW d \in Delays, WriteCtrlSet(i, v, d)
      PROVE  BankOK'
  <2>1. [reg[i] EXCEPT !.ctrlset = v] \in Registers
    BY <1>1 DEF Registers
  <2>2. GetTimerStatus(i) \cup v \in SUBSET Flags
    BY <1>1
  <2>3. QED
    BY <1>6, <2>1, <2>2, ConstantsAreInt, ControlKeepsBank DEF WriteCtrlSet
<1>7. ASSUME NEW v \in Words, NEW d \in Delays, WriteCtrlClr(i, v, d)
      PROVE  BankOK'
  <2>1. GetTimerStatus(i) \ reg[i].ctrlset \in SUBSET Flags
    BY <1>1
  <2>2. QED
    BY <1>1, <1>7, <2>1, ConstantsAreInt, ControlKeepsBank DEF WriteCtrlClr
<1>8. ASSUME NEW v \in Counts, WriteLoadLo(i, v)
      PROVE  BankOK'
  <2>1. Scale(reg[i].status) * v \in Int
    BY <1>2, ConstantsAreInt
  <2>2. (Scale(reg[i].status) * v) % WordMod \in Int /\ 0 \in 0 .. WordMod - 1
    BY <2>1, ConstantsAreInt
  <2>3. QED
    BY <1>1, <1>8, <2>2, LoadKeepsBank DEF WriteLoadLo
<1>9. ASSUME NEW v \in Counts, WriteLoadHi(i, v)
      PROVE  BankOK'
  <2>1. v * WordMod + reg[i].load_lo \in Int
    BY <1>1, ConstantsAreInt
  <2>2. Scale(reg[i].status) * (v * WordMod + reg[i].load_lo) \in Int
    BY <1>2, <2>1
  <2>3. QED
    BY <1>1, <1>9, <2>2, LoadKeepsBank DEF WriteLoadHi
<1>10. ASSUME NEW lo \in Counts, NEW hi \in Counts,
              WriteLoad64(i, lo, hi) \/ WriteCurr64(i, lo, hi)
       PROVE  BankOK'
  <2>1. hi * WordMod + lo \in Int
    BY <1>1, ConstantsAreInt
  <2>2. QED
    BY <1>1, <1>10, <2>1, LoadKeepsBank DEF WriteLoad64, WriteCurr64
<1>11. CASE ReadStatus(i)
  <2>1. [reg[i] EXCEPT !.status = GetTimerStatus(i)] \in Registers
    BY <1>1 DEF Registers
  <2>2. reg' \in [Timers -> Registers]
    BY <1>1, <1>11, <2>1 DEF ReadStatus
  <2>3. QED
    BY <1>11, <2>2, RegistersKeepBank DEF ReadStatus, BankOK, TypeOK
<1>12. ASSUME NEW d \in Delays, ReadCurr(i, d)
       PROVE  BankOK'
  BY <1>1, <1>12, RegistersKeepBank DEF ReadCurr
<1>13. QED
  BY <1>3, <1>4, <1>5, <1>6, <1>7, <1>8, <1>9, <1>10, <1>11, <1>12

\* One run of a trigger_thread: the timer needs no wakeup any more, or has one.
LEMMA TriggerThreadKeepsBank ==
  ASSUME BankOK, NEW i \in Timers, TriggerThread(i)
  PROVE  BankOK'
<1> DEFINE u == Trigger(timer[i], now)
<1>1. Wellformed(u) /\ Awake(u, FALSE)
  <2>1. now \in Time
    BY ConstantsAreInt DEF BankOK, TypeOK
  <2>2. QED
    BY <2>1, TriggerWellformed DEF BankOK
<1>2. timer' = [timer EXCEPT ![i] = u] /\ ready' = ready \ {i}
  BY DEF TriggerThread
<1>3. fired' \subseteq Timers
  BY DEF TriggerThread, BankOK, TypeOK
<1> HIDE DEF u
<1>4. ASSUME NEW j \in Timers
      PROVE  Wellformed(timer'[j]) /\ Awake(timer'[j], j \in ready')
  <2>1. CASE j = i
    <3>1. timer'[j] = u /\ (j \in ready') = FALSE
      BY <1>2, <2>1 DEF BankOK, TypeOK
    <3>2. QED
      BY <1>1, <3>1
  <2>2. CASE j # i
    <3>1. timer'[j] = timer[j] /\ (j \in ready') = (j \in ready)
      BY <1>2, <2>2 DEF BankOK, TypeOK
    <3>2. QED
      BY <3>1 DEF BankOK
  <2>3. QED
    BY <2>1, <2>2
<1>5. timer' \in [Timers -> TimerState]
  BY <1>1, <1>2 DEF BankOK, TypeOK, Wellformed
<1>6. QED
  BY <1>2, <1>3, <1>4, <1>5 DEF TriggerThread, BankOK, TypeOK

LEMMA TimerThreadKeepsBank ==
  ASSUME BankOK, TimerThread
  PROVE  BankOK'
<1>1. 0 \in Timers
  BY TimerModuleAssumption DEF TimerModuleAssumption
<1>2. [reg[0] EXCEPT !.status = @ \cup {"IRQ"}] \in Registers
  BY <1>1 DEF BankOK, TypeOK, Registers, Flags
<1>3. reg' \in [Timers -> Registers] /\ raised' \in BOOLEAN
  BY <1>1, <1>2 DEF TimerThread, BankOK, TypeOK
<1>4. QED
  BY <1>3 DEF TimerThread, BankOK, TypeOK

\* When time passes or a delta cycle ends, a timer that loses its pending
\* notification is one whose trigger_thread is woken by it.
LEMMA WakingKeepsBank ==
  ASSUME BankOK, NEW n, NEW p,
         ready' = ready \cup DueTimers(n),
         p \in [Timers -> Time \cup {Never}],
         timer' = [i \in Timers |-> [timer[i] EXCEPT
           !.event = IF Due(@, n) THEN Never ELSE @, !.pulse_event = p[i]]]
  PROVE  /\ timer' \in [Timers -> TimerState]
         /\ ready' \subseteq Timers
         /\ \A i \in Timers : Wellformed(timer'[i]) /\ Awake(timer'[i], i \in ready')
<1>1. ASSUME NEW i \in Timers
      PROVE  Wellformed(timer'[i]) /\ Awake(timer'[i], i \in ready')
  <2>1. timer[i] \in TimerState /\ Wellformed(timer[i]) /\ Awake(timer[i], i \in ready)
    BY DEF BankOK, TypeOK
  <2>2. CASE Due(timer[i].event, n)
    <3>1. timer'[i] = [timer[i] EXCEPT !.event = Never, !.pulse_event = p[i]]
      BY <2>2
    <3>2. i \in ready'
      BY <2>2 DEF DueTimers
    <3>3. Wellformed(timer'[i])
      BY <2>1, <3>1 DEF Wellformed, TimerState
    <3>4. QED
      BY <3>2, <3>3 DEF Awake
  <2>3. CASE ~Due(timer[i].event, n)
    <3>1. timer'[i] = [timer[i] EXCEPT !.pulse_event = p[i]]
      <4>1. timer'[i] = [timer[i] EXCEPT !.event = timer[i].event, !.pulse_event = p[i]]
        BY <2>3
      <4>2. QED
        BY <2>1, <4>1 DEF TimerState
    <3>2. QED
      BY <2>1, <3>1 DEF Wellformed, Awake, Live, TimerState
  <2>4. QED
    BY <2>2, <2>3
<1>2. QED
  BY <1>1 DEF Wellformed, DueTimers, BankOK, TypeOK

LEMMA TickKeepsBank ==
  ASSUME BankOK, Tick
  PROVE  BankOK'
<1> DEFINE p == [i \in Timers |-> IF Due(timer[i].pulse_event, now') THEN Never
                                                              ELSE timer[i].pulse_event]
<1>1. p \in [Timers -> Time \cup {Never}]
  BY DEF BankOK, TypeOK, TimerState
<1>2. timer' = [i \in Timers |-> [timer[i] EXCEPT
         !.event = IF Due(@, now') THEN Never ELSE @, !.pulse_event = p[i]]]
  BY DEF Tick
<1>3. ready' = ready \cup DueTimers(now')
  BY DEF Tick, Notify
<1> HIDE DEF p
<1>4. /\ timer' \in [Timers -> TimerState]
      /\ ready' \subseteq Timers
      /\ \A i \in Timers : Wellformed(timer'[i]) /\ Awake(timer'[i], i \in ready')
  BY <1>1, <1>2, <1>3, WakingKeepsBank
<1>5. now' \in 0 .. MaxTime
  <2>1. MaxTime \in Int
    BY ConstantsAreInt DEF Time
  <2>2. now \in 0 .. MaxTime /\ now < MaxTime /\ now' = now + 1
    BY DEF Tick, BankOK, TypeOK
  <2>3. QED
    BY <2>1, <2>2
<1>6. QED
  BY <1>4, <1>5 DEF Tick, Notify, BankOK, TypeOK

LEMMA DeltaNotifyKeepsBank ==
  ASSUME BankOK, DeltaNotify
  PROVE  BankOK'
<1> DEFINE p == [i \in Timers |-> timer[i].pulse_event]
<1>1. p \in [Timers -> Time \cup {Never}]
  BY DEF BankOK, TypeOK, TimerState
<1>2. timer' = [i \in Timers |-> [timer[i] EXCEPT
         !.event = IF Due(@, now) THEN Never ELSE @, !.pulse_event = p[i]]]
  <2>1. \A i \in Timers :
          [timer[i] EXCEPT !.event = IF Due(@, now) THEN Never ELSE @]
            = [timer[i] EXCEPT !.event = IF Due(@, now) THEN Never ELSE @,
                               !.pulse_event = p[i]]
    BY DEF BankOK, TypeOK, TimerState
  <2>2. QED
    BY <2>1 DEF DeltaNotify
<1>3. ready' = ready \cup DueTimers(now)
  BY DEF DeltaNotify, Notify
<1> HIDE DEF p
<1>4. /\ timer' \in [Timers -> TimerState]
      /\ ready' \subseteq Timers
      /\ \A i \in Timers : Wellformed(timer'[i]) /\ Awake(timer'[i], i \in ready')
  BY <1>1, <1>2, <1>3, WakingKeepsBank
<1>5. QED
  BY <1>4 DEF DeltaNotify, Notify, BankOK, TypeOK

LEMMA BankStep ==
  ASSUME BankOK, [Next]_vars
  PROVE  BankOK'
<1>1. CASE Software
  BY <1>1, SoftwareKeepsBank
<1>2. ASSUME NEW i \in Timers, TriggerThread(i)
      PROVE  BankOK'
  BY <1>2, TriggerThreadKeepsBank
<1>3. CASE TimerThread
  BY <1>3, TimerThreadKeepsBank
<1>4. CASE Tick
  BY <1>4, TickKeepsBank
<1>5. CASE DeltaNotify
  BY <1>5, DeltaNotifyKeepsBank
<1>6. CASE UNCHANGED vars
  BY <1>6 DEF vars, BankOK, TypeOK
<1>7. QED
  BY <1>1, <1>2, <1>3, <1>4, <1>5, <1>6 DEF Next, Kernel

-----------------------------------------------------------------------------
(* Theorems *)

LEMMA BankAlways == Spec => []BankOK
  BY BankInit, BankStep, PTL DEF Spec

\* Every variable of the bank has its type, whatever software writes.
THEOREM BankTypeOK == Spec => []TypeOK
<1>1. BankOK => TypeOK
  BY DEF BankOK
<1>2. QED
  BY <1>1, BankAlways, PTL

\* No sequence of register accesses makes the bank forget a running timer.
THEOREM BankForgetsNoTimer == Spec => []NoTimerForgotten
<1>1. BankOK => NoTimerForgotten
  BY DEF BankOK, NoTimerForgotten, Alive, Awake
<1>2. QED
  BY <1>1, BankAlways, PTL

-----------------------------------------------------------------------------
(* The action property *)

\* What RunningKeepsSchedule says of one step and of one timer.
Keeps(i) ==
  ~timer[i].paused /\ timer[i].trigger_time > now
    => /\ ~timer'[i].paused
       /\ timer'[i].trigger_time \in {timer[i].trigger_time, 0}

\* A step that changes neither the trigger time nor the pause of a timer.
LEMMA SameKeeps ==
  ASSUME NEW i, timer'[i].trigger_time = timer[i].trigger_time,
         timer'[i].paused = timer[i].paused
  PROVE  Keeps(i)
  BY DEF Keeps

LEMMA ControlKeepsSchedule ==
  ASSUME BankOK, NEW i \in Timers, NEW w, NEW r, NEW d, Control(i, w, r, d),
         NEW j \in Timers
  PROVE  Keeps(j)
<1>1. timer' = [timer EXCEPT ![i] = SetTimerStatus(timer[i], w, d)]
  BY DEF Control
<1>2. CASE j # i
  <2>1. timer'[j] = timer[j]
    BY <1>1, <1>2 DEF BankOK, TypeOK
  <2>2. QED
    BY <2>1, SameKeeps
<1>3. CASE j = i
  <2>1. timer'[j] = SetTimerStatus(timer[j], w, d)
    BY <1>1, <1>3 DEF BankOK, TypeOK
  <2>2. now \in Time /\ timer[j] \in TimerState
    BY ConstantsAreInt DEF BankOK, TypeOK
  <2>3. QED
    BY <2>1, <2>2, SetTimerStatusKeepsSchedule DEF Keeps
<1>4. QED
  BY <1>2, <1>3

LEMMA LoadKeepsSchedule ==
  ASSUME BankOK, NEW i \in Timers, NEW delay, NEW lo, NEW hi, Load(i, delay, lo, hi),
         NEW j \in Timers
  PROVE  Keeps(j)
<1>1. timer' = [timer EXCEPT ![i] = [timer[i] EXCEPT !.load_delay = delay % TimeMod]]
  BY DEF Load
<1>2. timer'[j].trigger_time = timer[j].trigger_time /\ timer'[j].paused = timer[j].paused
  BY <1>1 DEF BankOK, TypeOK, TimerState
<1>3. QED
  BY <1>2, SameKeeps

LEMMA SoftwareKeepsSchedule ==
  ASSUME BankOK, Software, NEW j \in Timers
  PROVE  Keeps(j)
<1> PICK i \in Timers :
    \/ WriteBurst(i)
    \/ \E v \in Words : WriteDebug(i, v)
    \/ \E v \in Words, d \in Delays :
         WriteStatus(i, v, d) \/ WriteCtrlSet(i, v, d) \/ WriteCtrlClr(i, v, d)
    \/ \E v \in Counts : WriteLoadLo(i, v) \/ WriteLoadHi(i, v)
    \/ \E lo, hi \in Counts : WriteLoad64(i, lo, hi) \/ WriteCurr64(i, lo, hi)
    \/ ReadStatus(i)
    \/ \E d \in Delays : ReadCurr(i, d)
  BY DEF Software
<1>1. CASE UNCHANGED timer
  BY <1>1, SameKeeps
<1>2. ASSUME NEW w, NEW r, NEW d, Control(i, w, r, d)
      PROVE  Keeps(j)
  BY <1>2, ControlKeepsSchedule
<1>3. ASSUME NEW delay, NEW lo, NEW hi, Load(i, delay, lo, hi)
      PROVE  Keeps(j)
  BY <1>3, LoadKeepsSchedule
<1>4. CASE WriteBurst(i) \/ (\E v \in Words : WriteDebug(i, v)) \/ ReadStatus(i)
           \/ \E d \in Delays : ReadCurr(i, d)
  BY <1>1, <1>4 DEF WriteBurst, WriteDebug, ReadStatus, ReadCurr
<1>5. CASE \E v \in Words, d \in Delays :
             WriteStatus(i, v, d) \/ WriteCtrlSet(i, v, d) \/ WriteCtrlClr(i, v, d)
  BY <1>2, <1>5 DEF WriteStatus, WriteCtrlSet, WriteCtrlClr
<1>6. CASE \/ \E v \in Counts : WriteLoadLo(i, v) \/ WriteLoadHi(i, v)
           \/ \E lo, hi \in Counts : WriteLoad64(i, lo, hi) \/ WriteCurr64(i, lo, hi)
  BY <1>3, <1>6 DEF WriteLoadLo, WriteLoadHi, WriteLoad64, WriteCurr64
<1>7. QED
  BY <1>4, <1>5, <1>6

\* trigger_thread looks at the timer before it does anything: one that is woken
\* before its trigger time fails an assertion, and keeps its schedule.
LEMMA TriggerThreadKeepsSchedule ==
  ASSUME BankOK, NEW i \in Timers, TriggerThread(i), NEW j \in Timers
  PROVE  Keeps(j)
<1>1. timer' = [timer EXCEPT ![i] = Trigger(timer[i], now)]
  BY DEF TriggerThread
<1>2. CASE j # i
  <2>1. timer'[j] = timer[j]
    BY <1>1, <1>2 DEF BankOK, TypeOK
  <2>2. QED
    BY <2>1, SameKeeps
<1>3. CASE j = i
  <2>1. timer'[j] = Trigger(timer[j], now)
    BY <1>1, <1>3 DEF BankOK, TypeOK
  <2>2. now \in Time /\ timer[j] \in TimerState
    BY ConstantsAreInt DEF BankOK, TypeOK
  <2>3. ASSUME ~timer[j].paused, timer[j].trigger_time > now
        PROVE  /\ timer'[j].trigger_time = timer[j].trigger_time
               /\ timer'[j].paused = timer[j].paused
    <3>1. timer[j].trigger_time # now /\ timer[j].trigger_time # 0
      BY <2>2, <2>3 DEF Time, TimerState
    <3>2. Trigger(timer[j], now) = Fail(timer[j], "trigger_time")
      BY <2>3, <3>1 DEF Trigger
    <3>3. QED
      BY <2>1, <2>2, <3>2 DEF Fail, TimerState
  <2>4. QED
    BY <2>3 DEF Keeps
<1>4. QED
  BY <1>2, <1>3

LEMMA StepKeepsSchedule ==
  ASSUME BankOK, [Next]_vars, NEW j \in Timers
  PROVE  Keeps(j)
<1>1. CASE Software
  BY <1>1, SoftwareKeepsSchedule
<1>2. ASSUME NEW i \in Timers, TriggerThread(i)
      PROVE  Keeps(j)
  BY <1>2, TriggerThreadKeepsSchedule
<1>3. CASE TimerThread \/ UNCHANGED vars
  BY <1>3, SameKeeps DEF TimerThread, vars
<1>4. CASE Tick
  <2>1. /\ timer'[j].trigger_time = timer[j].trigger_time
        /\ timer'[j].paused = timer[j].paused
    BY <1>4 DEF Tick, BankOK, TypeOK, TimerState
  <2>2. QED
    BY <2>1, SameKeeps
<1>5. CASE DeltaNotify
  <2>1. /\ timer'[j].trigger_time = timer[j].trigger_time
        /\ timer'[j].paused = timer[j].paused
    BY <1>5 DEF DeltaNotify, BankOK, TypeOK, TimerState
  <2>2. QED
    BY <2>1, SameKeeps
<1>6. QED
  BY <1>1, <1>2, <1>3, <1>4, <1>5 DEF Next, Kernel

\* Whatever software writes, a running timer keeps its trigger time until it is
\* reached, or is stopped.
THEOREM BankKeepsSchedule == Spec => RunningKeepsSchedule
<1>1. BankOK /\ [Next]_vars =>
        [\A i \in Timers :
           ~timer[i].paused /\ timer[i].trigger_time > now
             => /\ ~timer'[i].paused
                /\ timer'[i].trigger_time \in {timer[i].trigger_time, 0}]_vars
  BY StepKeepsSchedule DEF Keeps
<1>2. QED
  BY <1>1, BankAlways, PTL DEF Spec, RunningKeepsSchedule
=============================================================================
