---------------------------- MODULE TimerBehProofs ----------------------------
(***************************************************************************)
(* What holds of a Timer for every width of sc_time, every set of delays   *)
(* and every client, careful or not.  The three safety invariants of       *)
(* TimerBeh are inductive together with the types: NeverLate needs         *)
(* PausedIsSilent, because resume overwrites the trigger time and relies   *)
(* on pause having cancelled the notification.                             *)
(*                                                                         *)
(* With a client that takes every precaution no assertion fails, and       *)
(* TimerBeh implements Countdown.                                          *)
(***************************************************************************)
EXTENDS TimerBeh, TimerOpsProofs

\* The inductive invariant.
IInv ==
  /\ TypeOK
  /\ PausedIsSilent
  /\ RunningHasWakeup
  /\ NeverLate

-----------------------------------------------------------------------------
(* The invariant *)

\* IInv, split into what concerns the timer and what concerns the kernel.
LEMMA IInvIsWellformed ==
  IInv <=> now \in 0 .. MaxTime /\ ready \in BOOLEAN /\ Wellformed(timer) /\ Awake(timer, ready)
  BY DEF IInv, TypeOK, PausedIsSilent, RunningHasWakeup, NeverLate, Wellformed, Awake

LEMMA IInvIsWellformedNext ==
  IInv' <=> now' \in 0 .. MaxTime /\ ready' \in BOOLEAN /\ Wellformed(timer') /\ Awake(timer', ready')
  BY DEF IInv, TypeOK, PausedIsSilent, RunningHasWakeup, NeverLate, Wellformed, Awake

LEMMA InitIInv == Init => IInv
<1>1. 0 \in 0 .. MaxTime
  BY TimerBehAssumption DEF Time
<1>2. QED
  BY <1>1, NewTimerWellformed, TimerBehAssumption, IInvIsWellformed DEF Init

\* A call preserves the invariant if the timer it leaves is wellformed.
LEMMA CallIInv ==
  ASSUME IInv, NEW t, Call(t), Wellformed(t), Awake(t, ready)
  PROVE  IInv'
  BY IInvIsWellformed, IInvIsWellformedNext DEF Call

LEMMA ClientIInv == IInv /\ Client => IInv'
<1> SUFFICES ASSUME IInv, Client PROVE IInv'
  OBVIOUS
<1>1. /\ Wellformed(timer) /\ Awake(timer, ready)
      /\ ready \in BOOLEAN /\ now \in Int /\ 0 \in Int
  BY IInvIsWellformed, TimerBehAssumption DEF Time
<1>2. ASSUME NEW l \in Loads, SetLoadDelay(l) PROVE IInv'
  <2>1. Wellformed([timer EXCEPT !.load_delay = l]) /\ Awake([timer EXCEPT !.load_delay = l], ready)
    BY <1>1, TimerBehAssumption DEF Wellformed, Awake, Live, TimerState
  <2>2. QED
    BY <1>2, <2>1, CallIInv DEF SetLoadDelay
<1>3. ASSUME NEW p \in Pulses, SetPulseDelay(p) PROVE IInv'
  <2>1. Wellformed([timer EXCEPT !.pulse_delay = p]) /\ Awake([timer EXCEPT !.pulse_delay = p], ready)
    BY <1>1, TimerBehAssumption DEF Wellformed, Awake, Live, TimerState
  <2>2. QED
    BY <1>3, <2>1, CallIInv DEF SetPulseDelay
<1>4. ASSUME NEW b \in BOOLEAN, SetTriggered(b) PROVE IInv'
  <2>1. Wellformed([timer EXCEPT !.triggered = b]) /\ Awake([timer EXCEPT !.triggered = b], ready)
    BY <1>1 DEF Wellformed, Awake, Live, TimerState
  <2>2. QED
    BY <1>4, <2>1, CallIInv DEF SetTriggered
<1>5. ASSUME NEW b \in BOOLEAN, SetReload(b) PROVE IInv'
  <2>1. Wellformed([timer EXCEPT !.reload = b]) /\ Awake([timer EXCEPT !.reload = b], ready)
    BY <1>1 DEF Wellformed, Awake, Live, TimerState
  <2>2. QED
    BY <1>5, <2>1, CallIInv DEF SetReload
<1>6. ASSUME NEW b \in BOOLEAN, SetContinuous(b) PROVE IInv'
  <2>1. Wellformed([timer EXCEPT !.continuous = b]) /\ Awake([timer EXCEPT !.continuous = b], ready)
    BY <1>1 DEF Wellformed, Awake, Live, TimerState
  <2>2. QED
    BY <1>6, <2>1, CallIInv DEF SetContinuous
<1>7. ASSUME NEW d \in Delays, CallStart(d) PROVE IInv'
  <2>1. d \in Int
    BY TimerBehAssumption DEF Time
  <2>2. QED
    BY <1>1, <1>7, <2>1, StartWellformed, CallIInv DEF CallStart
<1>8. ASSUME NEW d \in Delays, CallPause(d) PROVE IInv'
  <2>1. d \in Int
    BY TimerBehAssumption DEF Time
  <2>2. QED
    BY <1>1, <1>8, <2>1, PauseWellformed, CallIInv DEF CallPause
<1>9. ASSUME NEW d \in Delays, CallResume(d) PROVE IInv'
  <2>1. d \in Int
    BY TimerBehAssumption DEF Time
  <2>2. QED
    BY <1>1, <1>9, <2>1, ResumeWellformed, CallIInv DEF CallResume
<1>10. CASE CallStop
  BY <1>1, <1>10, StopWellformed, CallIInv DEF CallStop
<1>11. CASE CallReset
  <2>1. 0 \in Time
    BY TimeModAssumption DEF Time
  <2>2. QED
    BY <1>1, <1>11, <2>1, NewTimerWellformed, CallIInv DEF CallReset, Reset
<1>12. QED
  BY <1>2, <1>3, <1>4, <1>5, <1>6, <1>7, <1>8, <1>9, <1>10, <1>11 DEF Client

LEMMA KernelIInv == IInv /\ Kernel => IInv'
<1> SUFFICES ASSUME IInv, Kernel PROVE IInv'
  OBVIOUS
<1>1. /\ Wellformed(timer) /\ Awake(timer, ready)
      /\ ready \in BOOLEAN /\ now \in 0 .. MaxTime /\ now \in Time
  <2>1. 0 .. MaxTime \subseteq Time
    BY TimerBehAssumption, TimeModAssumption DEF Time
  <2>2. QED
    BY <2>1, IInvIsWellformed
<1>2. CASE TriggerThread
  BY <1>1, <1>2, TriggerWellformed, IInvIsWellformedNext DEF TriggerThread
<1>3. CASE Tick
  <2>1. now' \in 0 .. MaxTime /\ ready' \in BOOLEAN
    BY <1>1, <1>3, TimerBehAssumption DEF Tick, Time, Due
  <2>2. Wellformed(timer')
    BY <1>1, <1>3 DEF Tick, Wellformed, TimerState
  <2>3. Awake(timer', ready')
    BY <1>1, <1>3 DEF Tick, Awake, Live, Wellformed, TimerState, Due
  <2>4. QED
    BY <2>1, <2>2, <2>3, IInvIsWellformedNext
<1>4. CASE DeltaNotify
  <2>1. Wellformed(timer') /\ Awake(timer', ready')
    BY <1>1, <1>4 DEF DeltaNotify, Wellformed, Awake, Live, TimerState
  <2>2. QED
    BY <1>1, <1>4, <2>1, IInvIsWellformedNext DEF DeltaNotify
<1>5. QED
  BY <1>2, <1>3, <1>4 DEF Kernel

THEOREM IInvInvariant == Spec => []IInv
<1>1. IInv /\ [Next]_vars => IInv'
  <2>1. IInv /\ UNCHANGED vars => IInv'
    BY DEF IInv, TypeOK, PausedIsSilent, RunningHasWakeup, NeverLate, vars
  <2>2. QED
    BY <2>1, ClientIInv, KernelIInv DEF Next
<1>2. QED
  BY <1>1, InitIInv, PTL DEF Spec

\* The types of the state.
THEOREM TypeCorrect == Spec => []TypeOK
<1>1. IInv => TypeOK
  BY DEF IInv
<1>2. QED
  BY <1>1, IInvInvariant, PTL

\* A paused timer never notifies trigger_event, for every client.
THEOREM PausedIsSilentAlways == Spec => []PausedIsSilent
<1>1. IInv => PausedIsSilent
  BY DEF IInv
<1>2. QED
  BY <1>1, IInvInvariant, PTL

\* A running timer always has its wakeup ahead of it, for every client.
THEOREM RunningHasWakeupAlways == Spec => []RunningHasWakeup
<1>1. IInv => RunningHasWakeup
  BY DEF IInv
<1>2. QED
  BY <1>1, IInvInvariant, PTL

\* The wakeup is never later than the trigger time, for every client.
THEOREM NeverLateAlways == Spec => []NeverLate
<1>1. IInv => NeverLate
  BY DEF IInv
<1>2. QED
  BY <1>1, IInvInvariant, PTL

-----------------------------------------------------------------------------
(* Careful use.  The invariants above hold of every client and say that a   *)
(* wakeup is not late.  Here it must not be early either: of a timer that   *)
(* runs, exactly one of the pending notification and the readiness of       *)
(* trigger_thread is there, and it is for the trigger time.                 *)

\* The client takes every precaution, and no sum of times wraps.
CarefulClient ==
  /\ Careless = {}
  /\ 0 \notin Loads
  /\ MaxTime + Horizon < TimeMod
  /\ \A l \in Loads, d \in Delays : MaxTime + l + d < TimeMod

\* A timer t at time n, r telling whether its trigger_thread is ready.
PausedOK(t, r) ==
  /\ ~r
  /\ t.event = Never
  /\ t.load_delay # 0
  /\ t.resume_delay > 0 /\ MaxTime + t.resume_delay < TimeMod

RunningOK(t, r, n) ==
  /\ t.load_delay # 0
  /\ MaxTime + (t.trigger_time - n) < TimeMod
  /\ IF r THEN t.event = Never /\ t.trigger_time = n
          ELSE t.event = t.trigger_time /\ t.trigger_time > n

Orderly(t, r, n) ==
  /\ Live(t)
  /\ t.load_delay \in Loads \cup {0}
  /\ t.paused => PausedOK(t, r)
  /\ ~t.paused /\ t.trigger_time = 0 => t.event = Never
  /\ ~t.paused /\ t.trigger_time # 0 => RunningOK(t, r, n)

\* The inductive invariant of careful use.
CInv == IInv /\ Orderly(timer, ready, now)

-----------------------------------------------------------------------------
(* Lemmas *)

\* Times are natural numbers.
LEMMA TimesAreNat ==
  /\ TimeMod \in Nat \ {0} /\ MaxTime \in Nat /\ MaxTime < TimeMod /\ Horizon \in Nat
  /\ Loads \subseteq Nat /\ Delays \subseteq Nat /\ 0 \in Delays /\ Time \subseteq Nat
  BY TimeModAssumption, TimerBehAssumption DEF Time

LEMMA StateIsNat ==
  ASSUME CInv
  PROVE  /\ timer \in TimerState /\ ready \in BOOLEAN
         /\ now \in Nat /\ now <= MaxTime
         /\ timer.load_delay \in Nat /\ timer.resume_delay \in Nat
         /\ timer.trigger_time \in Nat /\ timer.trigger_time < TimeMod
         /\ timer.paused \in BOOLEAN /\ timer.continuous \in BOOLEAN
         /\ Orderly(timer, ready, now)
<1>1. timer \in TimerState /\ ready \in BOOLEAN /\ now \in 0 .. MaxTime
  BY DEF CInv, IInv, TypeOK
<1>2. QED
  BY <1>1, TimesAreNat DEF CInv, TimerState, Time

-----------------------------------------------------------------------------
(* What start, pause, resume and trigger_thread do to an orderly timer *)

\* Resuming, by resume() or by start(): what was left is ahead again.
LEMMA ResumeEffect ==
  ASSUME CarefulClient, CInv, timer.paused,
         NEW d \in Nat, now + d + timer.resume_delay < TimeMod
  PROVE  LET trigger == now + d + timer.resume_delay
         IN Resume(timer, d, now)
              = [timer EXCEPT !.paused = FALSE, !.trigger_time = trigger,
                              !.start_time = Minus(trigger, timer.load_delay),
                              !.event = trigger, !.resume_delay = 0]
<1> DEFINE trigger == now + d + timer.resume_delay
<1>1. /\ now \in Nat /\ timer.resume_delay \in Nat
      /\ timer.event = Never /\ timer.resume_delay # 0 /\ timer \in TimerState
  BY StateIsNat DEF Orderly, PausedOK
<1>2. Plus(now, d) = now + d
  BY <1>1, NoWrap, TimesAreNat
<1>3. Plus(now + d, timer.resume_delay) = trigger
  BY <1>1, NoWrap
<1>4. Earlier(timer.event, trigger) = trigger
  BY <1>1 DEF Earlier
<1>5. Resume(timer, d, now) = ResumeAt(timer, trigger)
  BY <1>1, <1>2, <1>3 DEF Resume
<1> HIDE DEF trigger
<1>6. QED
  BY <1>4, <1>5 DEF ResumeAt, trigger

\* Starting a timer that is stopped.
LEMMA StartEffect ==
  ASSUME CarefulClient, CInv, ~timer.paused, timer.trigger_time = 0, timer.load_delay # 0,
         NEW d \in Delays
  PROVE  LET trigger == now + d + timer.load_delay
         IN /\ MaxTime + timer.load_delay + d < TimeMod
            /\ Start(timer, d, now)
                 = [timer EXCEPT !.start_time = now + d, !.trigger_time = trigger,
                                 !.event = trigger]
<1>1. /\ now \in Nat /\ now <= MaxTime /\ timer.load_delay \in Nat /\ d \in Nat
      /\ timer.event = Never /\ timer.load_delay \in Loads /\ MaxTime \in Nat
  BY StateIsNat, TimesAreNat DEF Orderly
<1>2. MaxTime + timer.load_delay + d < TimeMod
  BY <1>1 DEF CarefulClient
<1>3. Plus(now, d) = now + d /\ Plus(now + d, timer.load_delay) = now + d + timer.load_delay
  BY <1>1, <1>2, NoWrap, TimesAreNat
<1>4. Earlier(timer.event, now + d + timer.load_delay) = now + d + timer.load_delay
  BY <1>1 DEF Earlier
<1>5. Start(timer, d, now) = StartAt(timer, now + d)
  BY <1>3 DEF Start
<1>6. QED
  BY <1>2, <1>3, <1>4, <1>5 DEF StartAt

LEMMA PauseEffect ==
  ASSUME CInv, NEW d \in Nat, timer.trigger_time > now + d
  PROVE  Pause(timer, d, now)
           = [timer EXCEPT !.paused = TRUE, !.event = Never,
                           !.resume_delay = timer.trigger_time - (now + d)]
<1>1. now \in Nat /\ timer.trigger_time \in Nat /\ timer.trigger_time < TimeMod
  BY StateIsNat
<1>2. Plus(now, d) = now + d
  BY <1>1, NoWrap, TimesAreNat
<1>3. Minus(timer.trigger_time, now + d) = timer.trigger_time - (now + d)
  BY <1>1, NoWrap
<1>4. QED
  BY <1>2, <1>3 DEF Pause

\* trigger_thread of a timer that runs: it is woken at the trigger time.
LEMMA TriggerEffect ==
  ASSUME CarefulClient, CInv, ready, ~timer.paused, timer.trigger_time # 0
  PROVE  LET t == Trigger(timer, now)
             trigger == now + timer.load_delay
         IN /\ timer.trigger_time = now
            /\ t.triggered = TRUE /\ Live(t)
            /\ t.paused = FALSE /\ t.load_delay = timer.load_delay
            /\ t.continuous = timer.continuous
            /\ IF timer.continuous
                 THEN /\ t.trigger_time = trigger /\ t.event = trigger
                      /\ MaxTime + timer.load_delay < TimeMod
                 ELSE t.trigger_time = 0 /\ t.event = Never
<1> DEFINE p == IF timer.pulse_delay > 0
                  THEN Earlier(timer.pulse_event, Plus(now, timer.pulse_delay))
                  ELSE timer.pulse_event
           s == IF timer.reload /\ timer.load_delay # 0 THEN now ELSE timer.start_time
           fired == [timer EXCEPT !.triggered = TRUE, !.pulse_event = p, !.start_time = s]
<1>1. /\ timer \in TimerState /\ now \in Nat /\ now <= MaxTime /\ timer.load_delay \in Nat
      /\ RunningOK(timer, ready, now) /\ Live(timer) /\ timer.load_delay \in Loads \cup {0}
      /\ timer.continuous \in BOOLEAN /\ timer.load_delay # 0
  BY StateIsNat DEF Orderly, RunningOK
<1>2. timer.trigger_time = now /\ timer.event = Never
  BY <1>1 DEF RunningOK
<1>3. MaxTime + timer.load_delay < TimeMod
  <2>1. \A l \in Loads : MaxTime + l + 0 < TimeMod
    BY TimesAreNat DEF CarefulClient
  <2>2. QED
    BY <1>1, <2>1, TimesAreNat
<1>4. Plus(now, timer.load_delay) = now + timer.load_delay
  BY <1>1, <1>3, NoWrap, TimesAreNat
<1>5. Earlier(timer.event, now + timer.load_delay) = now + timer.load_delay
  BY <1>2 DEF Earlier
<1>6. Trigger(timer, now) =
        IF ~fired.continuous THEN [fired EXCEPT !.trigger_time = 0]
        ELSE IF fired.load_delay = 0 THEN Fail(fired, "load_delay")
        ELSE [fired EXCEPT !.trigger_time = Plus(now, timer.load_delay),
                           !.event = Earlier(fired.event, Plus(now, timer.load_delay))]
  BY <1>2 DEF Trigger
<1> HIDE DEF p, s
<1>7. /\ fired.continuous = timer.continuous /\ fired.load_delay = timer.load_delay
      /\ fired.event = timer.event /\ fired.paused = FALSE /\ fired.triggered = TRUE
      /\ fired.abort = timer.abort
      /\ fired = [k \in DOMAIN fired |-> fired[k]]
      /\ {"continuous", "load_delay", "event", "paused", "triggered", "abort",
          "trigger_time"} \subseteq DOMAIN fired
  BY <1>1 DEF TimerState
<1> HIDE DEF fired
<1>8. CASE timer.continuous
  <2>1. Trigger(timer, now) = [fired EXCEPT !.trigger_time = now + timer.load_delay,
                                            !.event = now + timer.load_delay]
    BY <1>1, <1>4, <1>5, <1>6, <1>7, <1>8
  <2>2. QED
    BY <1>1, <1>2, <1>3, <1>7, <1>8, <2>1 DEF Live
<1>9. CASE ~timer.continuous
  <2>1. Trigger(timer, now) = [fired EXCEPT !.trigger_time = 0]
    BY <1>6, <1>7, <1>9
  <2>2. QED
    BY <1>1, <1>2, <1>7, <1>9, <2>1 DEF Live
<1>10. QED
  BY <1>1, <1>8, <1>9

-----------------------------------------------------------------------------
(* The invariant *)

LEMMA InitCInv == Init => CInv
<1> SUFFICES ASSUME Init PROVE CInv
  OBVIOUS
<1>1. Orderly(timer, ready, now)
  BY DEF Init, NewTimer, Orderly, Live
<1>2. QED
  BY <1>1, InitIInv DEF CInv

\* A timer that runs, not yet woken, to an end at e.
LEMMA RunningIsOrderly ==
  ASSUME NEW t, NEW n \in Nat, NEW e \in Nat, e > n, MaxTime + (e - n) < TimeMod,
         Live(t), t.load_delay \in Loads \cup {0}, t.load_delay # 0,
         t.paused = FALSE, t.trigger_time = e, t.event = e
  PROVE  Orderly(t, FALSE, n)
<1>1. RunningOK(t, FALSE, n)
  BY DEF RunningOK
<1>2. t.trigger_time # 0
  OBVIOUS
<1>3. QED
  BY <1>1, <1>2 DEF Orderly

\* A call that leaves an orderly timer.
LEMMA CallCInv ==
  ASSUME CInv, Client, NEW t, Call(t), Orderly(t, ready, now)
  PROVE  CInv'
<1>1. timer' = t /\ ready' = ready /\ now' = now
  BY DEF Call
<1>2. Orderly(timer', ready', now')
  BY <1>1
<1>3. QED
  BY <1>2, ClientIInv DEF CInv

\* A setter of anything but the load delay.
LEMMA SetterOrderly ==
  ASSUME CInv, NEW t, {"load_delay", "resume_delay", "trigger_time", "paused", "event",
                       "abort"} \subseteq DOMAIN t,
         t.load_delay = timer.load_delay, t.resume_delay = timer.resume_delay,
         t.trigger_time = timer.trigger_time, t.paused = timer.paused,
         t.event = timer.event, t.abort = timer.abort
  PROVE  Orderly(t, ready, now)
<1>1. Orderly(timer, ready, now)
  BY DEF CInv
<1>2. QED
  BY <1>1 DEF Orderly, PausedOK, RunningOK, Live

LEMMA ClientCInv ==
  ASSUME CarefulClient, CInv, Client
  PROVE  CInv'
<1>1. /\ timer \in TimerState /\ ready \in BOOLEAN
      /\ now \in Nat /\ now <= MaxTime /\ MaxTime \in Nat /\ TimeMod \in Nat
      /\ timer.load_delay \in Nat /\ timer.resume_delay \in Nat
      /\ timer.trigger_time \in Nat /\ Orderly(timer, ready, now)
      /\ Loads \subseteq Nat /\ Delays \subseteq Nat
  BY StateIsNat, TimesAreNat
<1>2. ASSUME NEW l \in Loads, SetLoadDelay(l) PROVE CInv'
  <2>1. l # 0
    BY DEF CarefulClient
  <2>2. Orderly([timer EXCEPT !.load_delay = l], ready, now)
    BY <1>1, <2>1 DEF Orderly, PausedOK, RunningOK, Live, TimerState
  <2>3. QED
    BY <1>2, <2>2, CallCInv DEF SetLoadDelay
<1>3. ASSUME NEW x \in Pulses, SetPulseDelay(x) PROVE CInv'
  <2>1. Orderly([timer EXCEPT !.pulse_delay = x], ready, now)
    BY <1>1, SetterOrderly DEF TimerState
  <2>2. QED
    BY <1>3, <2>1, CallCInv DEF SetPulseDelay
<1>4. ASSUME NEW b \in BOOLEAN, SetTriggered(b) \/ SetReload(b) \/ SetContinuous(b)
      PROVE  CInv'
  <2>1. /\ Orderly([timer EXCEPT !.triggered = b], ready, now)
        /\ Orderly([timer EXCEPT !.reload = b], ready, now)
        /\ Orderly([timer EXCEPT !.continuous = b], ready, now)
    BY <1>1, SetterOrderly DEF TimerState
  <2>2. QED
    BY <1>4, <2>1, CallCInv DEF SetTriggered, SetReload, SetContinuous
<1>5. ASSUME timer.paused, NEW d \in Nat, now + d + timer.resume_delay < TimeMod,
             MaxTime + d + timer.resume_delay < TimeMod
      PROVE  Orderly(Resume(timer, d, now), ready, now)
  <2> DEFINE trigger == now + d + timer.resume_delay
             t == Resume(timer, d, now)
  <2>1. t = [timer EXCEPT !.paused = FALSE, !.trigger_time = trigger,
                          !.start_time = Minus(trigger, timer.load_delay),
                          !.event = trigger, !.resume_delay = 0]
    BY <1>5, ResumeEffect
  <2>2. /\ t.paused = FALSE /\ t.trigger_time = trigger /\ t.event = trigger
        /\ t.load_delay = timer.load_delay /\ t.abort = timer.abort
    BY <1>1, <2>1 DEF TimerState
  <2>3. ~ready /\ timer.load_delay # 0 /\ timer.resume_delay > 0
    BY <1>1, <1>5 DEF Orderly, PausedOK
  <2>4. trigger \in Nat /\ trigger > now /\ MaxTime + (trigger - now) < TimeMod
    BY <1>1, <1>5, <2>3
  <2> HIDE DEF trigger, t
  <2>5. Live(t) /\ t.load_delay \in Loads \cup {0} /\ t.load_delay # 0
    BY <1>1, <2>2, <2>3 DEF Orderly, Live
  <2>6. Orderly(t, FALSE, now)
    BY <1>1, <2>2, <2>4, <2>5, RunningIsOrderly
  <2>7. ready = FALSE
    BY <1>1, <2>3
  <2>8. QED
    BY <2>6, <2>7 DEF t
<1>6. ASSUME NEW d \in Delays, CallStart(d) PROVE CInv'
  <2>1. CASE timer.paused
    <3>1. MaxTime + 0 + timer.resume_delay < TimeMod
      BY <1>1, <2>1 DEF Orderly, PausedOK
    <3>2. now + 0 + timer.resume_delay < TimeMod
      BY <1>1, <3>1
    <3>3. Orderly(Resume(timer, 0, now), ready, now)
      BY <1>5, <2>1, <3>1, <3>2
    <3>4. Start(timer, d, now) = Resume(timer, 0, now)
      BY <2>1 DEF Start
    <3>5. QED
      BY <1>6, <3>3, <3>4, CallCInv DEF CallStart
  <2>2. CASE ~timer.paused
    <3> DEFINE trigger == now + d + timer.load_delay
               t == Start(timer, d, now)
    <3>1. timer.trigger_time = 0 /\ timer.load_delay # 0 /\ ~ready
      BY <1>6, <2>2 DEF CallStart, CarefulClient
    <3>2. /\ MaxTime + timer.load_delay + d < TimeMod
          /\ t = [timer EXCEPT !.start_time = now + d, !.trigger_time = trigger,
                               !.event = trigger]
      BY <2>2, <3>1, StartEffect
    <3>3. /\ t.paused = FALSE /\ t.trigger_time = trigger /\ t.event = trigger
          /\ t.load_delay = timer.load_delay /\ t.abort = timer.abort
      BY <1>1, <2>2, <3>2 DEF TimerState
    <3>4. trigger \in Nat /\ trigger > now /\ MaxTime + (trigger - now) < TimeMod
      BY <1>1, <3>1, <3>2
    <3> HIDE DEF trigger, t
    <3>5. Live(t) /\ t.load_delay \in Loads \cup {0} /\ t.load_delay # 0
      BY <1>1, <3>1, <3>3 DEF Orderly, Live
    <3>6. Orderly(t, FALSE, now)
      BY <1>1, <3>3, <3>4, <3>5, RunningIsOrderly
    <3>7. ready = FALSE
      BY <1>1, <3>1
    <3>8. QED
      BY <1>6, <3>6, <3>7, CallCInv DEF CallStart, t
  <2>3. QED
    BY <2>1, <2>2
<1>7. ASSUME NEW d \in Delays, CallPause(d) PROVE CInv'
  <2> DEFINE left == timer.trigger_time - (now + d)
             t == Pause(timer, d, now)
  <2>1. ~timer.paused /\ timer.trigger_time > now + d
    BY <1>7 DEF CallPause, CarefulClient
  <2>2. RunningOK(timer, ready, now) /\ timer.trigger_time > now
    BY <1>1, <2>1 DEF Orderly
  <2>3. t = [timer EXCEPT !.paused = TRUE, !.event = Never, !.resume_delay = left]
    BY <1>1, <2>1, PauseEffect
  <2>4. /\ t.paused = TRUE /\ t.event = Never /\ t.resume_delay = left
        /\ t.load_delay = timer.load_delay /\ t.abort = timer.abort
    BY <1>1, <2>3 DEF TimerState
  <2>5. ~ready /\ timer.load_delay # 0 /\ left > 0 /\ MaxTime + left < TimeMod
    BY <1>1, <2>1, <2>2 DEF RunningOK
  <2> HIDE DEF left, t
  <2>6. Orderly(t, ready, now)
    BY <1>1, <2>4, <2>5 DEF Orderly, PausedOK, Live
  <2>7. QED
    BY <1>7, <2>6, CallCInv DEF CallPause, t
<1>8. ASSUME NEW d \in Delays, CallResume(d) PROVE CInv'
  <2>1. timer.paused /\ now + d + timer.resume_delay <= Horizon
    BY <1>8 DEF CallResume, CarefulClient
  <2>2. Horizon \in Nat /\ MaxTime + Horizon < TimeMod /\ d \in Nat
    BY <1>1, TimesAreNat DEF CarefulClient
  <2>3. now + d + timer.resume_delay < TimeMod /\ MaxTime + d + timer.resume_delay < TimeMod
    BY <1>1, <2>1, <2>2
  <2>4. Orderly(Resume(timer, d, now), ready, now)
    BY <1>5, <2>1, <2>2, <2>3
  <2>5. QED
    BY <1>8, <2>4, CallCInv DEF CallResume
<1>9. CASE CallStop
  <2>1. Orderly(Stop(timer), ready, now)
    BY <1>1 DEF Stop, Orderly, Live, TimerState
  <2>2. QED
    BY <1>9, <2>1, CallCInv DEF CallStop
<1>10. CASE CallReset
  <2>1. Orderly(Reset(timer), ready, now)
    BY DEF Reset, NewTimer, Orderly, Live
  <2>2. QED
    BY <1>10, <2>1, CallCInv DEF CallReset
<1>11. QED
  BY <1>2, <1>3, <1>4, <1>6, <1>7, <1>8, <1>9, <1>10 DEF Client

LEMMA KernelCInv ==
  ASSUME CarefulClient, CInv, Kernel
  PROVE  CInv'
<1>1. /\ timer \in TimerState /\ ready \in BOOLEAN
      /\ now \in Nat /\ now <= MaxTime /\ MaxTime \in Nat /\ TimeMod \in Nat
      /\ timer.load_delay \in Nat /\ timer.trigger_time \in Nat
      /\ Orderly(timer, ready, now)
  BY StateIsNat, TimesAreNat
<1>2. CASE TriggerThread
  <2>1. ready /\ ready' = FALSE /\ timer' = Trigger(timer, now) /\ now' = now
    BY <1>2 DEF TriggerThread
  <2>2. ~timer.paused
    BY <1>1, <2>1 DEF Orderly, PausedOK
  <2>3. CASE timer.trigger_time = 0
    <3>1. timer' = timer
      BY <2>1, <2>3 DEF Trigger
    <3>2. Orderly(timer', ready', now')
      BY <1>1, <2>1, <2>2, <2>3, <3>1 DEF Orderly
    <3>3. QED
      BY <3>2, KernelIInv DEF CInv
  <2>4. CASE timer.trigger_time # 0
    <3>1. /\ Live(timer') /\ timer'.paused = FALSE
          /\ timer'.load_delay = timer.load_delay
          /\ IF timer.continuous
               THEN /\ timer'.trigger_time = now + timer.load_delay
                    /\ timer'.event = now + timer.load_delay
                    /\ MaxTime + timer.load_delay < TimeMod
               ELSE timer'.trigger_time = 0 /\ timer'.event = Never
      BY <2>1, <2>2, <2>4, TriggerEffect
    <3>2. timer.load_delay # 0 /\ timer.load_delay \in Loads \cup {0}
      BY <1>1, <2>2, <2>4 DEF Orderly, RunningOK
    <3>3. Orderly(timer', FALSE, now)
      <4>1. CASE timer.continuous
        <5> DEFINE trigger == now + timer.load_delay
        <5>1. trigger \in Nat /\ trigger > now /\ MaxTime + (trigger - now) < TimeMod
          BY <1>1, <3>1, <3>2, <4>1
        <5>2. timer'.trigger_time = trigger /\ timer'.event = trigger
          BY <3>1, <4>1
        <5> HIDE DEF trigger
        <5>3. QED
          BY <1>1, <3>1, <3>2, <5>1, <5>2, RunningIsOrderly
      <4>2. CASE ~timer.continuous
        BY <3>1, <3>2, <4>2 DEF Orderly
      <4>3. QED
        BY <4>1, <4>2
    <3>4. QED
      BY <2>1, <3>3, KernelIInv DEF CInv
  <2>5. QED
    BY <2>3, <2>4
<1>3. CASE Tick
  <2>1. /\ ~ready /\ ~Due(timer.event, now) /\ now' = now + 1
        /\ ready' = Due(timer.event, now')
        /\ timer' = [timer EXCEPT
             !.event       = IF Due(@, now') THEN Never ELSE @,
             !.pulse_event = IF Due(@, now') THEN Never ELSE @]
    BY <1>3 DEF Tick
  <2>2. /\ timer'.event = IF ready' THEN Never ELSE timer.event
        /\ timer'.paused = timer.paused /\ timer'.load_delay = timer.load_delay
        /\ timer'.trigger_time = timer.trigger_time /\ timer'.abort = timer.abort
        /\ timer'.resume_delay = timer.resume_delay
    BY <1>1, <2>1 DEF TimerState
  <2>3. CASE timer.paused \/ timer.trigger_time = 0
    <3>1. timer.event = Never
      BY <1>1, <2>3 DEF Orderly, PausedOK
    <3>2. ready' = FALSE
      BY <2>1, <3>1 DEF Due
    <3>3. Orderly(timer', ready', now')
      BY <1>1, <2>1, <2>2, <2>3, <3>1, <3>2 DEF Orderly, PausedOK, Live
    <3>4. QED
      BY <3>3, KernelIInv DEF CInv
  <2>4. CASE ~timer.paused /\ timer.trigger_time # 0
    <3>1. /\ timer.event = timer.trigger_time /\ timer.trigger_time > now
          /\ timer.load_delay # 0 /\ MaxTime + (timer.trigger_time - now) < TimeMod
      BY <1>1, <2>1, <2>4 DEF Orderly, RunningOK
    <3>2. ready' = (timer.trigger_time = now + 1)
      BY <1>1, <2>1, <3>1 DEF Due, Never
    <3>3. RunningOK(timer', ready', now')
      <4>1. MaxTime + (timer.trigger_time - (now + 1)) < TimeMod
        BY <1>1, <3>1
      <4>2. CASE timer.trigger_time = now + 1
        <5>1. ready' = TRUE
          BY <3>2, <4>2
        <5>2. QED
          BY <2>1, <2>2, <3>1, <4>1, <4>2, <5>1 DEF RunningOK
      <4>3. CASE timer.trigger_time # now + 1
        <5>1. ready' = FALSE
          BY <3>2, <4>3
        <5>2. timer.trigger_time > now + 1
          BY <1>1, <3>1, <4>3
        <5>3. QED
          BY <2>1, <2>2, <3>1, <4>1, <5>1, <5>2 DEF RunningOK
      <4>4. QED
        BY <4>2, <4>3
    <3>4. Orderly(timer', ready', now')
      BY <1>1, <2>2, <2>4, <3>3 DEF Orderly, Live
    <3>5. QED
      BY <3>4, KernelIInv DEF CInv
  <2>5. QED
    BY <2>3, <2>4
<1>4. ~DeltaNotify
  <2>1. ASSUME ~ready, timer.event # Never PROVE timer.event > now
    BY <1>1, <2>1 DEF Orderly, PausedOK, RunningOK
  <2>2. timer.event # Never => timer.event \in Nat
    BY <1>1, TimesAreNat DEF TimerState
  <2>3. QED
    BY <1>1, <2>1, <2>2 DEF DeltaNotify, Due
<1>5. QED
  BY <1>2, <1>3, <1>4 DEF Kernel

LEMMA StepCInv ==
  ASSUME CarefulClient, CInv, [Next]_vars
  PROVE  CInv'
<1>1. CASE UNCHANGED vars
  BY <1>1 DEF vars, CInv, IInv, TypeOK, PausedIsSilent, RunningHasWakeup, NeverLate
<1>2. QED
  BY <1>1, ClientCInv, KernelCInv DEF Next

LEMMA CInvAlways ==
  ASSUME CarefulClient
  PROVE  Spec => []CInv
  BY InitCInv, StepCInv, PTL DEF Spec

-----------------------------------------------------------------------------
(* Theorems *)

\* No assertion of the code fails while the client takes the precautions.
THEOREM CarefulNeverAborts ==
  ASSUME CarefulClient
  PROVE  Spec => []NoAbort
<1>1. CInv => NoAbort
  BY DEF CInv, Orderly, NoAbort
<1>2. QED
  BY <1>1, CInvAlways, PTL

-----------------------------------------------------------------------------
(* The refinement *)

\* A call of the client is an operation of the countdown, or changes nothing that
\* the countdown knows of.
LEMMA ClientCounts ==
  ASSUME CarefulClient, CInv, Client
  PROVE  [Abstract!Next]_(Abstract!vars)
<1>1. /\ timer \in TimerState /\ ready \in BOOLEAN
      /\ now \in Nat /\ now <= MaxTime /\ MaxTime \in Nat /\ TimeMod \in Nat
      /\ timer.load_delay \in Nat /\ timer.resume_delay \in Nat
      /\ timer.trigger_time \in Nat /\ Orderly(timer, ready, now)
      /\ Delays \subseteq Nat /\ 0 \in Delays
  BY StateIsNat, TimesAreNat
<1>2. ASSUME NEW l \in Loads, SetLoadDelay(l) PROVE Abstract!Program(l)
  BY <1>1, <1>2 DEF SetLoadDelay, Call, Abstract!Program, TimerState
<1>3. ASSUME NEW x, SetPulseDelay(x) \/ SetReload(x) PROVE UNCHANGED Abstract!vars
  BY <1>1, <1>3 DEF SetPulseDelay, SetReload, Call, Abstract!vars, TimerState
<1>4. ASSUME NEW b \in BOOLEAN, SetTriggered(b) PROVE Abstract!Mark(b)
  BY <1>1, <1>4 DEF SetTriggered, Call, Abstract!Mark, TimerState
<1>5. ASSUME NEW b \in BOOLEAN, SetContinuous(b) PROVE Abstract!SetMode(b)
  BY <1>1, <1>5 DEF SetContinuous, Call, Abstract!SetMode, TimerState
<1>6. ASSUME NEW d \in Delays, timer.paused, Call(Resume(timer, d, now)),
             now + d + timer.resume_delay < TimeMod
      PROVE  Abstract!Thaw(d)
  <2> DEFINE trigger == now + d + timer.resume_delay
  <2>1. timer' = [timer EXCEPT !.paused = FALSE, !.trigger_time = trigger,
                               !.start_time = Minus(trigger, timer.load_delay),
                               !.event = trigger, !.resume_delay = 0]
    BY <1>1, <1>6, ResumeEffect DEF Call
  <2>2. /\ timer'.paused = FALSE /\ timer'.trigger_time = trigger
        /\ timer'.load_delay = timer.load_delay /\ timer'.continuous = timer.continuous
        /\ timer'.triggered = timer.triggered
    BY <1>1, <2>1 DEF TimerState
  <2>3. timer.resume_delay > 0 /\ now' = now
    BY <1>1, <1>6 DEF Orderly, PausedOK, Call
  <2>4. trigger # 0 /\ trigger - now = timer.resume_delay + d
    BY <1>1, <2>3
  <2> HIDE DEF trigger
  <2>5. QED
    BY <1>6, <2>2, <2>3, <2>4 DEF Abstract!Thaw
<1>7. ASSUME NEW d \in Delays, CallStart(d)
      PROVE  Abstract!Begin(d) \/ Abstract!Thaw(0)
  <2>1. CASE timer.paused
    <3>1. now + 0 + timer.resume_delay < TimeMod
      BY <1>1, <2>1 DEF Orderly, PausedOK
    <3>2. Call(Resume(timer, 0, now))
      BY <1>7, <2>1 DEF CallStart, Start
    <3>3. QED
      BY <1>1, <1>6, <2>1, <3>1, <3>2
  <2>2. CASE ~timer.paused
    <3> DEFINE trigger == now + d + timer.load_delay
    <3>1. timer.trigger_time = 0 /\ timer.load_delay # 0 /\ now' = now
          /\ timer' = Start(timer, d, now)
      BY <1>7, <2>2 DEF CallStart, CarefulClient, Call
    <3>2. timer' = [timer EXCEPT !.start_time = now + d, !.trigger_time = trigger,
                                 !.event = trigger]
      BY <2>2, <3>1, StartEffect
    <3>3. /\ timer'.paused = FALSE /\ timer'.trigger_time = trigger
          /\ timer'.load_delay = timer.load_delay /\ timer'.continuous = timer.continuous
          /\ timer'.triggered = timer.triggered
      BY <1>1, <2>2, <3>2 DEF TimerState
    <3>4. trigger # 0 /\ trigger - now = timer.load_delay + d
      BY <1>1, <3>1
    <3> HIDE DEF trigger
    <3>5. QED
      BY <2>2, <3>1, <3>3, <3>4 DEF Abstract!Begin
  <2>3. QED
    BY <2>1, <2>2
<1>8. ASSUME NEW d \in Delays, CallPause(d) PROVE Abstract!Freeze(d)
  <2> DEFINE left == timer.trigger_time - (now + d)
  <2>1. ~timer.paused /\ timer.trigger_time > now + d /\ now' = now
        /\ timer' = Pause(timer, d, now)
    BY <1>8 DEF CallPause, CarefulClient, Call
  <2>2. timer' = [timer EXCEPT !.paused = TRUE, !.event = Never, !.resume_delay = left]
    BY <1>1, <2>1, PauseEffect
  <2>3. /\ timer'.paused = TRUE /\ timer'.resume_delay = left
        /\ timer'.load_delay = timer.load_delay /\ timer'.continuous = timer.continuous
        /\ timer'.triggered = timer.triggered
    BY <1>1, <2>2 DEF TimerState
  <2>4. /\ timer.trigger_time # 0 /\ left = (timer.trigger_time - now) - d
        /\ timer.trigger_time - now > d
    BY <1>1, <2>1
  <2> HIDE DEF left
  <2>5. QED
    BY <2>1, <2>3, <2>4 DEF Abstract!Freeze
<1>9. ASSUME NEW d \in Delays, CallResume(d) PROVE Abstract!Thaw(d)
  <2>1. timer.paused /\ now + d + timer.resume_delay <= Horizon
        /\ Call(Resume(timer, d, now))
    BY <1>9 DEF CallResume, CarefulClient
  <2>2. Horizon \in Nat /\ MaxTime + Horizon < TimeMod
    BY TimesAreNat DEF CarefulClient
  <2>3. now + d + timer.resume_delay < TimeMod
    BY <1>1, <2>1, <2>2
  <2>4. QED
    BY <1>6, <2>1, <2>3
<1>10. CASE CallStop
  <2>1. Abstract!Halt
    BY <1>1, <1>10 DEF CallStop, Call, Stop, Abstract!Halt, TimerState
  <2>2. QED
    BY <2>1 DEF Abstract!Next
<1>11. CASE CallReset
  <2>1. Abstract!Clear
    BY <1>11 DEF CallReset, Call, Reset, NewTimer, Abstract!Clear
  <2>2. QED
    BY <2>1 DEF Abstract!Next
<1>12. QED
  BY <1>1, <1>2, <1>3, <1>4, <1>5, <1>7, <1>8, <1>9, <1>10, <1>11 DEF Client, Abstract!Next

\* The kernel lets running time elapse and expire.
LEMMA KernelCounts ==
  ASSUME CarefulClient, CInv, Kernel
  PROVE  [Abstract!Next]_(Abstract!vars)
<1>1. /\ timer \in TimerState /\ ready \in BOOLEAN
      /\ now \in Nat /\ now <= MaxTime /\ MaxTime \in Nat /\ TimeMod \in Nat
      /\ timer.load_delay \in Nat /\ timer.trigger_time \in Nat
      /\ Orderly(timer, ready, now) /\ timer.continuous \in BOOLEAN
  BY StateIsNat, TimesAreNat
<1>2. CASE TriggerThread
  <2>1. ready /\ timer' = Trigger(timer, now) /\ now' = now
    BY <1>2 DEF TriggerThread
  <2>2. ~timer.paused
    BY <1>1, <2>1 DEF Orderly, PausedOK
  <2>3. CASE timer.trigger_time = 0
    <3>1. timer' = timer
      BY <2>1, <2>3 DEF Trigger
    <3>2. QED
      BY <2>1, <3>1 DEF Abstract!vars
  <2>4. CASE timer.trigger_time # 0
    <3>1. /\ timer.trigger_time = now
          /\ timer'.triggered = TRUE /\ timer'.paused = FALSE
          /\ timer'.load_delay = timer.load_delay /\ timer'.continuous = timer.continuous
          /\ IF timer.continuous THEN timer'.trigger_time = now + timer.load_delay
                                 ELSE timer'.trigger_time = 0
      BY <2>1, <2>2, <2>4, TriggerEffect
    <3>2. timer.trigger_time - now = 0
      BY <1>1, <3>1
    <3>3. Abstract!Expire
      <4>1. CASE timer.continuous
        <5> DEFINE trigger == now + timer.load_delay
        <5>1. trigger - now = timer.load_delay /\ trigger # 0
          BY <1>1, <2>4, <3>1
        <5>2. timer'.trigger_time = trigger
          BY <3>1, <4>1
        <5> HIDE DEF trigger
        <5>3. QED
          BY <2>1, <2>2, <2>4, <3>1, <3>2, <4>1, <5>1, <5>2 DEF Abstract!Expire
      <4>2. CASE ~timer.continuous
        BY <2>1, <2>2, <2>4, <3>1, <3>2, <4>2 DEF Abstract!Expire
      <4>3. QED
        BY <4>1, <4>2
    <3>4. QED
      BY <3>3 DEF Abstract!Next
  <2>5. QED
    BY <2>3, <2>4
<1>3. CASE Tick
  <2>1. /\ ~ready /\ now' = now + 1
        /\ timer' = [timer EXCEPT
             !.event       = IF Due(@, now') THEN Never ELSE @,
             !.pulse_event = IF Due(@, now') THEN Never ELSE @]
    BY <1>3 DEF Tick
  <2>2. /\ timer'.paused = timer.paused /\ timer'.load_delay = timer.load_delay
        /\ timer'.trigger_time = timer.trigger_time
        /\ timer'.resume_delay = timer.resume_delay
        /\ timer'.continuous = timer.continuous /\ timer'.triggered = timer.triggered
    BY <1>1, <2>1 DEF TimerState
  <2>3. CASE timer.paused \/ timer.trigger_time = 0
    BY <2>2, <2>3 DEF Abstract!vars
  <2>4. CASE ~timer.paused /\ timer.trigger_time # 0
    <3>1. timer.trigger_time > now
      BY <1>1, <2>1, <2>4 DEF Orderly, RunningOK
    <3>2. /\ timer.trigger_time - now > 0
          /\ timer.trigger_time - now' = (timer.trigger_time - now) - 1
      BY <1>1, <2>1, <3>1
    <3>3. Abstract!Elapse
      BY <2>2, <2>4, <3>2 DEF Abstract!Elapse
    <3>4. QED
      BY <3>3 DEF Abstract!Next
  <2>5. QED
    BY <2>3, <2>4
<1>4. ~DeltaNotify
  <2>1. ASSUME ~ready, timer.event # Never PROVE timer.event > now
    BY <1>1, <2>1 DEF Orderly, PausedOK, RunningOK
  <2>2. timer.event # Never => timer.event \in Nat
    BY <1>1, TimesAreNat DEF TimerState
  <2>3. QED
    BY <1>1, <2>1, <2>2 DEF DeltaNotify, Due
<1>5. QED
  BY <1>2, <1>3, <1>4 DEF Kernel

\* A timer used with care expires after its load delay of running time, and keeps
\* what is left while it is paused.
THEOREM CarefulTimerCounts ==
  ASSUME CarefulClient
  PROVE  Spec => ImplementsCountdown
<1>1. ASSUME Init PROVE Abstract!Init
  <2>1. /\ timer.paused = FALSE /\ timer.trigger_time = 0 /\ timer.load_delay = 0
        /\ timer.continuous = FALSE /\ timer.triggered = FALSE
    BY <1>1 DEF Init, NewTimer
  <2>2. QED
    BY <2>1 DEF Abstract!Init
<1>2. CInv /\ [Next]_vars => [Abstract!Next]_(Abstract!vars)
  <2>1. CASE UNCHANGED vars
    BY <2>1 DEF vars, Abstract!vars
  <2>2. QED
    BY <2>1, ClientCounts, KernelCounts DEF Next
<1>3. QED
  BY <1>1, <1>2, CInvAlways, PTL DEF Spec, Abstract!Spec, ImplementsCountdown
=============================================================================
