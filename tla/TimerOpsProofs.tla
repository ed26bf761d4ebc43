---------------------------- MODULE TimerOpsProofs ----------------------------
(***************************************************************************)
(* What the operations of a timer keep, for every width of sc_time.  The   *)
(* lemmas are about the record of one timer, so they serve a single timer  *)
(* (TimerBehProofs) and the timers of the register bank (TimerModuleProofs)*)
(***************************************************************************)
EXTENDS TimerOps, TLAPS

\* A timer whose attributes are in range, silent while it is paused, and never
\* notified later than its trigger time.
Wellformed(t) ==
  /\ t \in TimerState
  /\ t.paused => t.event = Never
  /\ t.trigger_time # 0 /\ t.event # Never => t.event <= t.trigger_time

\* The wakeup of a timer that runs, r telling whether trigger_thread is ready.
Awake(t, r) ==
  Live(t) /\ ~t.paused /\ t.trigger_time # 0 => t.event # Never \/ r

-----------------------------------------------------------------------------
(* Lemmas about the operators *)

\* sc_time arithmetic stays within the width of sc_time.
LEMMA TimeIsInt == Time \subseteq Int /\ 0 \in Time
  BY TimeModAssumption DEF Time

LEMMA ArithmeticWraps ==
  \A a, b \in Int : Plus(a, b) \in Time /\ Minus(a, b) \in Time
<1> SUFFICES ASSUME NEW a \in Int, NEW b \in Int
             PROVE  Plus(a, b) \in Time /\ Minus(a, b) \in Time
  OBVIOUS
<1>1. a + b \in Int /\ a - b \in Int
  OBVIOUS
<1>2. \A x \in Int : x % TimeMod \in 0 .. TimeMod - 1
  BY TimeModAssumption
<1>3. QED
  BY <1>1, <1>2 DEF Plus, Minus, Time

\* Sums and differences that fit do not wrap.
LEMMA NoWrap ==
  /\ \A a, b \in Nat : a + b < TimeMod => Plus(a, b) = a + b
  /\ \A a, b \in Nat : a < TimeMod /\ b <= a => Minus(a, b) = a - b
<1>1. \A x \in 0 .. TimeMod - 1 : x % TimeMod = x
  BY TimeModAssumption
<1>2. ASSUME NEW a \in Nat, NEW b \in Nat, a + b < TimeMod
      PROVE  Plus(a, b) = a + b
  <2>1. a + b \in 0 .. TimeMod - 1
    BY <1>2, TimeModAssumption
  <2>2. QED
    BY <1>1, <2>1 DEF Plus
<1>3. ASSUME NEW a \in Nat, NEW b \in Nat, a < TimeMod, b <= a
      PROVE  Minus(a, b) = a - b
  <2>1. a - b \in 0 .. TimeMod - 1
    BY <1>3, TimeModAssumption
  <2>2. QED
    BY <1>1, <2>1 DEF Minus
<1>4. QED
  BY <1>2, <1>3

\* Of two notifications the earlier one is kept.
LEMMA EarlierIsEarlier ==
  ASSUME NEW p \in Time \cup {Never}, NEW t \in Time
  PROVE  /\ Earlier(p, t) \in Time
         /\ Earlier(p, t) # Never
         /\ Earlier(p, t) <= t
  BY TimeModAssumption DEF Earlier, Time, Never

\* Resuming leaves a wellformed timer with a notification at its trigger time.
LEMMA ResumeAtWellformed ==
  ASSUME NEW t \in TimerState, NEW trigger \in Time
  PROVE  /\ Wellformed(ResumeAt(t, trigger))
         /\ ResumeAt(t, trigger).event # Never
<1>1. Earlier(t.event, trigger) \in Time /\ Earlier(t.event, trigger) <= trigger
      /\ Earlier(t.event, trigger) # Never
  BY EarlierIsEarlier DEF TimerState
<1>2. Minus(trigger, t.load_delay) \in Time /\ 0 \in Time
  BY ArithmeticWraps, TimeIsInt DEF TimerState
<1>3. QED
  BY <1>1, <1>2 DEF ResumeAt, Wellformed, TimerState

LEMMA ResumeWellformed ==
  ASSUME NEW t, Wellformed(t), NEW d \in Int, NEW n \in Int, NEW r \in BOOLEAN, Awake(t, r)
  PROVE  Wellformed(Resume(t, d, n)) /\ Awake(Resume(t, d, n), r)
<1>1. CASE ~t.paused
  BY <1>1 DEF Resume, Fail, Wellformed, Awake, Live, TimerState, Aborts
<1>2. CASE t.paused /\ t.resume_delay = 0
  BY <1>2 DEF Resume, Fail, Wellformed, Awake, Live, TimerState, Aborts
<1>3. CASE t.paused /\ t.resume_delay # 0
  <2>1. Plus(Plus(n, d), t.resume_delay) \in Time
    BY ArithmeticWraps, TimeIsInt DEF Wellformed, TimerState
  <2>2. Resume(t, d, n) = ResumeAt(t, Plus(Plus(n, d), t.resume_delay))
    BY <1>3 DEF Resume
  <2>3. QED
    BY <2>1, <2>2, ResumeAtWellformed DEF Wellformed, Awake
<1>4. QED
  BY <1>1, <1>2, <1>3

LEMMA StartWellformed ==
  ASSUME NEW t, Wellformed(t), NEW d \in Int, NEW n \in Int, NEW r \in BOOLEAN, Awake(t, r)
  PROVE  Wellformed(Start(t, d, n)) /\ Awake(Start(t, d, n), r)
<1>1. CASE t.paused
  <2>1. Start(t, d, n) = Resume(t, 0, n)
    BY <1>1 DEF Start
  <2>2. Wellformed(Resume(t, 0, n)) /\ Awake(Resume(t, 0, n), r)
    BY ResumeWellformed
  <2>3. QED
    BY <2>1, <2>2
<1>2. CASE ~t.paused /\ t.load_delay = 0
  <2>1. Plus(n, d) \in Time
    BY ArithmeticWraps
  <2>2. Start(t, d, n) = [t EXCEPT !.start_time = Plus(n, d), !.abort = "load_delay"]
    BY <1>2 DEF Start, Fail, Wellformed, TimerState
  <2>3. QED
    BY <2>1, <2>2 DEF Wellformed, Awake, Live, TimerState, Aborts
<1>3. CASE ~t.paused /\ t.load_delay # 0
  <2> DEFINE s == Plus(n, d)
             trigger == Plus(s, t.load_delay)
  <2>1. s \in Time /\ trigger \in Time
    BY ArithmeticWraps, TimeIsInt DEF Wellformed, TimerState
  <2>2. Earlier(t.event, trigger) \in Time /\ Earlier(t.event, trigger) <= trigger
        /\ Earlier(t.event, trigger) # Never
    BY <2>1, EarlierIsEarlier DEF Wellformed, TimerState
  <2>3. Start(t, d, n) = [t EXCEPT !.start_time = s, !.trigger_time = trigger,
                                   !.event = Earlier(t.event, trigger)]
    BY <1>3 DEF Start, StartAt
  <2> HIDE DEF s, trigger
  <2>4. QED
    BY <1>3, <2>1, <2>2, <2>3 DEF Wellformed, Awake, TimerState
<1>4. QED
  BY <1>1, <1>2, <1>3

LEMMA StopWellformed ==
  ASSUME NEW t, Wellformed(t), NEW r \in BOOLEAN
  PROVE  Wellformed(Stop(t)) /\ Awake(Stop(t), r)
<1>1. 0 \in Time
  BY TimeModAssumption DEF Time
<1>2. QED
  BY <1>1 DEF Stop, Wellformed, Awake, TimerState

LEMMA PauseWellformed ==
  ASSUME NEW t, Wellformed(t), NEW d \in Int, NEW n \in Int, NEW r \in BOOLEAN
  PROVE  Wellformed(Pause(t, d, n)) /\ Awake(Pause(t, d, n), r)
<1>1. Minus(t.trigger_time, Plus(n, d)) \in Time
  BY ArithmeticWraps, TimeIsInt DEF Wellformed, TimerState
<1>2. QED
  BY <1>1 DEF Pause, Wellformed, Awake, TimerState

LEMMA NewTimerWellformed ==
  ASSUME NEW p \in Time, NEW r \in BOOLEAN
  PROVE  Wellformed(NewTimer(p)) /\ Awake(NewTimer(p), r)
<1>1. 0 \in Time
  BY TimeModAssumption DEF Time
<1>2. QED
  BY <1>1 DEF NewTimer, Wellformed, Awake, TimerState, Aborts

\* trigger_thread needs no wakeup any more when it has run: it has stopped the
\* timer, or notified itself again, or an assertion has failed.
LEMMA TriggerWellformed ==
  ASSUME NEW t, Wellformed(t), NEW n \in Time
  PROVE  Wellformed(Trigger(t, n)) /\ Awake(Trigger(t, n), FALSE)
<1>1. CASE t.paused \/ t.trigger_time = 0
  BY <1>1 DEF Trigger, Wellformed, Awake
<1>2. CASE ~t.paused /\ t.trigger_time # 0 /\ t.trigger_time # n
  BY <1>2 DEF Trigger, Fail, Wellformed, Awake, Live, TimerState, Aborts
<1>3. CASE ~t.paused /\ t.trigger_time # 0 /\ t.trigger_time = n
  <2> DEFINE fired == [t EXCEPT
               !.triggered   = TRUE,
               !.pulse_event = IF t.pulse_delay > 0
                               THEN Earlier(@, Plus(n, t.pulse_delay)) ELSE @,
               !.start_time  = IF t.reload /\ t.load_delay # 0 THEN n ELSE @]
             trigger == Plus(n, t.load_delay)
  <2>1. 0 \in Time /\ trigger \in Time /\ Plus(n, t.pulse_delay) \in Time
    BY ArithmeticWraps, TimeIsInt DEF Wellformed, TimerState
  <2>2. Earlier(t.pulse_event, Plus(n, t.pulse_delay)) \in Time
    BY <2>1, EarlierIsEarlier DEF Wellformed, TimerState
  <2>3. /\ fired \in TimerState
        /\ fired.event = t.event /\ fired.trigger_time = t.trigger_time
        /\ fired.paused = t.paused /\ fired.load_delay = t.load_delay
        /\ fired.continuous = t.continuous
    BY <2>1, <2>2 DEF Wellformed, TimerState
  <2>4. Earlier(t.event, trigger) \in Time /\ Earlier(t.event, trigger) <= trigger
        /\ Earlier(t.event, trigger) # Never
    BY <2>1, EarlierIsEarlier DEF Wellformed, TimerState
  <2>5. Trigger(t, n) =
          IF ~fired.continuous THEN [fired EXCEPT !.trigger_time = 0]
          ELSE IF fired.load_delay = 0 THEN Fail(fired, "load_delay")
          ELSE [fired EXCEPT !.trigger_time = trigger,
                             !.event = Earlier(fired.event, trigger)]
    BY <1>3 DEF Trigger
  <2> HIDE DEF fired, trigger
  <2>6. CASE ~t.continuous
    BY <1>3, <2>1, <2>3, <2>5, <2>6 DEF Wellformed, Awake, TimerState
  <2>7. CASE t.continuous /\ t.load_delay = 0
    <3>1. Trigger(t, n) = [fired EXCEPT !.abort = "load_delay"]
      BY <2>3, <2>5, <2>7 DEF Fail
    <3>2. QED
      BY <1>3, <2>3, <3>1 DEF Wellformed, Awake, Live, TimerState, Aborts
  <2>8. CASE t.continuous /\ t.load_delay # 0
    <3>1. Trigger(t, n) = [fired EXCEPT !.trigger_time = trigger,
                                        !.event = Earlier(t.event, trigger)]
      BY <2>3, <2>5, <2>8
    <3>2. Wellformed(Trigger(t, n))
      BY <1>3, <2>1, <2>3, <2>4, <3>1 DEF Wellformed, TimerState
    <3>3. Trigger(t, n).event # Never
      BY <2>3, <2>4, <3>1 DEF TimerState
    <3>4. QED
      BY <3>2, <3>3 DEF Awake
  <2>9. QED
    BY <2>6, <2>7, <2>8
<1>4. QED
  BY <1>1, <1>2, <1>3
===============================================================================
