------------------------------- MODULE TimerOps -------------------------------
(***************************************************************************)
(* The generic timer of timer/timer_beh.{hpp,cpp} as operators on a record *)
(* that holds the attributes of one Timer object.  A caller that makes     *)
(* several calls in one step (Timer_module::set_timer_status does) composes *)
(* the operators; each takes the current simulation time as its last       *)
(* parameter.                                                              *)
(*                                                                         *)
(* Times are sc_time values, that is unsigned integers of a fixed width:   *)
(* additions and subtractions wrap at TimeMod (2^64 in SystemC).           *)
(*                                                                         *)
(* sc_assert stops the simulation: the operator records which assertion    *)
(* failed in the field "abort", and every later call leaves the timer      *)
(* alone.                                                                  *)
(***************************************************************************)
EXTENDS Integers

CONSTANT TimeMod        \* how many values an sc_time has

ASSUME TimeModAssumption == TimeMod \in Nat \ {0}

Time   == 0 .. TimeMod - 1
Never  == -1            \* an sc_event without a pending notification
Aborts == {"", "load_delay", "paused", "resume_delay", "trigger_time"}

\* The attributes of Timer.  "event" and "pulse_event" are the times at which
\* the two sc_event members are notified next.
TimerState ==
  [ load_delay   : Time,    start_time   : Time,
    pulse_delay  : Time,    resume_delay : Time,
    trigger_time : Time,    triggered    : BOOLEAN,
    reload       : BOOLEAN, continuous   : BOOLEAN,
    paused       : BOOLEAN, event        : Time \cup {Never},
    pulse_event  : Time \cup {Never}, abort : Aborts ]

\* Timer::Timer: every time is zero but the pulse delay (1_ps, here p).
NewTimer(p) ==
  [ load_delay   |-> 0,     start_time   |-> 0,
    pulse_delay  |-> p,     resume_delay |-> 0,
    trigger_time |-> 0,     triggered    |-> FALSE,
    reload       |-> FALSE, continuous   |-> FALSE,
    paused       |-> FALSE, event        |-> Never,
    pulse_event  |-> Never, abort        |-> "" ]

Plus(a, b)  == (a + b) % TimeMod

\* Variant: the difference of two times is a signed number.
MinusSigned(a, b) == a - b

Minus(a, b) == (a - b) % TimeMod

Live(t)    == t.abort = ""
Fail(t, a) == [t EXCEPT !.abort = a]

\* sc_event::notify(delay): one notification is pending at most; a later one
\* never replaces an earlier one.
Earlier(pending, t) == IF pending = Never \/ t < pending THEN t ELSE pending

-----------------------------------------------------------------------------
(* Queries *)

GetTimeLeft(t, d, now) ==
  IF t.trigger_time > Plus(now, d) THEN Minus(t.trigger_time, Plus(now, d)) ELSE 0

GetTimeSince(t, d, now) ==
  IF t.start_time > 0 /\ t.start_time < Plus(now, d)
    THEN Minus(Plus(now, d), t.start_time) ELSE 0

IsRunning(t, d, now) ==
  /\ ~t.paused
  /\ t.trigger_time # 0
  /\ GetTimeLeft(t, d, now) > 0 \/ t.continuous

-----------------------------------------------------------------------------
(* start, stop, pause, resume *)

\* The two effects of resume and start, at the trigger time both compute.
ResumeAt(t, trigger) ==
  [t EXCEPT !.paused       = FALSE,
            !.trigger_time = trigger,
            !.start_time   = Minus(trigger, t.load_delay),
            !.event        = Earlier(@, trigger),
            !.resume_delay = 0]

StartAt(t, start) ==
  [t EXCEPT !.start_time   = start,
            !.trigger_time = Plus(start, t.load_delay),
            !.event        = Earlier(@, Plus(start, t.load_delay))]

\* Variant: resume waits for the full load delay again.
ResumeFull(t, d, now) ==
  IF ~t.paused THEN Fail(t, "paused")
  ELSE IF t.resume_delay = 0 THEN Fail(t, "resume_delay")
  ELSE ResumeAt(t, Plus(Plus(now, d), t.load_delay))

Resume(t, d, now) ==
  IF ~t.paused THEN Fail(t, "paused")
  ELSE IF t.resume_delay = 0 THEN Fail(t, "resume_delay")
  ELSE ResumeAt(t, Plus(Plus(now, d), t.resume_delay))

\* Variant: the trigger time is set without the notification.
StartNoNotify(t, d, now) ==
  IF t.paused THEN Resume(t, 0, now)
  ELSE [StartAt(t, Plus(now, d)) EXCEPT !.event = t.event]

\* Variant: the delay is added to the notification only.
StartLate(t, d, now) ==
  IF t.paused THEN Resume(t, 0, now)
  ELSE [StartAt(t, now) EXCEPT !.event = StartAt(t, Plus(now, d)).event]

Start(t, d, now) ==
  IF t.paused THEN Resume(t, 0, now)
  ELSE IF t.load_delay = 0 THEN Fail([t EXCEPT !.start_time = Plus(now, d)], "load_delay")
  ELSE StartAt(t, Plus(now, d))

\* Variant: stop leaves the notification pending.
StopNoCancel(t) ==
  [t EXCEPT !.trigger_time = 0, !.paused = FALSE, !.resume_delay = 0]

Stop(t) ==
  [t EXCEPT !.event = Never, !.trigger_time = 0, !.paused = FALSE, !.resume_delay = 0]

\* Variant: pause does not cancel the pending notification.
PauseNoCancel(t, d, now) ==
  [t EXCEPT !.paused = TRUE,
            !.resume_delay = Minus(t.trigger_time, Plus(now, d))]

Pause(t, d, now) ==
  [t EXCEPT !.paused       = TRUE,
            !.event        = Never,
            !.resume_delay = Minus(t.trigger_time, Plus(now, d))]

Reset(t) == NewTimer(0)

-----------------------------------------------------------------------------
(* The process trigger_thread, from one wait(m_trigger_event) to the next.  *)

\* Variant: a continuous timer forgets to notify itself again.
TriggerNoRearm(t, now) ==
  IF t.paused \/ t.trigger_time = 0 THEN t
  ELSE IF t.trigger_time # now THEN Fail(t, "trigger_time")
  ELSE [t EXCEPT !.triggered = TRUE,
                 !.trigger_time = IF t.continuous THEN Plus(now, t.load_delay) ELSE 0]

Trigger(t, now) ==
  IF t.paused \/ t.trigger_time = 0 THEN t
  ELSE IF t.trigger_time # now THEN Fail(t, "trigger_time")
  ELSE LET fired == [t EXCEPT
             !.triggered   = TRUE,
             !.pulse_event = IF t.pulse_delay > 0
                             THEN Earlier(@, Plus(now, t.pulse_delay)) ELSE @,
             !.start_time  = IF t.reload /\ t.load_delay # 0 THEN now ELSE @]
       IN IF ~t.continuous THEN [fired EXCEPT !.trigger_time = 0]
          ELSE IF t.load_delay = 0 THEN Fail(fired, "load_delay")
          ELSE [fired EXCEPT !.trigger_time = Plus(now, t.load_delay),
                             !.event = Earlier(@, Plus(now, t.load_delay))]
=============================================================================
