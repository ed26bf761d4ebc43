------------------------------- MODULE TimerBeh -------------------------------
(***************************************************************************)
(* One Timer of timer/timer_beh.{hpp,cpp}, its trigger_thread, the SystemC *)
(* kernel that advances time, and a client that calls the timer's          *)
(* interface.                                                              *)
(*                                                                         *)
(* The kernel (external) runs processes one at a time and without          *)
(* preemption.  When time reaches a notification it makes the waiting      *)
(* processes ready, and which of several ready processes runs first is not *)
(* defined: a client may call the timer between the notification and the   *)
(* step of trigger_thread it woke.                                         *)
(*                                                                         *)
(* Careless names the precautions the client does not take:                *)
(*   "start"   start only a stopped or paused timer that has a load delay  *)
(*   "pause"   pause only a running timer that will not expire meanwhile   *)
(*   "resume"  resume only a paused timer                                  *)
(*   "expiry"  never start a timer in the instant it expires               *)
(* The code itself checks none of them beyond its assertions.              *)
(***************************************************************************)
EXTENDS TimerOps

CONSTANTS MaxTime,      \* bound: simulation ends at this time
          Loads,        \* load delays the client programs
          Pulses,       \* pulse delays the client programs
          PulseReset,   \* the pulse delay of a new timer
          Delays,       \* annotated delays the client passes
          Horizon,      \* bound: a careful client resumes to trigger before this
          Careless      \* the precautions the client does not take

ASSUME TimerBehAssumption ==
  /\ MaxTime \in Time
  /\ Loads \subseteq Time
  /\ Pulses \subseteq Time
  /\ PulseReset \in Time
  /\ Delays \subseteq Time
  /\ 0 \in Delays
  /\ Horizon \in Time
  /\ Careless \subseteq {"start", "pause", "resume", "expiry"}

VARIABLES now,          \* sc_time_stamp()
          timer,        \* the Timer object
          ready         \* trigger_thread was notified and has not run yet

vars == <<now, timer, ready>>

Init ==
  /\ now = 0
  /\ timer = NewTimer(PulseReset)
  /\ ready = FALSE

-----------------------------------------------------------------------------
(* The client *)

Call(t) ==
  /\ Live(timer)
  /\ timer' = t
  /\ UNCHANGED <<now, ready>>

SetLoadDelay(l)   == Call([timer EXCEPT !.load_delay = l])
SetPulseDelay(p)  == Call([timer EXCEPT !.pulse_delay = p])
SetTriggered(b)   == Call([timer EXCEPT !.triggered = b])
SetReload(b)      == Call([timer EXCEPT !.reload = b])
SetContinuous(b)  == Call([timer EXCEPT !.continuous = b])
CallStop          == Call(Stop(timer))
CallReset         == Call(Reset(timer))

CallStart(d) ==
  /\ \/ "start" \in Careless
     \/ timer.paused
     \/ timer.trigger_time = 0 /\ timer.load_delay # 0
  /\ "expiry" \in Careless \/ ~ready
  /\ Call(Start(timer, d, now))

CallPause(d) ==
  /\ \/ "pause" \in Careless
     \/ ~timer.paused /\ timer.trigger_time > now + d
  /\ Call(Pause(timer, d, now))

CallResume(d) ==
  /\ \/ "resume" \in Careless
     \/ timer.paused /\ now + d + timer.resume_delay <= Horizon
  /\ Call(Resume(timer, d, now))

Client ==
  \/ \E l \in Loads : SetLoadDelay(l)
  \/ \E p \in Pulses : SetPulseDelay(p)
  \/ \E b \in BOOLEAN : SetTriggered(b) \/ SetReload(b) \/ SetContinuous(b)
  \/ \E d \in Delays : CallStart(d) \/ CallPause(d) \/ CallResume(d)
  \/ CallStop
  \/ CallReset

-----------------------------------------------------------------------------
(* The kernel and the process *)

TriggerThread ==
  /\ Live(timer)
  /\ ready
  /\ ready' = FALSE
  /\ timer' = Trigger(timer, now)
  /\ UNCHANGED now

\* A pending notification that is due when the clock shows time t.
Due(pending, t) == pending # Never /\ pending <= t

\* Time advances when no process is ready, and what is due then is notified.
Tick ==
  /\ Live(timer)
  /\ ~ready
  /\ ~Due(timer.event, now)
  /\ now < MaxTime
  /\ now' = now + 1
  /\ ready' = Due(timer.event, now')
  /\ timer' = [timer EXCEPT
       !.event       = IF Due(@, now') THEN Never ELSE @,
       !.pulse_event = IF Due(@, now') THEN Never ELSE @]

\* A notification for the present (a delay that wrapped) comes a delta later.
DeltaNotify ==
  /\ Live(timer)
  /\ ~ready
  /\ Due(timer.event, now)
  /\ ready' = TRUE
  /\ timer' = [timer EXCEPT !.event = Never]
  /\ UNCHANGED now

Kernel == TriggerThread \/ Tick \/ DeltaNotify

Next == Client \/ Kernel

\* The kernel keeps running ready processes and advancing time; no client has
\* to call anything.
Fairness == WF_vars(TriggerThread) /\ WF_vars(Tick)

Spec == Init /\ [][Next]_vars
FairSpec == Spec /\ Fairness

-----------------------------------------------------------------------------
(* Properties *)

\* Variables have their types.
TypeOK ==
  /\ now \in 0 .. MaxTime
  /\ timer \in TimerState
  /\ ready \in BOOLEAN

\* However start, stop, pause and resume are called, a paused timer has no
\* notification pending: trigger_event cannot reach the other processes that
\* wait for it (Timer_module::timer_thread) while the timer is paused.
PausedIsSilent == timer.paused => timer.event = Never

\* However the interface is called, a timer whose trigger time is set and that
\* is not paused has its wakeup: a notification pending, or delivered to
\* trigger_thread and not yet handled.  A running timer is never forgotten.
RunningHasWakeup ==
  Live(timer) /\ ~timer.paused /\ timer.trigger_time # 0
    => timer.event # Never \/ ready

\* The pending notification is never later than the trigger time: an sc_event
\* keeps the earlier of two notifications, and stop and pause cancel it.
NeverLate ==
  timer.trigger_time # 0 /\ timer.event # Never => timer.event <= timer.trigger_time

\* sc_assert( m_trigger_time == sc_time_stamp() ) in trigger_thread holds.
WakesOnTime == timer.abort # "trigger_time"

\* No assertion of the timer fails when the client takes the precautions.
NoAbort == Live(timer)

\* Starting, pausing and resuming by the rules implements the countdown: the
\* timer expires after its load delay of running time, neither early nor late,
\* and pausing keeps what is left.
Abstract == INSTANCE Countdown WITH
  mode       <- IF timer.paused THEN "paused"
                ELSE IF timer.trigger_time = 0 THEN "stopped" ELSE "running",
  left       <- IF timer.paused THEN timer.resume_delay
                ELSE IF timer.trigger_time = 0 THEN 0 ELSE timer.trigger_time - now,
  load       <- timer.load_delay,
  continuous <- timer.continuous,
  triggered  <- timer.triggered

ImplementsCountdown == Abstract!Spec

\* A timer that is left alone does trigger: a trigger time set within the
\* simulated period is reached, or replaced by a stop, a pause or a new start.
Expires ==
  \A tau \in 1 .. MaxTime :
    (timer.trigger_time = tau /\ ~timer.paused) ~> (timer.trigger_time # tau \/ timer.paused)
=============================================================================
