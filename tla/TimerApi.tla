------------------------------- MODULE TimerApi -------------------------------
(***************************************************************************)
(* Software that drives Timer_module through Timer_api                     *)
(* (timer/timer_api.hpp), one Timer_api object per timer.  setup() is      *)
(* three register writes, every other call is one access.                  *)
(*                                                                         *)
(* An access reaches the timers when it is made, and then keeps the cpu    *)
(* for the time it was annotated with (Cpu_module::transport holds its     *)
(* mutex while the quantum keeper waits; no quantum is ever set, so it     *)
(* always waits).  Meanwhile no other access is made, but timers expire.   *)
(*                                                                         *)
(* The software calls setup() first, with a count of at least one, and     *)
(* calls stop() only after start().  It calls them at any time otherwise,  *)
(* the instant a timer expires included.                                   *)
(***************************************************************************)
EXTENDS TimerModule

CONSTANTS AddrClocks, ReadClocks, WriteClocks   \* as configured in Timer_module

VARIABLES phase,        \* how far the software is with each timer
          busy          \* time until the cpu has completed its access

apiVars == <<now, timer, reg, ready, moduleReady, aborted, fired, raised, phase, busy>>

Phases == {"new", "loaded", "cleared", "set", "started", "reloaded", "stopped"}

ApiInit == Init /\ phase = [i \in Timers |-> "new"] /\ busy = 0

WriteCost  == AddrClocks + WriteClocks
ReadCost   == AddrClocks + ReadClocks
Read64Cost == AddrClocks + 2 * ReadClocks

\* The cpu makes an access for timer i that takes cost.
Access(i, cost, from, to) ==
  /\ busy = 0
  /\ phase[i] \in from
  /\ phase' = [phase EXCEPT ![i] = to]
  /\ busy' = cost

-----------------------------------------------------------------------------
(* setup: load the count, clear the flags, set the flags *)

SetupLoad(i) ==
  /\ \/ Access(i, WriteCost, {"new", "set", "stopped"}, "loaded")
     \/ Access(i, WriteCost, {"started"}, "reloaded")
  /\ \E v \in Counts \ {0} : WriteLoadLo(i, v)

SetupClear(i) ==
  /\ Access(i, WriteCost, {"loaded", "reloaded"}, "cleared")
  /\ WriteCtrlClr(i, {"RELOAD", "CONTINUOUS", "START", "IRQ_ENABLE", "NORMAL", "SCALE"}, WriteCost)

SetupSet(i) ==
  /\ Access(i, WriteCost, {"cleared"}, "set")
  /\ WriteCtrlSet(i, {"RELOAD", "CONTINUOUS", "IRQ_ENABLE", "SCALE"}, WriteCost)

ApiStart(i) ==
  /\ Access(i, WriteCost, {"set", "started", "stopped"}, "started")
  /\ WriteCtrlSet(i, {"START"}, WriteCost)

ApiStop(i) ==
  /\ Access(i, WriteCost, {"started", "stopped"}, "stopped")
  /\ WriteCtrlClr(i, {"START"}, WriteCost)

\* is_running() and status() read the status register.
ApiStatus(i) ==
  /\ Access(i, ReadCost, {"new", "set", "started", "stopped"}, phase[i])
  /\ ReadStatus(i)

ApiValue(i) ==
  /\ Access(i, Read64Cost, {"new", "set", "started", "stopped"}, phase[i])
  /\ ReadCurr(i, AddrClocks)

Api == \E i \in Timers :
  \/ SetupLoad(i) \/ SetupClear(i) \/ SetupSet(i)
  \/ ApiStart(i) \/ ApiStop(i)
  \/ ApiStatus(i) \/ ApiValue(i)

-----------------------------------------------------------------------------

ApiTick == Tick /\ busy' = (IF busy = 0 THEN 0 ELSE busy - 1) /\ UNCHANGED phase

\* The processes of Timer_module do not look at the software.
ApiThread ==
  /\ (\E i \in Timers : TriggerThread(i)) \/ TimerThread
  /\ UNCHANGED <<phase, busy>>

ApiNext == Api \/ ApiTick \/ ApiThread

ApiSpec == ApiInit /\ [][ApiNext]_apiVars

-----------------------------------------------------------------------------
(* Properties *)

\* No assertion of Timer or of Timer_module fails for software that uses
\* Timer_api in order, whenever its accesses meet the expiry of a timer.
ApiNeverAborts == Alive

\* start() is kept: from start() on, and while a new count is being loaded, the
\* timer is continuous, has its next trigger time set, and no trigger of it
\* is in the past.
StartedRuns ==
  \A i \in Timers : phase[i] \in {"started", "reloaded"} =>
    timer[i].continuous /\ ~timer[i].paused /\ timer[i].trigger_time >= now

\* stop() is kept, although the word it clears is whatever was last written to
\* the control-set register: after stop(), and after setup() of a timer that
\* ran, the timer has no trigger time until start() is called again.
StoppedIsSilent ==
  \A i \in Timers : phase[i] \in {"cleared", "set", "stopped"} => timer[i].trigger_time = 0

\* Through its registers each timer of the bank is a countdown.
Countdowns(i) == INSTANCE Countdown WITH
  Loads      <- Time,
  Delays     <- {WriteCost},
  mode       <- IF timer[i].paused THEN "paused"
                ELSE IF timer[i].trigger_time = 0 THEN "stopped" ELSE "running",
  left       <- IF timer[i].paused THEN timer[i].resume_delay
                ELSE IF timer[i].trigger_time = 0 THEN 0 ELSE timer[i].trigger_time - now,
  load       <- timer[i].load_delay,
  continuous <- timer[i].continuous,
  triggered  <- timer[i].triggered

ImplementsCountdowns ==
  /\ \A i \in Timers : Countdowns(i)!Init
  /\ [][\A i \in Timers : [Countdowns(i)!Next]_(Countdowns(i)!vars)]_apiVars

\* "Generate interrupt if any enabled timers has triggered": when the processes
\* of the instant in which an enabled timer triggered have run, the interrupt
\* has been raised.
EnabledTriggerInterrupts == Quiet /\ fired # {} => raised
=============================================================================
