------------------------------ MODULE TimerModule ------------------------------
(***************************************************************************)
(* Timer_module of timer/timer.{hpp,cpp}: a bank of timers behind memory-  *)
(* mapped registers, the trigger_thread of each timer and timer_thread,    *)
(* which waits for any of them and raises the interrupt.                   *)
(*                                                                         *)
(* A 32-bit control/status word is the set of the flags that are set in    *)
(* it, so the code's | is union and its & ~ is difference.  Only one bit   *)
(* of SCALE and of IRQ is kept (the code sets no other IRQ bit, see        *)
(* TimerThread); QTY is a constant and is left out.                        *)
(*                                                                         *)
(* An access is one step: b_transport and the AT target call transport,    *)
(* and transport does not wait.  The time annotation d that reaches        *)
(* write_actions and read_actions is what the access has taken so far.     *)
(* One unit of time is one clock period.                                   *)
(***************************************************************************)
EXTENDS TimerOps, FiniteSets

CONSTANTS Quantity,     \* timer_quantity: timers are 0 .. Quantity - 1
          MaxTime,      \* bound: simulation ends at this time
          WordMod,      \* how many values a 32-bit register has
          PulseDelay,   \* the pulse delay of a new timer
          Words,        \* control words software writes
          Counts,       \* register values software loads
          Delays        \* time annotations of the accesses

Timers == 0 .. Quantity - 1
Flags  == {"SCALE", "RELOAD", "CONTINUOUS", "START", "IRQ_ENABLE", "NORMAL", "IRQ"}

ASSUME TimerModuleAssumption ==
  /\ Quantity \in Nat \ {0}
  /\ MaxTime \in Time
  /\ WordMod \in Nat \ {0}
  /\ PulseDelay \in Time
  /\ Words \subseteq SUBSET Flags
  /\ Counts \subseteq 0 .. WordMod - 1
  /\ Delays \subseteq Time

VARIABLES now,          \* sc_time_stamp()
          timer,        \* m_timer_vec
          reg,          \* m_register_vec: status, ctrlset, load_lo, load_hi
          ready,        \* timers whose trigger_thread was notified, not yet run
          moduleReady,  \* timer_thread was notified and has not run yet
          aborted,      \* an assertion of Timer_module itself failed
          fired,        \* enabled timers that triggered at this time (history)
          raised        \* intrq_port->notify was called at this time (history)

vars == <<now, timer, reg, ready, moduleReady, aborted, fired, raised>>

Registers ==
  [status : SUBSET Flags, ctrlset : SUBSET Flags,
   load_lo : 0 .. WordMod - 1, load_hi : 0 .. WordMod - 1]

Init ==
  /\ now = 0
  /\ timer = [i \in Timers |-> NewTimer(PulseDelay)]
  /\ reg = [i \in Timers |-> [status |-> {}, ctrlset |-> {}, load_lo |-> 0, load_hi |-> 0]]
  /\ ready = {}
  /\ moduleReady = FALSE
  /\ aborted = FALSE
  /\ fired = {}
  /\ raised = FALSE

\* The simulation goes on: no assertion has failed.
Alive == ~aborted /\ \A i \in Timers : Live(timer[i])

-----------------------------------------------------------------------------
(* Helpers of the register file *)

Scale(w) == IF "SCALE" \in w THEN 2 ELSE 1

\* Variant: the mode of the timer is left out.
GetTimerStatusOneShot(i) ==
  LET t == timer[i]
  IN (reg[i].status \ {"RELOAD", "CONTINUOUS", "START", "NORMAL"})
     \cup (IF t.reload THEN {"RELOAD"} ELSE {})
     \cup (IF IsRunning(t, 0, now) THEN {"START"} ELSE {})
     \cup (IF t.paused THEN {} ELSE {"NORMAL"})

GetTimerStatus(i) ==
  LET t == timer[i]
      computed == {"RELOAD", "CONTINUOUS", "START", "NORMAL"}
  IN (reg[i].status \ computed)
     \cup (IF t.reload THEN {"RELOAD"} ELSE {})
     \cup (IF t.continuous THEN {"CONTINUOUS"} ELSE {})
     \cup (IF IsRunning(t, 0, now) THEN {"START"} ELSE {})
     \cup (IF t.paused THEN {} ELSE {"NORMAL"})

\* f applied to a timer unless an earlier call of the same access has failed.
ResumeIf(c, t, d) == IF Live(t) /\ c THEN Resume(t, d, now) ELSE t
StartIf(c, t, d)  == IF Live(t) /\ c THEN Start(t, d, now) ELSE t
PauseIf(c, t, d)  == IF Live(t) /\ c THEN Pause(t, d, now) ELSE t

\* Variant: a running timer is started again by a word that has START.
SetTimerStatusRestart(t, w, d) ==
  LET t1 == [t EXCEPT !.reload = "RELOAD" \in w, !.continuous = "CONTINUOUS" \in w]
  IN IF "START" \in w THEN StartIf(TRUE, t1, d) ELSE Stop(t1)

SetTimerStatus(t, w, d) ==
  LET t1 == [t EXCEPT !.reload = "RELOAD" \in w, !.continuous = "CONTINUOUS" \in w]
  IN IF IsRunning(t1, 0, now)
       THEN IF "START" \in w THEN t1 ELSE Stop(t1)
       ELSE PauseIf("NORMAL" \notin w,
              StartIf("START" \in w,
                ResumeIf(t1.paused /\ "NORMAL" \in w, t1, d), d), d)

-----------------------------------------------------------------------------
(* Register accesses *)

\* A word access ends with status w and the other registers r.
Control(i, w, r, d) ==
  /\ Alive
  /\ timer' = [timer EXCEPT ![i] = SetTimerStatus(@, w, d)]
  /\ reg' = [reg EXCEPT ![i] = [r EXCEPT !.status = w]]
  /\ UNCHANGED <<now, ready, moduleReady, aborted, fired, raised>>

WriteStatus(i, v, d) == Control(i, v, reg[i], d)

\* Variant: the written word is not stored in the register.
WriteCtrlSetForgets(i, v, d) == Control(i, GetTimerStatus(i) \cup v, reg[i], d)

WriteCtrlSet(i, v, d) ==
  Control(i, GetTimerStatus(i) \cup v, [reg[i] EXCEPT !.ctrlset = v], d)

\* The word that is cleared is that of the ctrlset register, not the one written.
WriteCtrlClr(i, v, d) == Control(i, GetTimerStatus(i) \ reg[i].ctrlset, reg[i], d)

Load(i, delay, lo, hi) ==
  /\ Alive
  /\ timer' = [timer EXCEPT ![i].load_delay = delay % TimeMod]
  /\ reg' = [reg EXCEPT ![i].load_lo = lo, ![i].load_hi = hi]
  /\ UNCHANGED <<now, ready, moduleReady, aborted, fired, raised>>

\* The product of scale and load_lo is one of 32 bits.
WriteLoadLo(i, v) == Load(i, (Scale(reg[i].status) * v) % WordMod, v, 0)

WriteLoadHi(i, v) ==
  Load(i, Scale(reg[i].status) * (v * WordMod + reg[i].load_lo), reg[i].load_lo, v)

\* A double word is not scaled.
WriteLoad64(i, lo, hi) == Load(i, hi * WordMod + lo, lo, hi)

\* A double word written to the current count sets the load delay.
WriteCurr64(i, lo, hi) == Load(i, hi * WordMod + lo, reg[i].load_lo, reg[i].load_hi)

ReadStatus(i) ==
  /\ Alive
  /\ reg' = [reg EXCEPT ![i].status = GetTimerStatus(i)]
  /\ UNCHANGED <<now, timer, ready, moduleReady, aborted, fired, raised>>

\* The current count is computed for the reader; what stays is the assertion.
ReadCurr(i, d) ==
  /\ Alive
  /\ aborted' = ~(Plus(now, d) > timer[i].start_time)
  /\ UNCHANGED <<now, timer, reg, ready, moduleReady, fired, raised>>

\* A burst that the payload checks let pass, but which is neither a word nor a
\* double word (here three words of zeros, from the status on): it is stored,
\* and then write_actions asserts its length.
WriteBurst(i) ==
  /\ Alive
  /\ reg' = [reg EXCEPT ![i].status = {}, ![i].ctrlset = {}]
  /\ aborted' = TRUE
  /\ UNCHANGED <<now, timer, ready, moduleReady, fired, raised>>

\* A debug access stores what it writes and runs no write_actions: the control
\* word of a timer then says what the timer does not do.  The processes read no
\* register but the status, so debug writes to the others are left out.
WriteDebug(i, w) ==
  /\ Alive
  /\ reg' = [reg EXCEPT ![i].status = w]
  /\ UNCHANGED <<now, timer, ready, moduleReady, aborted, fired, raised>>

Software ==
  \E i \in Timers :
    \/ WriteBurst(i)
    \/ \E v \in Words : WriteDebug(i, v)
    \/ \E v \in Words, d \in Delays :
         WriteStatus(i, v, d) \/ WriteCtrlSet(i, v, d) \/ WriteCtrlClr(i, v, d)
    \/ \E v \in Counts : WriteLoadLo(i, v) \/ WriteLoadHi(i, v)
    \/ \E lo, hi \in Counts : WriteLoad64(i, lo, hi) \/ WriteCurr64(i, lo, hi)
    \/ ReadStatus(i)
    \/ \E d \in Delays : ReadCurr(i, d)

-----------------------------------------------------------------------------
(* The kernel and the processes *)

IrqEnabled(i) == "IRQ_ENABLE" \in reg[i].status

TriggerThread(i) ==
  /\ Alive
  /\ i \in ready
  /\ ready' = ready \ {i}
  /\ timer' = [timer EXCEPT ![i] = Trigger(@, now)]
  /\ fired' = IF Trigger([timer[i] EXCEPT !.triggered = FALSE], now).triggered /\ IrqEnabled(i)
              THEN fired \cup {i} ELSE fired
  /\ UNCHANGED <<now, reg, moduleReady, aborted, raised>>

\* One interrupt port is connected, and the loop over the timers ends at the
\* number of interrupt ports: only timer 0 is ever looked at.  No pulse port is
\* connected, so nothing clears the trigger flag.
TimerThread ==
  /\ Alive
  /\ moduleReady
  /\ moduleReady' = FALSE
  /\ IF timer[0].triggered /\ IrqEnabled(0)
       THEN /\ reg' = [reg EXCEPT ![0].status = @ \cup {"IRQ"}]
            /\ raised' = TRUE
       ELSE UNCHANGED <<reg, raised>>
  /\ UNCHANGED <<now, timer, ready, aborted, fired>>

Due(pending, t) == pending # Never /\ pending <= t
DueTimers(t) == {i \in Timers : Due(timer[i].event, t)}

\* trigger_events of the timers in s are notified.
Notify(s) == /\ ready' = ready \cup s
             /\ moduleReady' = (moduleReady \/ s # {})

Quiet == ready = {} /\ ~moduleReady

Tick ==
  /\ Alive
  /\ Quiet
  /\ DueTimers(now) = {}
  /\ now < MaxTime
  /\ now' = now + 1
  /\ Notify(DueTimers(now'))
  /\ timer' = [i \in Timers |-> [timer[i] EXCEPT
       !.event       = IF Due(@, now') THEN Never ELSE @,
       !.pulse_event = IF Due(@, now') THEN Never ELSE @]]
  /\ fired' = {}
  /\ raised' = FALSE
  /\ UNCHANGED <<reg, aborted>>

DeltaNotify ==
  /\ Alive
  /\ Quiet
  /\ DueTimers(now) # {}
  /\ Notify(DueTimers(now))
  /\ timer' = [i \in Timers |-> [timer[i] EXCEPT !.event = IF Due(@, now) THEN Never ELSE @]]
  /\ UNCHANGED <<now, reg, aborted, fired, raised>>

Kernel == (\E i \in Timers : TriggerThread(i)) \/ TimerThread \/ Tick \/ DeltaNotify

Next == Software \/ Kernel

Spec == Init /\ [][Next]_vars

-----------------------------------------------------------------------------
(* Properties *)

\* Variables have their types.
TypeOK ==
  /\ now \in 0 .. MaxTime
  /\ timer \in [Timers -> TimerState]
  /\ reg \in [Timers -> Registers]
  /\ ready \subseteq Timers
  /\ moduleReady \in BOOLEAN
  /\ aborted \in BOOLEAN
  /\ fired \subseteq Timers
  /\ raised \in BOOLEAN

\* Whatever software writes, a timer with a trigger time ahead of it keeps that
\* trigger time until it is reached, or is stopped: set_timer_status starts,
\* resumes and pauses only a timer that does not run.
RunningKeepsSchedule ==
  [][\A i \in Timers :
       ~timer[i].paused /\ timer[i].trigger_time > now
         => /\ ~timer'[i].paused
            /\ timer'[i].trigger_time \in {timer[i].trigger_time, 0}]_vars

\* Whatever software writes, a timer that runs has its wakeup ahead of it: no
\* sequence of register accesses makes the bank forget a timer.
NoTimerForgotten ==
  Alive => \A i \in Timers :
    ~timer[i].paused /\ timer[i].trigger_time # 0 => timer[i].event # Never \/ i \in ready
=============================================================================
