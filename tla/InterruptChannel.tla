--------------------------- MODULE InterruptChannel ---------------------------
(***************************************************************************)
(* Interrupt_channel of interrupt/interrupt.hpp with senders that notify   *)
(* it, immediately or with a delay, and one receiving process that loops   *)
(* over wait() and get_next(), as pic_thread does and the usage example of *)
(* interrupt/ABOUT_INTERRUPT.md shows.                                     *)
(*                                                                         *)
(* m_scheduled_events is a multimap: its entries are ordered by time, and  *)
(* those of one time by insertion.  It is the set of its entries here; the *)
(* number of an entry (how many were sent before it) stands for insertion  *)
(* order.  The name of the source is carried along unread and left out.    *)
(*                                                                         *)
(* The kernel (external): m_event has one pending timed notification at    *)
(* most and keeps the earlier of two; an immediate notification cancels it *)
(* and wakes the process that is waiting now.                              *)
(***************************************************************************)
EXTENDS Integers, FiniteSets

CONSTANTS MaxTime,      \* bound: simulation ends at this time
          MaxSent,      \* bound: interrupts sent
          MaxCleared,   \* bound: calls of clearall
          Delays        \* delays of notify( source, delay )

ASSUME InterruptChannelAssumption ==
  /\ MaxTime \in Nat
  /\ MaxSent \in Nat
  /\ MaxCleared \in Nat
  /\ Delays \subseteq Nat

Never == -1             \* no notification of m_event is pending

VARIABLES now,          \* sc_time_stamp()
          scheduled,    \* m_scheduled_events
          alarm,        \* when m_event is notified next
          rx,           \* the receiver: "running" or "waiting" for m_event
          woken,        \* the receiver was notified and has not run yet
          sent,         \* m_sent
          taken,        \* m_taken
          cleared,      \* calls of clearall (history)
          delivered,    \* numbers of the interrupts taken (history)
          dropped       \* numbers of the interrupts cleared (history)

vars == <<now, scheduled, alarm, rx, woken, sent, taken, cleared, delivered, dropped>>

\* "urgent" (history) tells an immediate notification from a delayed one.
Entry == [id : Nat, time : Nat, urgent : BOOLEAN]

Init ==
  /\ now = 0
  /\ scheduled = {}
  /\ alarm = Never
  /\ rx = "running"
  /\ woken = FALSE
  /\ sent = 0
  /\ taken = 0
  /\ cleared = 0
  /\ delivered = {}
  /\ dropped = {}

\* The entries that pending() counts; has_pending() asks if there is one.
Pending == {e \in scheduled : e.time <= now}

\* begin() of the multimap.
Before(e, f) == e.time < f.time \/ (e.time = f.time /\ e.id < f.id)
IsOldest(e)  == e \in scheduled /\ \A f \in scheduled : f = e \/ Before(e, f)

-----------------------------------------------------------------------------
(* Senders *)

Schedule(t, urgent) ==
  /\ sent < MaxSent
  /\ scheduled' = scheduled \cup {[id |-> sent, time |-> t, urgent |-> urgent]}
  /\ sent' = sent + 1
  /\ UNCHANGED <<now, rx, taken, cleared, delivered, dropped>>

\* Variant: the event is not notified.
NotifySilently == Schedule(now, TRUE) /\ UNCHANGED <<alarm, woken>>

\* notify(), notify( source )
Notify ==
  /\ Schedule(now, TRUE)
  /\ alarm' = Never
  /\ woken' = (woken \/ rx = "waiting")

\* Variant: the receiver is woken at once.
NotifyDelayedWakes(d) ==
  /\ Schedule(now + d, FALSE)
  /\ woken' = (woken \/ rx = "waiting")
  /\ UNCHANGED alarm

\* notify( delay ), notify( source, delay )
NotifyDelayed(d) == Schedule(now + d, FALSE) /\ UNCHANGED <<alarm, woken>>

ClearAll ==
  /\ cleared < MaxCleared
  /\ cleared' = cleared + 1
  /\ scheduled' = {}
  /\ alarm' = Never
  /\ dropped' = dropped \cup {e.id : e \in scheduled}
  /\ UNCHANGED <<now, rx, woken, sent, taken, delivered>>

-----------------------------------------------------------------------------
(* The receiver *)

Take(e) ==
  /\ scheduled' = scheduled \ {e}
  /\ taken' = taken + 1
  /\ delivered' = delivered \cup {e.id}
  /\ UNCHANGED alarm

\* Variant: the entry stays in the queue.
GetNextKeeps ==
  \E e \in Pending :
    /\ IsOldest(e)
    /\ taken' = taken + 1
    /\ delivered' = delivered \cup {e.id}
    /\ UNCHANGED <<scheduled, alarm>>

\* Variant: the oldest entry is taken whether it is due or not.
GetNextEarly == \E e \in scheduled : IsOldest(e) /\ Take(e)

\* Variant: the newest pending entry is taken.
GetNextNewest ==
  \E e \in Pending : (\A f \in Pending : ~Before(e, f)) /\ Take(e)

\* Variant: the event is notified for the entry that is taken, too.
GetNextArms ==
  \E e \in scheduled :
    /\ IsOldest(e)
    /\ alarm' = e.time
    /\ IF e \in Pending
         THEN /\ scheduled' = scheduled \ {e}
              /\ taken' = taken + 1
              /\ delivered' = delivered \cup {e.id}
         ELSE UNCHANGED <<scheduled, taken, delivered>>

\* The oldest entry is taken if it is due; if it is not, the event is notified
\* when it will be.
GetNext ==
  \/ \E e \in Pending : IsOldest(e) /\ Take(e)
  \/ /\ Pending = {} /\ scheduled # {}
     /\ \E e \in scheduled :
          IsOldest(e) /\ alarm' = IF alarm = Never \/ e.time < alarm THEN e.time ELSE alarm
     /\ UNCHANGED <<scheduled, taken, delivered>>
  \/ /\ scheduled = {}
     /\ UNCHANGED <<scheduled, alarm, taken, delivered>>

\* Variant: wait() always waits for the event.
WaitAlways ==
  /\ rx = "running"
  /\ rx' = "waiting"
  /\ UNCHANGED <<now, scheduled, alarm, woken, sent, taken, cleared, delivered, dropped>>

\* wait() that blocks.
Wait ==
  /\ rx = "running"
  /\ Pending = {}
  /\ rx' = "waiting"
  /\ UNCHANGED <<now, scheduled, alarm, woken, sent, taken, cleared, delivered, dropped>>

\* wait() that does not block or has returned, and the get_next() after it.
WaitAndGetNext ==
  /\ \/ rx = "running" /\ Pending # {}
     \/ rx = "waiting" /\ woken
  /\ rx' = "running"
  /\ woken' = FALSE
  /\ GetNext
  /\ UNCHANGED <<now, sent, cleared, dropped>>

-----------------------------------------------------------------------------
(* The kernel *)

\* Time passes when no process is ready.  The receiver may take time to handle
\* an interrupt.
Tick ==
  /\ ~woken
  /\ now < MaxTime
  /\ now' = now + 1
  /\ IF alarm = now' THEN /\ alarm' = Never
                          /\ woken' = (rx = "waiting")
                     ELSE UNCHANGED <<alarm, woken>>
  /\ UNCHANGED <<scheduled, rx, sent, taken, cleared, delivered, dropped>>

Senders == Notify \/ (\E d \in Delays : NotifyDelayed(d)) \/ ClearAll
Next == Senders \/ Wait \/ WaitAndGetNext \/ Tick

Spec == Init /\ [][Next]_vars

\* The receiver goes on with its loop; nobody has to send, and time need not pass.
FairSpec == Spec /\ WF_vars(WaitAndGetNext)

-----------------------------------------------------------------------------
(* Properties *)

\* Variables have their types, and the timed notification is ahead.
TypeOK ==
  /\ now \in 0 .. MaxTime
  /\ scheduled \subseteq Entry
  /\ alarm \in Nat \cup {Never}
  /\ alarm = Never \/ alarm > now
  /\ rx \in {"running", "waiting"}
  /\ woken \in BOOLEAN
  /\ sent \in 0 .. MaxSent
  /\ taken \in Nat
  /\ cleared \in 0 .. MaxCleared
  /\ delivered \subseteq Nat
  /\ dropped \subseteq Nat

\* Every interrupt sent is scheduled, taken or cleared, and only one of these:
\* sent() = taken() + outstanding() as long as clearall is not called.
NothingLost ==
  /\ 0 .. sent - 1 = {e.id : e \in scheduled} \cup delivered \cup dropped
  /\ {e.id : e \in scheduled} \cap (delivered \cup dropped) = {}
  /\ delivered \cap dropped = {}

\* No lost wakeup for immediate notifications: the receiver is never asleep
\* while an interrupt sent by one is pending, whatever delayed interrupts,
\* timed notifications and clearall calls come in between.
NoSleepOnUrgent ==
  rx = "waiting" /\ ~woken => \A e \in Pending : ~e.urgent

\* wait() returns with something to take unless the queue was cleared meanwhile:
\* only then does get_next return the null pointer that pic_thread makes a
\* string of.
WokenForSomething == woken => Pending # {} \/ cleared > 0

\* "Wait for an event. *** Does NOT wait if already available ***": the receiver
\* does not sleep while an interrupt is pending.
NoSleepOnPending == rx = "waiting" /\ ~woken => Pending = {}

\* Interrupts are taken in the order of their times, and of their sending where
\* the times are the same: no entry older than the one taken stays behind.
TakenInOrder ==
  [][\A e, f \in scheduled :
       Before(e, f) /\ f.id \in delivered' => e.id \in delivered']_vars

\* The queue delivers each interrupt at most once, and not before its time.
Queue == INSTANCE Delivery WITH
  Ids     <- 0 .. MaxSent - 1,
  Delays  <- Delays \cup {0},
  waiting <- {[id |-> e.id, time |-> e.time] : e \in scheduled}

ImplementsDelivery == Queue!Spec

\* Every interrupt sent by an immediate notification is taken in the end, or
\* cleared.
UrgentTaken ==
  \A n \in 0 .. MaxSent - 1 :
    (\E e \in scheduled : e.id = n /\ e.urgent) ~> (n \in delivered \cup dropped)
=============================================================================
