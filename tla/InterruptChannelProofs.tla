------------------------ MODULE InterruptChannelProofs ------------------------
(***************************************************************************)
(* What holds of an Interrupt_channel for every number of interrupts,      *)
(* every set of delays and every behaviour of its senders.  The invariant  *)
(* adds to the properties of InterruptChannel that numbers are unique and  *)
(* that an interrupt sent by an immediate notification is due at once:     *)
(* without it time could make such an interrupt pending behind the back of *)
(* a receiver that is asleep.                                              *)
(***************************************************************************)
EXTENDS InterruptChannel, TLAPS

Ids(S) == {e.id : e \in S}

Unique    == \A e, f \in scheduled : e.id = f.id => e = f
UrgentDue == \A e \in scheduled : e.urgent => e.time <= now

\* The inductive invariant.
IInv ==
  /\ TypeOK
  /\ NothingLost
  /\ NoSleepOnUrgent
  /\ Unique
  /\ UrgentDue

-----------------------------------------------------------------------------
(* Lemmas *)

LEMMA Constants ==
  MaxTime \in Nat /\ MaxSent \in Nat /\ MaxCleared \in Nat /\ Delays \subseteq Nat
  BY InterruptChannelAssumption

LEMMA InitIInv == Init => IInv
<1> SUFFICES ASSUME Init PROVE IInv
  OBVIOUS
<1>1. TypeOK
  <2>1. 0 \in 0 .. MaxTime /\ 0 \in 0 .. MaxSent /\ 0 \in 0 .. MaxCleared
    BY Constants
  <2>2. QED
    BY <2>1 DEF Init, TypeOK
<1>2. NothingLost
  <2>1. 0 .. sent - 1 = {}
    BY DEF Init
  <2>2. QED
    BY <2>1 DEF Init, NothingLost
<1>3. NoSleepOnUrgent /\ Unique /\ UrgentDue
  BY DEF Init, NoSleepOnUrgent, Unique, UrgentDue
<1>4. QED
  BY <1>1, <1>2, <1>3 DEF IInv

\* An entry that is scheduled has a new number.
LEMMA FreshNumber == IInv => sent \notin Ids(scheduled) \cup delivered \cup dropped
<1> SUFFICES ASSUME IInv PROVE sent \notin Ids(scheduled) \cup delivered \cup dropped
  OBVIOUS
<1>1. 0 .. sent - 1 = Ids(scheduled) \cup delivered \cup dropped /\ sent \in Int
  BY Constants DEF IInv, NothingLost, TypeOK, Ids
<1>2. sent \notin 0 .. sent - 1
  BY <1>1
<1>3. QED
  BY <1>1, <1>2

\* Scheduling keeps the facts about the queue.
LEMMA ScheduleKeeps ==
  ASSUME IInv, NEW t \in Nat, NEW u \in BOOLEAN, u => t <= now, Schedule(t, u)
  PROVE  /\ scheduled' \subseteq Entry /\ sent' \in 0 .. MaxSent
         /\ NothingLost' /\ Unique' /\ UrgentDue'
         /\ UNCHANGED <<now, rx, taken, cleared, delivered, dropped>>
<1> DEFINE e0 == [id |-> sent, time |-> t, urgent |-> u]
<1>1. /\ scheduled' = scheduled \cup {e0} /\ sent' = sent + 1 /\ sent < MaxSent
      /\ UNCHANGED <<now, rx, taken, cleared, delivered, dropped>>
  BY DEF Schedule
<1>2. sent \in Nat /\ e0 \in Entry /\ e0.id = sent /\ (e0.urgent => e0.time <= now)
  BY Constants DEF IInv, TypeOK, Entry
<1> HIDE DEF e0
<1>3. scheduled' \subseteq Entry /\ sent' \in 0 .. MaxSent
  BY <1>1, <1>2, Constants DEF IInv, TypeOK
<1>4. sent \notin Ids(scheduled) \cup delivered \cup dropped
  BY FreshNumber
<1>5. Ids(scheduled') = Ids(scheduled) \cup {sent}
  BY <1>1, <1>2 DEF Ids
<1>6. NothingLost'
  <2>1. 0 .. sent' - 1 = (0 .. sent - 1) \cup {sent}
    BY <1>1, <1>2
  <2>2. QED
    BY <1>1, <1>4, <1>5, <2>1 DEF IInv, NothingLost, Ids
<1>7. Unique'
  BY <1>1, <1>2, <1>4 DEF IInv, Unique, Ids
<1>8. UrgentDue'
  BY <1>1, <1>2 DEF IInv, UrgentDue
<1>9. QED
  BY <1>1, <1>3, <1>6, <1>7, <1>8

\* Taking the oldest entry keeps the facts about the queue.
LEMMA TakeKeeps ==
  ASSUME IInv, NEW e \in scheduled, Take(e), UNCHANGED <<now, sent, dropped>>
  PROVE  /\ scheduled' \subseteq Entry /\ delivered' \subseteq Nat /\ taken' \in Nat
         /\ NothingLost' /\ Unique' /\ UrgentDue'
<1>1. /\ scheduled' = scheduled \ {e}
      /\ delivered' = delivered \cup {e.id} /\ taken' = taken + 1
  BY DEF Take
<1>2. Ids(scheduled') = Ids(scheduled) \ {e.id} /\ e.id \in Ids(scheduled)
  BY <1>1 DEF IInv, Unique, Ids
<1>3. NothingLost'
  BY <1>1, <1>2 DEF IInv, NothingLost, Ids
<1>4. e.id \in Nat
  BY DEF IInv, TypeOK, Entry
<1>5. scheduled' \subseteq Entry /\ delivered' \subseteq Nat /\ taken' \in Nat
  <2>1. taken \in Nat /\ scheduled \subseteq Entry /\ delivered \subseteq Nat
    BY DEF IInv, TypeOK
  <2>2. taken' \in Nat
    BY <1>1, <2>1
  <2>3. QED
    BY <1>1, <1>4, <2>1, <2>2
<1>6. Unique' /\ UrgentDue'
  BY <1>1 DEF IInv, Unique, UrgentDue
<1>7. QED
  BY <1>3, <1>5, <1>6

-----------------------------------------------------------------------------
(* The invariant *)

LEMMA NotifyIInv == IInv /\ Notify => IInv'
<1> SUFFICES ASSUME IInv, Notify PROVE IInv'
  OBVIOUS
<1>1. now \in Nat /\ now <= now /\ TRUE \in BOOLEAN
  BY Constants DEF IInv, TypeOK
<1>2. Schedule(now, TRUE)
  BY DEF Notify
<1>3. /\ scheduled' \subseteq Entry /\ sent' \in 0 .. MaxSent
      /\ NothingLost' /\ Unique' /\ UrgentDue'
      /\ UNCHANGED <<now, rx, taken, cleared, delivered, dropped>>
  BY <1>1, <1>2, ScheduleKeeps
<1>4. TypeOK'
  BY <1>3 DEF IInv, TypeOK, Notify
<1>5. NoSleepOnUrgent'
  BY <1>3 DEF NoSleepOnUrgent, Notify
<1>6. QED
  BY <1>3, <1>4, <1>5 DEF IInv

LEMMA NotifyDelayedIInv ==
  ASSUME IInv, NEW d \in Delays, NotifyDelayed(d)
  PROVE  IInv'
<1>1. now + d \in Nat
  BY Constants DEF IInv, TypeOK
<1>2. Schedule(now + d, FALSE) /\ UNCHANGED <<alarm, woken>>
  BY DEF NotifyDelayed
<1>3. /\ scheduled' \subseteq Entry /\ sent' \in 0 .. MaxSent
      /\ NothingLost' /\ Unique' /\ UrgentDue'
      /\ UNCHANGED <<now, rx, taken, cleared, delivered, dropped>>
  BY <1>1, <1>2, ScheduleKeeps
<1>4. TypeOK'
  BY <1>2, <1>3 DEF IInv, TypeOK
<1>5. NoSleepOnUrgent'
  <2>1. scheduled' = scheduled \cup {[id |-> sent, time |-> now + d, urgent |-> FALSE]}
    BY <1>2 DEF Schedule
  <2>2. QED
    BY <1>2, <1>3, <2>1 DEF IInv, NoSleepOnUrgent, Pending
<1>6. QED
  BY <1>3, <1>4, <1>5 DEF IInv

LEMMA ClearAllIInv == IInv /\ ClearAll => IInv'
<1> SUFFICES ASSUME IInv, ClearAll PROVE IInv'
  OBVIOUS
<1>1. TypeOK'
  <2>1. {e.id : e \in scheduled} \subseteq Nat
    BY DEF IInv, TypeOK, Entry
  <2>2. cleared' \in 0 .. MaxCleared
    BY Constants DEF IInv, TypeOK, ClearAll
  <2>3. QED
    BY <2>1, <2>2 DEF IInv, TypeOK, ClearAll
<1>2. NothingLost'
  BY DEF IInv, NothingLost, ClearAll
<1>3. NoSleepOnUrgent' /\ Unique' /\ UrgentDue'
  BY DEF ClearAll, NoSleepOnUrgent, Unique, UrgentDue, Pending
<1>4. QED
  BY <1>1, <1>2, <1>3 DEF IInv

LEMMA WaitIInv == IInv /\ Wait => IInv'
  BY DEF IInv, Wait, TypeOK, NothingLost, NoSleepOnUrgent, Unique, UrgentDue, Pending

LEMMA WaitAndGetNextIInv == IInv /\ WaitAndGetNext => IInv'
<1> SUFFICES ASSUME IInv, WaitAndGetNext PROVE IInv'
  OBVIOUS
<1>1. rx' = "running" /\ woken' = FALSE /\ UNCHANGED <<now, sent, cleared, dropped>> /\ GetNext
  BY DEF WaitAndGetNext
<1>2. NoSleepOnUrgent'
  BY <1>1 DEF NoSleepOnUrgent
<1>3. CASE \E e \in Pending : IsOldest(e) /\ Take(e)
  <2>1. PICK e \in Pending : Take(e)
    BY <1>3
  <2>2. e \in scheduled
    BY <2>1 DEF Pending
  <2>3. /\ scheduled' \subseteq Entry /\ delivered' \subseteq Nat /\ taken' \in Nat
        /\ NothingLost' /\ Unique' /\ UrgentDue'
    BY <1>1, <2>1, <2>2, TakeKeeps
  <2>4. TypeOK'
    BY <1>1, <2>1, <2>3 DEF IInv, TypeOK, Take
  <2>5. QED
    BY <1>2, <2>3, <2>4 DEF IInv
<1>4. CASE UNCHANGED <<scheduled, taken, delivered>>
           /\ \E e \in scheduled : e \notin Pending
                /\ alarm' = IF alarm = Never \/ e.time < alarm THEN e.time ELSE alarm
  <2>1. PICK e \in scheduled : e \notin Pending
                /\ alarm' = IF alarm = Never \/ e.time < alarm THEN e.time ELSE alarm
    BY <1>4
  <2>2. e.time \in Nat /\ now \in Nat
    BY DEF IInv, TypeOK, Entry
  <2>3. e.time > now
    BY <2>1, <2>2 DEF Pending
  <2>4. TypeOK'
    <3>1. alarm' \in Nat \cup {Never} /\ (alarm' = Never \/ alarm' > now)
      BY <2>1, <2>2, <2>3 DEF IInv, TypeOK
    <3>2. QED
      BY <1>1, <1>4, <3>1 DEF IInv, TypeOK
  <2>5. QED
    BY <1>1, <1>2, <1>4, <2>4 DEF IInv, NothingLost, Unique, UrgentDue
<1>5. CASE UNCHANGED <<scheduled, alarm, taken, delivered>>
  BY <1>1, <1>2, <1>5 DEF IInv, TypeOK, NothingLost, Unique, UrgentDue
<1>6. QED
  BY <1>1, <1>3, <1>4, <1>5 DEF GetNext

LEMMA TickIInv == IInv /\ Tick => IInv'
<1> SUFFICES ASSUME IInv, Tick PROVE IInv'
  OBVIOUS
<1>1. /\ now \in Nat /\ now' = now + 1 /\ now' \in 0 .. MaxTime
      /\ UNCHANGED <<scheduled, rx, sent, taken, cleared, delivered, dropped>>
  BY Constants DEF IInv, TypeOK, Tick
<1>2. TypeOK'
  <2>1. alarm' \in Nat \cup {Never} /\ (alarm' = Never \/ alarm' > now') /\ woken' \in BOOLEAN
    <3>1. CASE alarm = now'
      BY <1>1, <3>1 DEF IInv, TypeOK, Tick
    <3>2. CASE alarm # now'
      BY <1>1, <3>2 DEF IInv, TypeOK, Tick
    <3>3. QED
      BY <3>1, <3>2
  <2>2. QED
    BY <1>1, <2>1 DEF IInv, TypeOK
<1>3. NothingLost' /\ Unique'
  BY <1>1 DEF IInv, NothingLost, Unique
<1>4. \A e \in scheduled : e.time \in Nat
  BY DEF IInv, TypeOK, Entry
<1>5. UrgentDue'
  BY <1>1, <1>4 DEF IInv, UrgentDue
<1>6. NoSleepOnUrgent'
  <2> SUFFICES ASSUME rx = "waiting", ~woken', NEW e \in scheduled, e.urgent
               PROVE  FALSE
    BY <1>1 DEF NoSleepOnUrgent, Pending
  <2>1. e \in Pending
    BY DEF IInv, UrgentDue, Pending
  <2>2. ~woken
    BY DEF Tick
  <2>3. QED
    BY <2>1, <2>2 DEF IInv, NoSleepOnUrgent
<1>7. QED
  BY <1>2, <1>3, <1>5, <1>6 DEF IInv

LEMMA NextIInv == IInv /\ [Next]_vars => IInv'
<1>1. IInv /\ UNCHANGED vars => IInv'
  BY DEF IInv, vars, TypeOK, NothingLost, NoSleepOnUrgent, Unique, UrgentDue, Pending
<1>2. QED
  BY <1>1, NotifyIInv, NotifyDelayedIInv, ClearAllIInv, WaitIInv, WaitAndGetNextIInv, TickIInv
  DEF Next, Senders

THEOREM IInvInvariant == Spec => []IInv
  BY InitIInv, NextIInv, PTL DEF Spec

\* The types of the state.
THEOREM TypeCorrect == Spec => []TypeOK
<1>1. IInv => TypeOK
  BY DEF IInv
<1>2. QED
  BY <1>1, IInvInvariant, PTL

\* sent() interrupts are scheduled, taken or cleared, whoever sends them.
THEOREM NothingLostAlways == Spec => []NothingLost
<1>1. IInv => NothingLost
  BY DEF IInv
<1>2. QED
  BY <1>1, IInvInvariant, PTL

\* No wakeup for an immediate notification is lost.
THEOREM NoSleepOnUrgentAlways == Spec => []NoSleepOnUrgent
<1>1. IInv => NoSleepOnUrgent
  BY DEF IInv
<1>2. QED
  BY <1>1, IInvInvariant, PTL

-----------------------------------------------------------------------------
(* Wakeups *)

\* The timed notification is for an entry, unless the queue was cleared.
AlarmIsForEntry ==
  alarm # Never => cleared > 0 \/ \E e \in scheduled : e.time = alarm

Caused == WokenForSomething /\ AlarmIsForEntry

\* Nothing that is scheduled goes away, and nothing becomes pending by a step that
\* does not pass time.
LEMMA ScheduleKeepsCause ==
  ASSUME IInv, Caused, NEW t, NEW u, Schedule(t, u)
  PROVE  /\ Pending \subseteq Pending'
         /\ (\E e \in scheduled : e.time = alarm) => \E e \in scheduled' : e.time = alarm
         /\ cleared' = cleared /\ now' = now
  BY DEF Schedule, Pending

LEMMA StepCaused ==
  ASSUME IInv, Caused, [Next]_vars
  PROVE  Caused'
<1>1. CASE Notify
  <2>1. Schedule(now, TRUE) /\ alarm' = Never
    BY <1>1 DEF Notify
  <2>2. [id |-> sent, time |-> now, urgent |-> TRUE] \in scheduled' /\ now' = now
    BY <2>1 DEF Schedule
  <2>3. Pending' # {}
    <3>1. now <= now
      BY DEF IInv, TypeOK
    <3>2. QED
      BY <2>2, <3>1 DEF Pending
  <2>4. QED
    BY <2>1, <2>3 DEF Caused, WokenForSomething, AlarmIsForEntry
<1>2. ASSUME NEW d \in Delays, NotifyDelayed(d)
      PROVE  Caused'
  <2>1. Schedule(now + d, FALSE) /\ UNCHANGED <<alarm, woken>>
    BY <1>2 DEF NotifyDelayed
  <2>2. /\ Pending \subseteq Pending' /\ cleared' = cleared
        /\ (\E e \in scheduled : e.time = alarm) => \E e \in scheduled' : e.time = alarm
    BY <2>1, ScheduleKeepsCause
  <2>3. QED
    BY <2>1, <2>2 DEF Caused, WokenForSomething, AlarmIsForEntry
<1>3. CASE ClearAll
  <2>1. cleared' > 0 /\ alarm' = Never
    BY <1>3, Constants DEF IInv, TypeOK, ClearAll
  <2>2. QED
    BY <2>1 DEF Caused, WokenForSomething, AlarmIsForEntry
<1>4. CASE WaitAndGetNext
  <2>1. ~woken' /\ UNCHANGED <<now, cleared>> /\ GetNext
    BY <1>4 DEF WaitAndGetNext
  <2>2. CASE \E e \in Pending : IsOldest(e) /\ Take(e)
    <3>1. PICK e \in Pending : Take(e)
      BY <2>2
    <3>2. scheduled' = scheduled \ {e} /\ alarm' = alarm
      BY <3>1 DEF Take
    <3>3. alarm # Never => e.time # alarm
      BY <3>1 DEF Pending, IInv, TypeOK, Entry
    <3>4. QED
      BY <2>1, <3>2, <3>3 DEF Caused, WokenForSomething, AlarmIsForEntry
  <2>3. CASE /\ UNCHANGED <<scheduled, taken, delivered>>
             /\ \E e \in scheduled :
                  alarm' = IF alarm = Never \/ e.time < alarm THEN e.time ELSE alarm
    <3>1. (\E e \in scheduled' : e.time = alarm') \/ (alarm # Never /\ alarm' = alarm)
      BY <2>3
    <3>2. QED
      BY <2>1, <2>3, <3>1 DEF Caused, WokenForSomething, AlarmIsForEntry
  <2>4. CASE UNCHANGED <<scheduled, alarm>>
    BY <2>1, <2>4 DEF Caused, WokenForSomething, AlarmIsForEntry
  <2>5. QED
    BY <2>1, <2>2, <2>3, <2>4 DEF GetNext
<1>5. CASE Tick
  <2>1. UNCHANGED <<scheduled, cleared>> /\ ~woken
    BY <1>5 DEF Tick
  <2>2. CASE alarm = now'
    <3>1. alarm' = Never /\ alarm # Never
      BY <1>5, <2>2 DEF Tick, IInv, TypeOK, Never
    <3>2. cleared > 0 \/ \E e \in scheduled : e.time = now'
      BY <2>2, <3>1 DEF Caused, AlarmIsForEntry
    <3>3. now' <= now'
      BY <1>5 DEF Tick, IInv, TypeOK
    <3>4. cleared' > 0 \/ Pending' # {}
      BY <2>1, <3>2, <3>3 DEF Pending
    <3>5. QED
      BY <3>1, <3>4 DEF Caused, WokenForSomething, AlarmIsForEntry
  <2>3. CASE alarm # now'
    BY <1>5, <2>1, <2>3 DEF Tick, Caused, WokenForSomething, AlarmIsForEntry
  <2>4. QED
    BY <2>2, <2>3
<1>6. CASE Wait \/ UNCHANGED vars
  BY <1>6 DEF Wait, vars, Caused, WokenForSomething, AlarmIsForEntry, Pending
<1>7. QED
  BY <1>1, <1>2, <1>3, <1>4, <1>5, <1>6 DEF Next, Senders

\* Who returns from wait() finds an interrupt to take, unless clearall was called.
THEOREM WokenForSomethingAlways == Spec => []WokenForSomething
<1>1. Init => Caused
  BY DEF Init, Caused, WokenForSomething, AlarmIsForEntry
<1>2. Caused => WokenForSomething
  BY DEF Caused
<1>3. QED
  BY <1>1, <1>2, StepCaused, IInvInvariant, PTL DEF Spec

-----------------------------------------------------------------------------
(* Order *)

\* Interrupts are taken in the order of their times and of their sending.
THEOREM TakenInOrderAlways == Spec => TakenInOrder
<1> DEFINE Ordered ==
      \A e, f \in scheduled : Before(e, f) /\ f.id \in delivered' => e.id \in delivered'
<1>1. IInv /\ [Next]_vars => Ordered
  <2> SUFFICES ASSUME IInv, [Next]_vars, NEW e \in scheduled, NEW f \in scheduled,
                      Before(e, f), f.id \in delivered'
               PROVE  e.id \in delivered'
    OBVIOUS
  <2>1. f.id \notin delivered
    BY DEF IInv, NothingLost
  <2>2. CASE UNCHANGED delivered
    BY <2>1, <2>2
  <2>3. ASSUME NEW g \in scheduled, IsOldest(g), Take(g)
        PROVE  e.id \in delivered'
    <3>1. f.id = g.id
      BY <2>1, <2>3 DEF Take
    <3>2. f = g
      BY <2>3, <3>1 DEF IInv, Unique
    <3>3. e = f \/ Before(f, e)
      BY <2>3, <3>2 DEF IsOldest
    <3>4. e.time \in Nat /\ f.time \in Nat /\ e.id \in Nat /\ f.id \in Nat
      BY DEF IInv, TypeOK, Entry
    <3>5. QED
      BY <3>3, <3>4 DEF Before
  <2>4. UNCHANGED delivered \/ \E g \in scheduled : IsOldest(g) /\ Take(g)
    BY DEF Next, Senders, Notify, NotifyDelayed, Schedule, ClearAll, Wait, WaitAndGetNext,
       GetNext, Pending, Tick, vars
  <2>5. QED
    BY <2>2, <2>3, <2>4
<1>2. Spec => [][Ordered]_vars
  BY <1>1, IInvInvariant, PTL DEF Spec
<1>3. QED
  BY <1>2 DEF TakenInOrder

-----------------------------------------------------------------------------
(* Refinement *)

\* What the abstract queue sees of the entries.
Bar(S) == {[id |-> e.id, time |-> e.time] : e \in S}

LEMMA BarNumbers == {w.id : w \in Bar(scheduled)} = Ids(scheduled)
<1>1. ASSUME NEW w \in Bar(scheduled) PROVE w.id \in Ids(scheduled)
  <2>1. PICK e \in scheduled : w = [id |-> e.id, time |-> e.time]
    BY DEF Bar
  <2>2. w.id = e.id
    BY <2>1
  <2>3. QED
    BY <2>2 DEF Ids
<1>2. ASSUME NEW e \in scheduled PROVE \E w \in Bar(scheduled) : w.id = e.id
  <2>1. [id |-> e.id, time |-> e.time] \in Bar(scheduled)
    BY DEF Bar
  <2>2. QED
    BY <2>1
<1>3. QED
  BY <1>1, <1>2 DEF Ids

\* Scheduling an interrupt is a send.
LEMMA ScheduleIsSend ==
  ASSUME IInv, NEW d \in Delays \cup {0}, NEW u \in BOOLEAN, Schedule(now + d, u)
  PROVE  Queue!Send
<1> DEFINE e0 == [id |-> sent, time |-> now + d, urgent |-> u]
           w0 == [id |-> sent, time |-> now + d]
<1>1. scheduled' = scheduled \cup {e0} /\ UNCHANGED <<now, delivered, dropped>>
  BY DEF Schedule
<1>2. Bar(scheduled') = Bar(scheduled) \cup {w0}
  <2>1. e0.id = sent /\ e0.time = now + d
    OBVIOUS
  <2> HIDE DEF e0
  <2>2. Bar({e0}) = {w0}
    BY <2>1 DEF Bar
  <2>3. Bar(scheduled') = Bar(scheduled) \cup Bar({e0})
    BY <1>1 DEF Bar
  <2>4. QED
    BY <2>2, <2>3
<1>3. sent \notin {w.id : w \in Bar(scheduled)} \cup delivered \cup dropped
  BY FreshNumber, BarNumbers
<1>4. sent \in 0 .. MaxSent - 1
  BY Constants DEF IInv, TypeOK, Schedule
<1>5. QED
  BY <1>1, <1>2, <1>3, <1>4 DEF Queue!Send, Queue!Numbers, Bar

\* Taking a pending entry is a delivery.
LEMMA TakeIsDeliver ==
  ASSUME IInv, NEW e \in Pending, Take(e), UNCHANGED <<now, dropped>>
  PROVE  Queue!Deliver
<1> DEFINE w == [id |-> e.id, time |-> e.time]
<1>1. e \in scheduled /\ e.time <= now
  BY DEF Pending
<1>2. w \in Bar(scheduled) /\ w.id = e.id /\ w.time <= now
  BY <1>1 DEF Bar
<1>3. Bar(scheduled') = Bar(scheduled) \ {w}
  <2>1. scheduled' = scheduled \ {e}
    BY DEF Take
  <2>2. ASSUME NEW f \in scheduled, f # e
        PROVE  [id |-> f.id, time |-> f.time] # w
    <3>1. f.id # e.id
      BY <1>1, <2>2 DEF IInv, Unique
    <3>2. QED
      BY <3>1
  <2>3. QED
    BY <1>1, <2>1, <2>2 DEF Bar
<1>4. delivered' = delivered \cup {w.id}
  BY DEF Take
<1> HIDE DEF w
<1>5. QED
  BY <1>2, <1>3, <1>4 DEF Queue!Deliver, Bar

LEMMA StepIsDeliveryStep == IInv /\ [Next]_vars => [Queue!Next]_(Queue!vars)
<1> SUFFICES ASSUME IInv, [Next]_vars PROVE [Queue!Next]_(Queue!vars)
  OBVIOUS
<1>1. CASE Notify
  <2>1. now + 0 = now
    BY DEF IInv, TypeOK
  <2>2. Schedule(now + 0, TRUE)
    BY <1>1, <2>1 DEF Notify
  <2>3. QED
    BY <2>2, ScheduleIsSend DEF Queue!Next
<1>2. ASSUME NEW d \in Delays, NotifyDelayed(d) PROVE Queue!Next
  BY <1>2, ScheduleIsSend DEF NotifyDelayed, Queue!Next
<1>3. CASE ClearAll
  <2>1. Bar(scheduled') = {} /\ dropped' = dropped \cup Ids(scheduled)
    BY <1>3 DEF ClearAll, Bar, Ids
  <2>2. QED
    BY <1>3, <2>1, BarNumbers DEF ClearAll, Queue!Next, Queue!Discard, Queue!Numbers, Bar
<1>4. CASE WaitAndGetNext
  <2>1. ASSUME NEW e \in Pending, Take(e) PROVE Queue!Next
    BY <1>4, <2>1, TakeIsDeliver DEF WaitAndGetNext, Queue!Next
  <2>2. CASE UNCHANGED <<scheduled, delivered>>
    BY <1>4, <2>2 DEF WaitAndGetNext, Queue!vars
  <2>3. QED
    BY <1>4, <2>1, <2>2 DEF WaitAndGetNext, GetNext
<1>5. CASE Tick
  BY <1>5 DEF Tick, Queue!Next, Queue!Pass
<1>6. CASE Wait \/ UNCHANGED vars
  BY <1>6 DEF Wait, vars, Queue!vars
<1>7. QED
  BY <1>1, <1>2, <1>3, <1>4, <1>5, <1>6 DEF Next, Senders

\* The channel is a queue that delivers every interrupt at most once and never
\* before its time.
THEOREM ChannelImplementsDelivery == Spec => ImplementsDelivery
<1>1. Init => Queue!Init
  BY DEF Init, Queue!Init
<1>2. QED
  BY <1>1, IInvInvariant, StepIsDeliveryStep, PTL DEF Spec, ImplementsDelivery, Queue!Spec
=============================================================================
