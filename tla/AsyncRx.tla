--------------------------------- MODULE AsyncRx ---------------------------------
(***************************************************************************)
(* The channel from threads of the operating system to SystemC             *)
(* (async/async_rx.hpp): the other half of AsyncTx, with the roles of the  *)
(* two sides exchanged.  Like that header it is modelled as it reads.      *)
(*                                                                         *)
(* All processes of SystemC are run by one thread, which is why a process  *)
(* that finds a mutex locked by another one stops the whole kernel.        *)
(***************************************************************************)
EXTENDS Naturals, Sequences

CONSTANTS Processes,    \* receiving processes of SystemC
          MaxArrived    \* bound: payloads sent, which are numbered

ASSUME RxAssumption == MaxArrived \in Nat

VARIABLES rxQueue,      \* m_queue
          rxReady,      \* m_ready
          rxPeeked,     \* m_peeked
          requested,    \* async_request_update was called
          rxProcess,    \* each process: "waiting" for m_event or "woken", else "idle"
          rxCalled,     \* what each process called
          kernel,       \* "running", "blocked" on a mutex, or ended with an "error"
          rxSent, rxRead, rxTossed   \* history: as in AsyncTx

rxPast == <<rxRead, rxTossed>>
rxVars == <<rxQueue, rxReady, rxPeeked, requested, rxProcess, rxCalled, kernel, rxSent,
            rxPast>>

RxInit ==
  /\ rxQueue = <<>> /\ rxReady = FALSE /\ rxPeeked = FALSE
  /\ requested = FALSE
  /\ rxProcess = [p \in Processes |-> "idle"]
  /\ rxCalled = [p \in Processes |-> "read"]
  /\ kernel = "running"
  /\ rxSent = 0 /\ rxRead = <<>> /\ rxTossed = {}

\* notify() of any thread, under m_queue_mutex.
RxNotify ==
  /\ rxSent < MaxArrived
  /\ rxSent' = rxSent + 1
  /\ rxQueue' = Append(rxQueue, rxSent')
  /\ rxReady' = TRUE
  /\ requested' = TRUE
  /\ UNCHANGED <<rxPeeked, rxProcess, rxCalled, kernel, rxPast>>

\* update() notifies m_event immediately, which the kernel reports as an error in
\* its update phase.
RxUpdate ==
  /\ kernel = "running" /\ requested
  /\ requested' = FALSE
  /\ kernel' = "error"
  /\ UNCHANGED <<rxQueue, rxReady, rxPeeked, rxProcess, rxCalled, rxSent, rxPast>>

Runs(p) == kernel = "running" /\ rxProcess[p] = "idle"

\* A process that waits keeps m_condition_mutex locked.
Locked == \E p \in Processes : rxProcess[p] # "idle"

\* nb_read and nb_peek.
RxNbRead ==
  IF rxQueue = <<>> THEN UNCHANGED <<rxQueue, rxPeeked, rxPast>>
  ELSE /\ rxQueue' = Tail(rxQueue)
       /\ rxRead' = Append(rxRead, Head(rxQueue))
       /\ rxPeeked' = FALSE
       /\ UNCHANGED rxTossed

RxNbPeek == rxPeeked' = (rxPeeked \/ rxQueue # <<>>) /\ UNCHANGED <<rxQueue, rxPast>>

RxTake(call) == IF call = "read" THEN RxNbRead ELSE RxNbPeek

RxNonBlocking(p, call) ==
  /\ Runs(p)
  /\ RxTake(call)
  /\ UNCHANGED <<rxReady, requested, rxProcess, rxCalled, kernel, rxSent>>

\* read() and peek() on an empty queue lock m_condition_mutex and wait for m_event
\* while m_ready is false.
RxCall(p, call) ==
  /\ Runs(p)
  /\ CASE rxQueue = <<>> /\ Locked ->
            kernel' = "blocked" /\ UNCHANGED <<rxQueue, rxPeeked, rxPast, rxProcess>>
       [] rxQueue = <<>> /\ ~Locked /\ ~rxReady ->
            /\ rxProcess' = [rxProcess EXCEPT ![p] = "waiting"]
            /\ UNCHANGED <<rxQueue, rxPeeked, rxPast, kernel>>
       [] OTHER -> RxTake(call) /\ UNCHANGED <<rxProcess, kernel>>
  /\ rxCalled' = [rxCalled EXCEPT ![p] = call]
  /\ UNCHANGED <<rxReady, requested, rxSent>>

\* drop() does nothing unless something was peeked, nor on an empty queue.  It
\* notifies m_event.
RxDrop(p) ==
  /\ Runs(p) /\ rxPeeked /\ rxQueue # <<>>
  /\ rxQueue' = Tail(rxQueue)
  /\ rxTossed' = rxTossed \cup {Head(rxQueue)}
  /\ rxProcess' = [q \in Processes |->
                    IF rxProcess[q] = "waiting" THEN "woken" ELSE rxProcess[q]]
  /\ UNCHANGED <<rxReady, rxPeeked, requested, rxCalled, kernel, rxSent, rxRead>>

\* The event was notified: m_ready is true then, and the call goes on.
RxResume(p) ==
  /\ kernel = "running" /\ rxProcess[p] = "woken"
  /\ rxProcess' = [rxProcess EXCEPT ![p] = "idle"]
  /\ RxTake(rxCalled[p])
  /\ UNCHANGED <<rxReady, requested, rxCalled, kernel, rxSent>>

RxNext ==
  \/ RxNotify \/ RxUpdate
  \/ \E p \in Processes :
       \/ \E call \in {"read", "peek"} : RxCall(p, call) \/ RxNonBlocking(p, call)
       \/ RxDrop(p) \/ RxResume(p)

-----------------------------------------------------------------------------
(* Properties *)

RxTypeOK ==
  /\ rxQueue \in Seq(1 .. MaxArrived) /\ rxRead \in Seq(1 .. MaxArrived)
  /\ rxTossed \subseteq 1 .. MaxArrived
  /\ rxReady \in BOOLEAN /\ rxPeeked \in BOOLEAN /\ requested \in BOOLEAN
  /\ rxProcess \in [Processes -> {"idle", "waiting", "woken"}]
  /\ rxCalled \in [Processes -> {"read", "peek"}]
  /\ kernel \in {"running", "blocked", "error"}
  /\ rxSent \in 0 .. MaxArrived

\* As in AsyncTx, whoever reads, peeks and drops and whether or not the kernel is
\* blocked (async_rx.hpp:149-206): nothing is overtaken or delivered twice, and only
\* what drop() threw away is missing.
RxInOrder ==
  LET line == rxRead \o rxQueue
  IN /\ \A i, j \in DOMAIN line : i < j => line[i] < line[j]
     /\ \A n \in 1 .. rxSent : n \in rxTossed <=> \A i \in DOMAIN line : line[i] # n
===============================================================================
