--------------------------------- MODULE AsyncTx ---------------------------------
(***************************************************************************)
(* The channel from SystemC to threads of the operating system             *)
(* (async/async_tx.hpp).  A thread of the kernel sends, and any number of  *)
(* other threads receive.  The header does not compile as it stands (the   *)
(* names of a few library calls are wrong), and the model is of what it    *)
(* says.  Its two mutexes guard different things: the flag m_ready is set  *)
(* under the one and looked at under the other.                            *)
(***************************************************************************)
EXTENDS Naturals, Sequences

CONSTANTS TxReaders,    \* receiving threads
          MaxSent,      \* bound: payloads sent, which are numbered
          Free          \* nobody holds the mutex

ASSUME TxAssumption == MaxSent \in Nat

VARIABLES txQueue,      \* m_queue
          txReady,      \* m_ready
          txPeeked,     \* m_peeked
          queueMutex,   \* m_queue_mutex is held across steps by the sender
          condMutex,    \* m_condition_mutex: its holder
          txWriter,     \* where the sender is in notify()
          txReader,     \* where each receiver is
          txCall,       \* what each receiver called
          txSent,       \* history: how many payloads were sent
          txRead,       \* history: what receivers read, in order
          txTossed      \* history: what drop() threw away

txPast == <<txRead, txTossed>>
txVars == <<txQueue, txReady, txPeeked, queueMutex, condMutex, txWriter, txReader,
            txCall, txSent, txPast>>
txCond == <<txReady, condMutex, txWriter, queueMutex>>

Calls == {"read", "peek", "drop"}

TxInit ==
  /\ txQueue = <<>> /\ txReady = FALSE /\ txPeeked = FALSE
  /\ queueMutex = FALSE /\ condMutex = Free
  /\ txWriter = "idle"
  /\ txReader = [r \in TxReaders |-> "idle"]
  /\ txCall = [r \in TxReaders |-> "read"]
  /\ txSent = 0 /\ txRead = <<>> /\ txTossed = {}

-----------------------------------------------------------------------------
(* notify() *)

Push ==
  /\ txWriter = "idle" /\ ~queueMutex /\ txSent < MaxSent
  /\ txSent' = txSent + 1
  /\ txQueue' = Append(txQueue, txSent')
  /\ queueMutex' = TRUE
  /\ txWriter' = "pushed"
  /\ UNCHANGED <<txReady, txPeeked, condMutex, txReader, txCall, txPast>>

SetReady ==
  /\ txWriter = "pushed"
  /\ txReady' = TRUE
  /\ txWriter' = "set"
  /\ UNCHANGED <<txQueue, txPeeked, queueMutex, condMutex, txReader, txCall, txSent, txPast>>

\* notify_all wakes those that sleep now; then the mutex is released.
NotifyAll ==
  /\ txWriter = "set"
  /\ txReader' = [r \in TxReaders |-> IF txReader[r] = "asleep" THEN "woken" ELSE txReader[r]]
  /\ queueMutex' = FALSE
  /\ txWriter' = "idle"
  /\ UNCHANGED <<txQueue, txReady, txPeeked, condMutex, txCall, txSent, txPast>>

-----------------------------------------------------------------------------
(* The receivers *)

At(r, here, there) == txReader[r] = here /\ txReader' = [txReader EXCEPT ![r] = there]

\* read() or peek() calls wait_unless_available, which asks is_empty first.
TxCall(r, call) ==
  /\ ~queueMutex
  /\ At(r, "idle", IF txQueue = <<>> THEN "locking" ELSE "taking")
  /\ txCall' = [txCall EXCEPT ![r] = call]
  /\ UNCHANGED <<txQueue, txPeeked, txSent, txPast, txCond>>

LockCondition(r) ==
  /\ condMutex = Free
  /\ At(r, "locking", "checking")
  /\ condMutex' = r
  /\ UNCHANGED <<txQueue, txReady, txPeeked, queueMutex, txWriter, txCall, txSent, txPast>>

\* The condition of the loop, which is false only once.
CheckReady(r) ==
  /\ At(r, "checking", IF txReady THEN "taking" ELSE "unready")
  /\ condMutex' = IF txReady THEN Free ELSE condMutex
  /\ UNCHANGED <<txQueue, txReady, txPeeked, queueMutex, txWriter, txCall, txSent, txPast>>

FallAsleep(r) ==
  /\ At(r, "unready", "asleep")
  /\ condMutex' = Free
  /\ UNCHANGED <<txQueue, txReady, txPeeked, queueMutex, txWriter, txCall, txSent, txPast>>

\* A condition variable may wake a thread that nobody notified.
SpuriousWakeup(r) ==
  At(r, "asleep", "woken")
  /\ UNCHANGED <<txQueue, txPeeked, txCall, txSent, txPast, txCond>>

RelockOnly(r) ==
  /\ condMutex = Free
  /\ At(r, "woken", "taking")
  /\ UNCHANGED <<txQueue, txPeeked, txCall, txSent, txPast, txCond>>

\* wait() has locked the mutex again, and the loop looks at the flag.
Relock(r) ==
  /\ condMutex = Free
  /\ At(r, "woken", "checking")
  /\ condMutex' = r
  /\ UNCHANGED <<txQueue, txReady, txPeeked, queueMutex, txWriter, txCall, txSent, txPast>>

NbReadKeeps ==
  IF txQueue = <<>> THEN UNCHANGED <<txQueue, txPeeked, txPast>>
  ELSE /\ txRead' = Append(txRead, Head(txQueue))
       /\ txPeeked' = FALSE
       /\ UNCHANGED <<txQueue, txTossed>>

\* nb_read: the payload is copied and leaves the queue.
NbRead ==
  IF txQueue = <<>> THEN UNCHANGED <<txQueue, txPeeked, txPast>>
  ELSE /\ txQueue' = Tail(txQueue)
       /\ txRead' = Append(txRead, Head(txQueue))
       /\ txPeeked' = FALSE
       /\ UNCHANGED txTossed

\* nb_peek gives a pointer to the first payload.
NbPeek == /\ txPeeked' = (txPeeked \/ txQueue # <<>>)
          /\ UNCHANGED <<txQueue, txPast>>

\* The second half of read() or peek(); nb_read() and nb_peek() alone do just this.
Take(r) ==
  /\ ~queueMutex
  /\ At(r, "taking", "idle")
  /\ IF txCall[r] = "read" THEN NbRead ELSE NbPeek
  /\ UNCHANGED <<txCall, txSent, txCond>>

NonBlocking(r, call) ==
  /\ ~queueMutex
  /\ txReader[r] = "idle"
  /\ IF call = "read" THEN NbRead ELSE NbPeek
  /\ UNCHANGED <<txReader, txCall, txSent, txCond>>

\* drop() looks at m_peeked before it locks, and leaves it set: a second drop
\* throws away what nobody peeked at.
BeginDrop(r) ==
  /\ txPeeked
  /\ At(r, "idle", "dropping")
  /\ txCall' = [txCall EXCEPT ![r] = "drop"]
  /\ UNCHANGED <<txQueue, txPeeked, txSent, txPast, txCond>>

Drop(r) ==
  /\ ~queueMutex
  /\ At(r, "dropping", "idle")
  /\ IF txQueue = <<>> THEN UNCHANGED <<txQueue, txTossed>>
     ELSE txQueue' = Tail(txQueue) /\ txTossed' = txTossed \cup {Head(txQueue)}
  /\ UNCHANGED <<txPeeked, txCall, txSent, txRead, txCond>>

TxNext ==
  \/ Push \/ SetReady \/ NotifyAll
  \/ \E r \in TxReaders :
       \/ \E call \in {"read", "peek"} : TxCall(r, call) \/ NonBlocking(r, call)
       \/ LockCondition(r) \/ CheckReady(r) \/ FallAsleep(r) \/ SpuriousWakeup(r)
       \/ Relock(r)
       \/ Take(r) \/ BeginDrop(r) \/ Drop(r)

-----------------------------------------------------------------------------
(* Properties *)

TxTypeOK ==
  /\ txQueue \in Seq(1 .. MaxSent) /\ txRead \in Seq(1 .. MaxSent)
  /\ txTossed \subseteq 1 .. MaxSent
  /\ txReady \in BOOLEAN /\ txPeeked \in BOOLEAN /\ queueMutex \in BOOLEAN
  /\ condMutex \in TxReaders \cup {Free}
  /\ txWriter \in {"idle", "pushed", "set"}
  /\ txReader \in [TxReaders -> {"idle", "locking", "checking", "unready", "asleep", "woken",
                                 "taking", "dropping"}]
  /\ txCall \in [TxReaders -> Calls]
  /\ txSent \in 0 .. MaxSent

\* Whatever receivers read, peek and drop at the same time (async_tx.hpp:72-119),
\* what was read and what is still queued is in the order of sending, nothing
\* twice, and exactly what drop() threw away is missing from it.  It does not say
\* that somebody saw what was thrown away.
TxInOrder ==
  LET line == txRead \o txQueue
  IN /\ \A i, j \in DOMAIN line : i < j => line[i] < line[j]
     /\ \A n \in 1 .. txSent : n \in txTossed <=> \A i \in DOMAIN line : line[i] # n

\* "Blocks if no events are available" (async_tx.hpp:47): before the first payload is
\* sent nobody gets past the wait, spurious wakeups included.
BlocksUntilSent ==
  (\E r \in TxReaders : txReader[r] = "taking") => txSent > 0
===============================================================================
