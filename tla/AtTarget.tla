-------------------------------- MODULE AtTarget --------------------------------
(***************************************************************************)
(* One target of the approximately timed protocol: nb_transport_fw,        *)
(* targ_peq_cb, send_end_req, send_response and                            *)
(* execute_transaction_process.  All targets of the platform have these    *)
(* members and differ in the delays they annotate, which order nothing: a  *)
(* payload event queue delivers in order, and END_REQ is on its way before *)
(* the response is made.  A transaction is named after its initiator,      *)
(* which has one at a time.                                                *)
(***************************************************************************)
EXTENDS Naturals, Sequences

CONSTANTS Initiators,
          None          \* a null pointer

VARIABLES peq,          \* m_targ_peq: <<transaction, phase>> on the way to the target
          pipe,         \* the pipeline of the target
          initPeq,      \* m_init_peq of the initiators: <<transaction, phase>>
          route,        \* transaction: the port in its Route_extn, or None
          fatal         \* REPORT( FATAL ) or an assertion ended the simulation

Phases == {"BEGIN_REQ", "END_REQ", "BEGIN_RESP", "END_RESP"}

Pipe == [inProgress    : Initiators \cup {None},  \* m_transaction_in_progress
         responding    : BOOLEAN,                 \* m_response_in_progress
         nextResponse  : Initiators \cup {None},  \* m_next_response_pending
         endReqPending : Initiators \cup {None},  \* m_end_req_pending
         executing     : BOOLEAN]                 \* m_target_done_event is notified

IdlePipe == [inProgress |-> None, responding |-> FALSE, nextResponse |-> None,
             endReqPending |-> None, executing |-> FALSE]

\* nb_transport_bw of the bus: the phase goes to the port that the routing extension
\* of the transaction names.
Backward(queues, i, p) == [queues EXCEPT ![route[i]] = Append(@, <<i, p>>)]

\* A request is answered at once when another is in the pipeline, by an END_REQ that
\* the assertion of send_end_req does not survive; else it is deferred.
BeginReq(i) ==
  IF pipe.inProgress # None
    THEN /\ initPeq' = Backward(initPeq, i, "END_REQ")
         /\ pipe' = [pipe EXCEPT !.executing = TRUE]
         /\ fatal' = TRUE
    ELSE /\ pipe' = [pipe EXCEPT !.endReqPending = i]
         /\ UNCHANGED <<initPeq, fatal>>

\* The response that is waiting is sent, then END_REQ for the request that is.
EndResp ==
  LET next == pipe.nextResponse
      deferred == pipe.endReqPending
      responded == IF next = None THEN initPeq ELSE Backward(initPeq, next, "BEGIN_RESP")
  IN /\ fatal' = ~pipe.responding
     /\ initPeq' = IF deferred = None THEN responded ELSE Backward(responded, deferred, "END_REQ")
     /\ pipe' = [inProgress |-> deferred,
                 responding |-> next # None,
                 nextResponse |-> None,
                 endReqPending |-> None,
                 executing |-> pipe.executing \/ deferred # None]

TargPeqCb ==
  /\ ~fatal
  /\ peq # <<>>
  /\ peq' = Tail(peq)
  /\ CASE Head(peq)[2] = "BEGIN_REQ" -> BeginReq(Head(peq)[1])
       [] Head(peq)[2] = "END_RESP"  -> EndResp
       [] OTHER -> fatal' = TRUE /\ UNCHANGED <<initPeq, pipe>>
  /\ UNCHANGED route

\* The event of send_end_req: the access is executed and its response sent, or kept
\* until END_RESP comes for the response before it.
ExecuteTransactionProcess ==
  /\ ~fatal
  /\ pipe.executing
  /\ IF pipe.responding
       THEN /\ fatal' = (pipe.nextResponse # None)
            /\ pipe' = [pipe EXCEPT !.executing = FALSE, !.nextResponse = pipe.inProgress]
            /\ UNCHANGED initPeq
       ELSE /\ pipe' = [pipe EXCEPT !.executing = FALSE, !.responding = TRUE]
            /\ initPeq' = Backward(initPeq, pipe.inProgress, "BEGIN_RESP")
            /\ UNCHANGED fatal
  /\ UNCHANGED <<peq, route>>

Step == TargPeqCb \/ ExecuteTransactionProcess
=============================================================================
