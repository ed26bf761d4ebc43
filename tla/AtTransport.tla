------------------------------ MODULE AtTransport ------------------------------
(***************************************************************************)
(* The approximately timed protocol from Cpu_module::transport             *)
(* (cpu/cpu.cpp) through a bus (bus/bus.cpp) to the six targets.  Transport*)
(* holds a mutex, so an initiator has one transaction at a time and the    *)
(* initiator stands for its transaction.  Every phase to a target has no   *)
(* delay.                                                                  *)
(*                                                                         *)
(* m_coding_style of the processor is Style::LT and nothing changes it, so *)
(* software only reaches these members through a call of transport that    *)
(* names the style.                                                        *)
(***************************************************************************)
EXTENDS Naturals, Sequences

CONSTANTS Initiators,
          None,         \* a null pointer
          Region,       \* some targets -> [first, last]: the map of the bus
          Addresses     \* addresses of accesses

Targets == {"timer", "memory", "pic", "gpio", "uart", "stub"}

VARIABLES phase,        \* initiator: "idle", or "waiting" for m_transport_done_event
          requesting,   \* m_request_in_progress is set
          address,      \* get_address() of its transaction
          initPeq, route, fatal,   \* as in AtTarget
          timerPeq, timerPipe, memoryPeq, memoryPipe, picPeq, picPipe,
          gpioPeq, gpioPipe, uartPeq, uartPipe, stubPeq, stubPipe

cpu == <<phase, requesting, address>>
timerVars == <<timerPeq, timerPipe>>
memoryVars == <<memoryPeq, memoryPipe>>
picVars == <<picPeq, picPipe>>
gpioVars == <<gpioPeq, gpioPipe>>
uartVars == <<uartPeq, uartPipe>>
stubVars == <<stubPeq, stubPipe>>
pipes == <<timerPipe, memoryPipe, picPipe, gpioPipe, uartPipe, stubPipe>>
peqs == <<timerPeq, memoryPeq, picPeq, gpioPeq, uartPeq, stubPeq>>
vars == <<cpu, initPeq, route, fatal, timerVars, memoryVars, picVars, gpioVars, uartVars,
          stubVars>>

Timer  == INSTANCE AtTarget WITH peq <- timerPeq, pipe <- timerPipe
Memory == INSTANCE AtTarget WITH peq <- memoryPeq, pipe <- memoryPipe
Pic    == INSTANCE AtTarget WITH peq <- picPeq, pipe <- picPipe
Gpio   == INSTANCE AtTarget WITH peq <- gpioPeq, pipe <- gpioPipe
Uart   == INSTANCE AtTarget WITH peq <- uartPeq, pipe <- uartPipe
Stub   == INSTANCE AtTarget WITH peq <- stubPeq, pipe <- stubPipe

Init ==
  /\ phase = [i \in Initiators |-> "idle"]
  /\ requesting = [i \in Initiators |-> FALSE]
  /\ address = [i \in Initiators |-> 0]
  /\ initPeq = [i \in Initiators |-> <<>>]
  /\ route = [i \in Initiators |-> None]
  /\ fatal = FALSE
  /\ timerPeq = <<>> /\ memoryPeq = <<>> /\ picPeq = <<>>
  /\ gpioPeq = <<>> /\ uartPeq = <<>> /\ stubPeq = <<>>
  /\ timerPipe = Timer!IdlePipe /\ memoryPipe = Memory!IdlePipe
  /\ picPipe = Pic!IdlePipe /\ gpioPipe = Gpio!IdlePipe
  /\ uartPipe = Uart!IdlePipe /\ stubPipe = Stub!IdlePipe

-----------------------------------------------------------------------------
(* The bus *)

Hit(t, a) == t \in DOMAIN Region /\ a \in Region[t].first .. Region[t].last

\* m_targ_peq.notify of the target, in its nb_transport_fw.
Queue(peq, t, a, event) == IF Hit(t, a) THEN Append(peq, event) ELSE peq

\* nb_transport_fw: the address is decoded and masked in every phase.
Forward(i, a, p) ==
  /\ timerPeq'  = Queue(timerPeq, "timer", a, <<i, p>>)
  /\ memoryPeq' = Queue(memoryPeq, "memory", a, <<i, p>>)
  /\ picPeq'    = Queue(picPeq, "pic", a, <<i, p>>)
  /\ gpioPeq'   = Queue(gpioPeq, "gpio", a, <<i, p>>)
  /\ uartPeq'   = Queue(uartPeq, "uart", a, <<i, p>>)
  /\ stubPeq'   = Queue(stubPeq, "stub", a, <<i, p>>)
  /\ address' = [address EXCEPT ![i] =
                  IF \E t \in Targets : Hit(t, a)
                    THEN a - Region[CHOOSE t \in Targets : Hit(t, a)].first ELSE a]

-----------------------------------------------------------------------------
(* The initiator *)

\* transport(): nb_transport_fw of every target returns TLM_ACCEPTED, and the call
\* waits.
Transport(i, a) ==
  /\ ~fatal
  /\ phase[i] = "idle" /\ ~requesting[i]
  /\ \E t \in Targets : Hit(t, a)
  /\ phase' = [phase EXCEPT ![i] = "waiting"]
  /\ requesting' = [requesting EXCEPT ![i] = TRUE]
  /\ route' = [route EXCEPT ![i] = i]
  /\ Forward(i, a, "BEGIN_REQ")
  /\ UNCHANGED <<initPeq, fatal, pipes>>

\* Nothing is mapped there: the bus completes the transaction with an error and
\* takes its routing extension away, and the call returns.
Unmapped(i, a) ==
  /\ ~fatal
  /\ phase[i] = "idle" /\ ~requesting[i]
  /\ ~ \E t \in Targets : Hit(t, a)
  /\ address' = [address EXCEPT ![i] = a]
  /\ route' = [route EXCEPT ![i] = None]
  /\ UNCHANGED <<phase, requesting, initPeq, fatal, pipes, peqs>>

\* init_peq_cb: END_REQ, or BEGIN_RESP which implies it, ends the request;
\* BEGIN_RESP is answered by END_RESP and ends the call.  The bus decodes the
\* address that it masked before; where that is unmapped, it deletes through a
\* pointer that it has not set.
InitPeqCb(i) ==
  /\ ~fatal
  /\ initPeq[i] # <<>>
  /\ initPeq' = [initPeq EXCEPT ![i] = Tail(@)]
  /\ LET trans == Head(initPeq[i])[1] IN
     /\ requesting' = [requesting EXCEPT ![i] = FALSE]
     /\ IF Head(initPeq[i])[2] = "BEGIN_RESP"
          THEN /\ phase' = [phase EXCEPT ![i] = "idle"]
               /\ Forward(trans, address[trans], "END_RESP")
               /\ \/ UNCHANGED fatal
                  \/ ~(\E t \in Targets : Hit(t, address[trans])) /\ fatal' = TRUE
          ELSE UNCHANGED <<phase, address, fatal, peqs>>
  /\ UNCHANGED <<route, pipes>>

TargetStep ==
  /\ \/ Timer!Step /\ UNCHANGED <<memoryVars, picVars, gpioVars, uartVars, stubVars>>
     \/ Memory!Step /\ UNCHANGED <<timerVars, picVars, gpioVars, uartVars, stubVars>>
     \/ Pic!Step /\ UNCHANGED <<timerVars, memoryVars, gpioVars, uartVars, stubVars>>
     \/ Gpio!Step /\ UNCHANGED <<timerVars, memoryVars, picVars, uartVars, stubVars>>
     \/ Uart!Step /\ UNCHANGED <<timerVars, memoryVars, picVars, gpioVars, stubVars>>
     \/ Stub!Step /\ UNCHANGED <<timerVars, memoryVars, picVars, gpioVars, uartVars>>
  /\ UNCHANGED cpu

Respond == TargetStep \/ \E i \in Initiators : InitPeqCb(i)

Next ==
  \/ \E i \in Initiators, a \in Addresses : Transport(i, a) \/ Unmapped(i, a)
  \/ Respond

\* The kernel delivers what is queued and runs what is notified.
Spec == Init /\ [][Next]_vars /\ WF_vars(Respond)

-----------------------------------------------------------------------------
(* Property *)

\* "Put back-pressure on initiator by deferring END_REQ until pipeline is clear"
\* (timer.cpp:265): a request is deferred while another is in the pipeline and is
\* answered in the end, so that every call of transport() returns.
TransportReturns ==
  \A i \in Initiators : (phase[i] = "waiting") ~> (phase[i] = "idle")
=============================================================================
