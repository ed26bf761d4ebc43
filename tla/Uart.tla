---------------------------------- MODULE Uart ----------------------------------
(***************************************************************************)
(* The serial port (uart/uart.cpp).  Its two threads are stubs that loop   *)
(* without waiting: once the kernel runs one of them nothing else ever     *)
(* runs, so what is modelled is what initiators that do not wait do before.*)
(* Nothing fills the receive fifo.                                         *)
(*                                                                         *)
(* m_register_vec has one byte instead of sizeof(Uart_regs_t), so a handler*)
(* reads a word that is anything, but for the low byte of TXCTRL: its baud *)
(* rate is what software chose.  The clocks per character are only echoed  *)
(* and are left out, as are the DMA registers.                             *)
(***************************************************************************)
EXTENDS TargetPort, Integers

CONSTANTS Capacity,     \* m_txfifo_capacity
          Connected,    \* intrq_port.size() = 1
          MaxUartAccesses  \* bound

ASSUME UartAssumption == Capacity \in Nat \ {0} /\ Connected \in BOOLEAN

\* Indices of m_baud: in the table, behind it but below its sizeof, and neither.
Bauds == {"table", "behind", "illegal"}

VARIABLES uartSize,     \* m_target_size
          txspeed,      \* how end_of_elaboration found the ports bound
          tx, rx,       \* m_txctrl and m_rxctrl: configok, running, depthend
          txWord, rxWord, \* the bit RUNNING of m_uart.txctrl and m_uart.rxctrl
          used,         \* m_txfifo.size() as the signed number of its iterators
          txcount, txdropped,
          hung,         \* a stub thread runs and never gives up control
          interrupted,  \* intrq_port->notify was called
          uartResponse, \* response status of the last access
          uartAccesses, \* bound
          written       \* history: writes of TXDATA

fifo == <<used, txcount, txdropped, written>>
control == <<tx, rx, txWord, rxWord, interrupted>>
uartVars == <<uartSize, txspeed, control, fifo, hung, uartResponse, uartAccesses>>

Speed == {"VIRTUAL", "FAST", "SLOW"}

\* end_of_elaboration: the ports decide; on the platform none is bound.
SpeedOf(slow, fast) == IF slow = 0 /\ fast = 0 THEN "VIRTUAL"
                       ELSE IF fast = 1 THEN "FAST" ELSE "SLOW"

UartInit ==
  /\ uartSize \in Sizes
  /\ \E slow, fast \in 0 .. 1 : txspeed = SpeedOf(slow, fast)
  \* m_txctrl and m_rxctrl are not initialised: each field is set before its use
  /\ tx = [configok |-> FALSE, running |-> FALSE, depthend |-> FALSE]
  /\ rx = tx
  /\ txWord \in BOOLEAN /\ rxWord \in BOOLEAN   \* m_uart is not initialised
  /\ used = 0 /\ txcount = 0 /\ txdropped = 0 /\ written = 0
  /\ hung = FALSE
  /\ interrupted = FALSE
  /\ uartResponse = "none"
  /\ uartAccesses = 0

-----------------------------------------------------------------------------
(* The transmit fifo *)

\* send() of a fifo with n bytes: the loop goes on while the fifo is empty, so it
\* pops the only byte and then one that is not there; with more bytes it pops one.
Popped(n) == IF n = 1 THEN -1 ELSE n - 1

\* The fast and slow ports are left to tx_thread.
Send(n) ==
  IF txspeed = "VIRTUAL" /\ n # 0
    THEN used' = Popped(n) /\ txcount' = txcount + n
    ELSE used' = n /\ UNCHANGED txcount

-----------------------------------------------------------------------------
(* write_actions *)

\* A control word is accepted unless it runs with a baud rate behind the check,
\* which compares the index with the bytes of the table.
Control(old, word, index) ==
  [old EXCEPT !.configok = index # "illegal" \/ ~word, !.running = word]

Complains(index, word) == index = "illegal" /\ word

\* Start sends what is in the fifo; stop notifies an event that nobody waits for.
WriteTxctrl ==
  \E run \in BOOLEAN, index \in Bauds :
    /\ tx' = Control(tx, run, index)
    /\ txWord' = run
    /\ interrupted' = (interrupted \/ (Connected /\ Complains(index, run)))
    /\ IF tx'.configok /\ run /\ ~txWord THEN Send(used) ELSE UNCHANGED <<used, txcount>>
    /\ UNCHANGED <<txdropped, written, rx, rxWord>>

WriteRxctrl ==
  \E run \in BOOLEAN, index \in Bauds :
    /\ rx' = Control(rx, run, index)
    /\ rxWord' = run
    /\ interrupted' = (interrupted \/ (Connected /\ Complains(index, run)))
    /\ UNCHANGED <<tx, txWord, fifo>>

WriteTxdataOverfull ==
  /\ written' = written + 1
  /\ IF used > Capacity
       THEN txdropped' = txdropped + 1 /\ UNCHANGED <<used, txcount>>
       ELSE Send(used + 1) /\ UNCHANGED txdropped
  /\ UNCHANGED control

\* A byte is dropped when the fifo is full, else queued and sent.
WriteTxdata ==
  /\ written' = written + 1
  /\ IF used = Capacity
       THEN txdropped' = txdropped + 1 /\ UNCHANGED <<used, txcount>>
       ELSE Send(used + 1) /\ UNCHANGED txdropped
  /\ UNCHANGED control

\* All other registers are stored, or ignored with a report.
UartWriteActions(address) ==
  CASE address = 0  -> WriteTxctrl
    [] address = 12 -> WriteTxdata
    [] address = 16 -> WriteRxctrl
    [] OTHER -> UNCHANGED <<control, fifo>>

-----------------------------------------------------------------------------
(* read_actions *)

\* The word that is returned is made of the fields.
ReadTxctrl == /\ tx' = [tx EXCEPT !.depthend = (used = Capacity)]
              /\ UNCHANGED <<rx, txWord, rxWord, interrupted, fifo>>

ReadRxctrl == /\ rx' = [rx EXCEPT !.depthend = TRUE]
              /\ UNCHANGED <<tx, txWord, rxWord, interrupted, fifo>>

UartReadActions(address) ==
  CASE address = 0  -> ReadTxctrl
    [] address = 16 -> ReadRxctrl
    [] OTHER -> UNCHANGED <<control, fifo>>

-----------------------------------------------------------------------------
(* Accesses *)

UartPayloadIsOk(t, len) == RegisterResponse(t, len, uartSize) = "TLM_OK"

UartTransport(t) ==
  CASE t.command = "write" -> UartWriteActions(t.address)
    [] t.command = "read"  -> UartReadActions(t.address)
    [] OTHER -> UNCHANGED <<control, fifo>>

UartAccess == /\ uartAccesses < MaxUartAccesses
              /\ ~hung
              /\ uartAccesses' = uartAccesses + 1
              /\ UNCHANGED <<txspeed, hung>>

UartBTransport(t) ==
  /\ UartAccess
  /\ uartResponse' = RegisterResponse(t, t.length, uartSize)
  /\ IF UartPayloadIsOk(t, t.length)
       THEN UartTransport(t) ELSE UNCHANGED <<control, fifo>>
  /\ UNCHANGED uartSize

\* The register file is copied, and no handler runs.
UartTransportDbg(t) ==
  /\ UartAccess
  /\ uartResponse' = DebugResponse(t, uartSize, uartResponse)
  /\ UNCHANGED <<uartSize, control, fifo>>

UartConfigure(size) ==
  /\ UartAccess
  /\ uartSize' = size
  /\ uartResponse' = "TLM_OK"
  /\ UNCHANGED <<control, fifo>>

-----------------------------------------------------------------------------
(* The threads *)

\* Whatever the speed, tx_thread reports that it is not implemented for ever.
TxThread == ~hung /\ hung' = TRUE
            /\ UNCHANGED <<uartSize, txspeed, control, fifo, uartResponse, uartAccesses>>

RxThread == ~hung /\ hung' = TRUE
            /\ UNCHANGED <<uartSize, txspeed, control, fifo, uartResponse, uartAccesses>>

UartNext ==
  \/ \E t \in Payloads : UartBTransport(t)
  \/ \E t \in Payloads : UartTransportDbg(t)
  \/ \E size \in Sizes \cup {0} : UartConfigure(size)
  \/ TxThread \/ RxThread

-----------------------------------------------------------------------------
(* Properties *)

UartTypeOK ==
  /\ uartSize \in Nat
  /\ txspeed \in Speed
  /\ tx \in [configok : BOOLEAN, running : BOOLEAN, depthend : BOOLEAN]
  /\ rx \in [configok : BOOLEAN, running : BOOLEAN, depthend : BOOLEAN]
  /\ txWord \in BOOLEAN /\ rxWord \in BOOLEAN
  /\ used \in Int /\ txcount \in Int /\ txdropped \in Nat /\ written \in Nat
  /\ hung \in BOOLEAN /\ interrupted \in BOOLEAN
  /\ uartResponse \in Responses

\* While bytes wait for a port (speed FAST or SLOW), across starts, stops and bad
\* control words: every byte written is in the fifo or was counted as dropped, the
\* fifo holds no more than its capacity, and nothing is dropped while there is
\* room (uart.cpp:650-661).
FifoConserved ==
  txspeed # "VIRTUAL" =>
    /\ written = used + txdropped
    /\ used \in 0 .. Capacity
    /\ txdropped > 0 => used = Capacity
===============================================================================
