------------------------------ MODULE Peripherals ------------------------------
(***************************************************************************)
(* The parts of the platform that share no state with one another or with  *)
(* the modules of timer, memories and interrupts: pins, interrupt          *)
(* controller, serial port, the stub with its configuration, and the two   *)
(* channels to threads of the host.  A behaviour of all of them interleaves*)
(* behaviours of each; one is exercised in a behaviour and the others stay *)
(* idle.                                                                   *)
(***************************************************************************)
EXTENDS Gpio, Pic, Uart, Stub, AsyncTx, AsyncRx

VARIABLE device         \* the part that is exercised

parts == <<gpioVars, picVars, uartVars, stubVars, txVars, rxVars>>
vars == <<parts, device>>

Init == /\ GpioInit /\ PicInit /\ UartInit /\ StubInit /\ TxInit /\ RxInit
        /\ device \in {"gpio", "pic", "uart", "stub", "async_tx", "async_rx"}

Next ==
  /\ \/ device = "gpio" /\ GpioNext
        /\ UNCHANGED <<picVars, uartVars, stubVars, txVars, rxVars>>
     \/ device = "pic"  /\ PicNext
        /\ UNCHANGED <<gpioVars, uartVars, stubVars, txVars, rxVars>>
     \/ device = "uart" /\ UartNext
        /\ UNCHANGED <<gpioVars, picVars, stubVars, txVars, rxVars>>
     \/ device = "stub" /\ StubNext
        /\ UNCHANGED <<gpioVars, picVars, uartVars, txVars, rxVars>>
     \/ device = "async_tx" /\ TxNext
        /\ UNCHANGED <<gpioVars, picVars, uartVars, stubVars, rxVars>>
     \/ device = "async_rx" /\ RxNext
        /\ UNCHANGED <<gpioVars, picVars, uartVars, stubVars, txVars>>
  /\ UNCHANGED device

Spec == Init /\ [][Next]_vars

\* Type correctness of the parts.
TypeOK == GpioTypeOK /\ PicTypeOK /\ UartTypeOK /\ StubTypeOK /\ TxTypeOK /\ RxTypeOK

\* Both channels keep the order of sending, and lose and repeat nothing but what
\* drop() throws away.
InOrder == TxInOrder /\ RxInOrder
===============================================================================
