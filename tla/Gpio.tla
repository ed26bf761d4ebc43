--------------------------------- MODULE Gpio ---------------------------------
(***************************************************************************)
(* The general purpose pins (gpio/gpio.cpp): a register file, one resolved *)
(* signal for each pin, and the thread that watches the pins.              *)
(*                                                                         *)
(* The registers of Gpio_regs_t are bool although there are 64 pins, so    *)
(* "register & bit" is false for every pin but pin 0.  m_register_vec has  *)
(* one byte instead of GPIO_REGS_SIZE: a handler finds the byte of its     *)
(* register behind the vector, which holds anything, unless it is byte 0.  *)
(* The registers DATASET, DATACLR, DATAINV, DATAENA and DATAINP only mirror*)
(* the last access and are left out.                                       *)
(***************************************************************************)
EXTENDS TargetPort, FiniteSets

CONSTANTS Pins,         \* 0 .. PINS-1
          PowerUp,      \* contents of m_reg, which no constructor sets
          MaxAccesses,  \* bound: accesses of software
          MaxOutside    \* bound: writes of what is connected to the pins

Register == {"PINDIRN", "PININTR", "PINPULL", "PULLDIR", "DATAOUT", "DATACHG",
             "PINRISE", "PINFALL"}
Logic == {"0", "1", "Z", "X"}
Drivers == {"start_of_simulation", "software", "outside"}

ASSUME GpioAssumption == /\ 0 \in Pins /\ Pins \subseteq Nat
                         /\ PowerUp \subseteq [Register -> BOOLEAN]
                         /\ MaxAccesses \in Nat /\ MaxOutside \in Nat

VARIABLES gpioSize,     \* m_target_size
          gpioReg,      \* m_reg
          overlay,      \* pindirn in m_register_vec, its only byte
          out,          \* m_out: what was last flushed to the pins, or "Z"
          drive,        \* pin: what each process that wrote it drives
          pin,          \* pin: the value of the resolved signal
          gpioThread,   \* "waiting" for a change, "ready", or waiting for the "posedge"
          synced,       \* software has waited since its last access
          notified,     \* intrq_port->notify was called when the thread looked last
          gpioResponse, \* response status of the last access
          accesses, pushes,  \* bounds
          rewritten     \* history: a register was written since the thread looked last

gpioVars == <<gpioSize, gpioReg, overlay, out, drive, pin, gpioThread, synced,
              notified, gpioResponse, accesses, pushes, rewritten>>

-----------------------------------------------------------------------------
(* The pins *)

\* sc_signal_resolved: Z gives way, and two values that differ give X.
Resolve(driven) ==
  LET values == {driven[d] : d \in DOMAIN driven} \ {"Z"}
  IN IF values = {} THEN "Z"
     ELSE IF Cardinality(values) = 1 THEN CHOOSE v \in values : TRUE ELSE "X"

\* sc_signal_resolved::write: each process has a driver of its own.
Drive(driven, process, value) ==
  [d \in DOMAIN driven \cup {process} |-> IF d = process THEN value ELSE driven[d]]

Settled == \A p \in Pins : pin[p] = Resolve(drive[p])

\* register & bit
Bit(register, p) == register /\ p = 0

Level(value) == IF value THEN "1" ELSE "0"

GpioInit ==
  /\ gpioSize \in Sizes
  /\ gpioReg \in PowerUp
  /\ overlay \in BOOLEAN            \* a bool made from the byte 16
  /\ out = "Z"
  /\ drive = [p \in Pins |-> [d \in {"start_of_simulation"} |-> "Z"]]
  /\ pin = [p \in Pins |-> "Z"]
  /\ gpioThread = "waiting"
  /\ synced = TRUE
  /\ notified = FALSE
  /\ gpioResponse = "none"
  /\ accesses = 0 /\ pushes = 0
  /\ rewritten = TRUE

-----------------------------------------------------------------------------
(* Registers *)

\* The register whose handler an access to an address runs: three bits are
\* dropped, so the second word of a register runs it too.
RegisterAt(address) ==
  LET names == <<"PINDIRN", "PININTR", "PINPULL", "PULLDIR", "DATAINP", "DATAOUT",
                 "DATASET", "DATACLR", "DATAINV", "DATACHG", "DATAENA", "PINRISE",
                 "PINFALL">>
      k == address \div 8 + 1
  IN IF k \in DOMAIN names THEN names[k] ELSE "other"

\* What the handler of a register can find in the overlay.
Found(r, byte0) == IF r = "PINDIRN" THEN {byte0} ELSE BOOLEAN

\* m_reg after the handler of register r found v.
Stored(r, v) ==
  CASE r = "DATASET" -> [gpioReg EXCEPT !["DATAOUT"] = @ \/ v]
    [] r = "DATACLR" -> [gpioReg EXCEPT !["DATAOUT"] = @ /\ ~v]
    [] r = "DATAINV" -> [gpioReg EXCEPT !["DATAOUT"] = @ # v]
    [] r = "DATACHG" -> [gpioReg EXCEPT !["DATACHG"] = @ /\ v]
    [] r = "DATAENA" -> [gpioReg EXCEPT !["DATACHG"] = @ /\ ~v]
    [] r \in Register \ {"DATACHG"} -> [gpioReg EXCEPT ![r] = v]
    [] OTHER -> gpioReg

\* The mask does not move with the pin where the directions are compared, so
\* all pins become outputs, or inputs, with pin 0.
NewOutput(r, v) == r = "PINDIRN" /\ gpioReg["PINDIRN"] /\ ~v
NewInput(r, v)  == r = "PINDIRN" /\ ~gpioReg["PINDIRN"] /\ v

FlushesOnChange(r, v) == out # Level(Stored(r, v)["DATAOUT"])

Flushes(r, v) == NewOutput(r, v) \/ out # Level(Stored(r, v)["DATAOUT"])

\* Only an output whose signal does not have the value already is written.
Driven(r, v) ==
  LET reg == Stored(r, v)
      Value(p) == Level(Bit(reg["DATAOUT"], p))
      Write(p, value) == Drive(drive[p], "software", value)
  IN [p \in Pins |->
        IF NewInput(r, v) THEN Write(p, "Z")
        ELSE IF Flushes(r, v) /\ ~Bit(reg["PINDIRN"], p) /\ pin[p] # Value(p)
               THEN Write(p, Value(p))
        ELSE drive[p]]

GpioWriteActions(r, v) ==
  /\ gpioReg' = Stored(r, v)
  /\ out' = IF Flushes(r, v) THEN Level(gpioReg'["DATAOUT"]) ELSE out
  /\ drive' = Driven(r, v)

\* Only the read of PINDIRN leaves something that a later handler can find.
GpioReadActions(r) ==
  /\ overlay' = IF r = "PINDIRN" THEN gpioReg["PINDIRN"] ELSE overlay
  /\ UNCHANGED <<gpioReg, out, drive>>

-----------------------------------------------------------------------------
(* Accesses *)

\* An access that overlaps byte 0 of the register file stores data there.
Stores(t, data) == IF t.address = 0 /\ t.length > 0 THEN data ELSE overlay

GpioPayloadIsOk(t, len) == RegisterResponse(t, len, gpioSize) = "TLM_OK"

GpioTransport(t) ==
  LET r == RegisterAt(t.address)
  IN CASE t.command = "write" ->
            \E data \in BOOLEAN :
              /\ overlay' = Stores(t, data)
              /\ \E v \in Found(r, overlay') : GpioWriteActions(r, v)
       [] t.command = "read" -> GpioReadActions(r)
       [] OTHER -> UNCHANGED <<gpioReg, overlay, out, drive>>

GpioAccess == /\ accesses < MaxAccesses
              /\ synced
              /\ accesses' = accesses + 1
              /\ UNCHANGED <<pin, gpioThread, notified, pushes>>

\* Software waits for the delay of the access before it makes another.
GpioBTransport(t) ==
  /\ GpioAccess
  /\ gpioResponse' = RegisterResponse(t, t.length, gpioSize)
  /\ IF GpioPayloadIsOk(t, t.length)
       THEN GpioTransport(t)
       ELSE UNCHANGED <<gpioReg, overlay, out, drive>>
  /\ rewritten' = (rewritten \/ (GpioPayloadIsOk(t, t.length) /\ t.command = "write"))
  /\ synced' = FALSE
  /\ UNCHANGED gpioSize

\* The register file is copied, and no handler runs.
GpioTransportDbg(t) ==
  /\ GpioAccess
  /\ gpioResponse' = DebugResponse(t, gpioSize, gpioResponse)
  /\ IF t.command = "write" /\ GpioPayloadIsOk(t, Truncated(t, gpioSize))
       THEN \E data \in BOOLEAN : overlay' = Stores(t, data)
       ELSE UNCHANGED overlay
  /\ UNCHANGED <<gpioSize, gpioReg, out, drive, synced, rewritten>>

\* A configuration that does not give the size sets it to the default, 0.
GpioConfigure(size) ==
  /\ GpioAccess
  /\ gpioSize' = size
  /\ gpioResponse' = "TLM_OK"
  /\ UNCHANGED <<gpioReg, overlay, out, drive, synced, rewritten>>

-----------------------------------------------------------------------------
(* Kernel, thread and what is outside *)

GpioUpdateLastPin ==
  LET LastPin == CHOOSE p \in Pins : \A q \in Pins : q <= p
  IN
  /\ ~Settled
  /\ pin' = [p \in Pins |-> Resolve(drive[p])]
  /\ gpioThread' = IF gpioThread = "waiting" /\ pin[LastPin] # pin'[LastPin]
                   THEN "ready" ELSE gpioThread
  /\ UNCHANGED <<gpioSize, gpioReg, overlay, out, drive, synced, notified,
                 gpioResponse, accesses, pushes, rewritten>>

\* The update phase: the signals take their values, and a change makes the
\* thread ready if it is waiting for one.
GpioUpdate ==
  /\ ~Settled
  /\ pin' = [p \in Pins |-> Resolve(drive[p])]
  /\ gpioThread' = IF gpioThread = "waiting" THEN "ready" ELSE gpioThread
  /\ UNCHANGED <<gpioSize, gpioReg, overlay, out, drive, synced, notified,
                 gpioResponse, accesses, pushes, rewritten>>

\* The thread goes on to clk.wait_posedge().
PortChanged ==
  /\ gpioThread = "ready"
  /\ gpioThread' = "posedge"
  /\ UNCHANGED <<gpioSize, gpioReg, overlay, out, drive, pin, synced, notified,
                 gpioResponse, accesses, pushes, rewritten>>

\* What the thread takes the pin for: the pull replaces Z.  m_inp stays X for
\* ever, so the opposite of it for an X is X again, which is no change, and every
\* 0 or 1 counts as one.
Sampled(p) ==
  IF pin[p] = "Z" /\ Bit(gpioReg["PINPULL"], p)
    THEN Level(Bit(gpioReg["PULLDIR"], p)) ELSE pin[p]

Detected(p) ==
  /\ Bit(gpioReg["PINDIRN"], p)
  /\ \/ Sampled(p) = "1" /\ Bit(gpioReg["PINRISE"], p)
     \/ Sampled(p) = "0" /\ Bit(gpioReg["PINFALL"], p)

\* The rising edge of the clock: the thread looks at the pins and waits again.
GpioThread ==
  /\ gpioThread = "posedge"
  /\ LET detected == \E p \in Pins : Detected(p)
     IN /\ gpioReg' = [gpioReg EXCEPT !["DATACHG"] = @ \/ detected]
        /\ notified' = (detected /\ gpioReg["PININTR"])
  /\ gpioThread' = "waiting"
  /\ rewritten' = FALSE
  /\ UNCHANGED <<gpioSize, overlay, out, drive, pin, synced, gpioResponse, accesses,
                 pushes>>

\* Time passes when no process can run and nothing is left to update.
GpioTimePasses ==
  /\ ~synced /\ Settled /\ gpioThread # "ready"
  /\ synced' = TRUE
  /\ UNCHANGED <<gpioSize, gpioReg, overlay, out, drive, pin, gpioThread, notified,
                 gpioResponse, accesses, pushes, rewritten>>

\* What is connected through gpio_xport drives a pin, or lets it go.
Outside(p, value) ==
  /\ pushes < MaxOutside
  /\ pushes' = pushes + 1
  /\ drive' = [drive EXCEPT ![p] = Drive(@, "outside", value)]
  /\ UNCHANGED <<gpioSize, gpioReg, overlay, out, pin, gpioThread, synced, notified,
                 gpioResponse, accesses, rewritten>>

GpioNext ==
  \/ \E t \in Payloads : GpioBTransport(t)
  \/ \E t \in Payloads : GpioTransportDbg(t)
  \/ \E size \in Sizes \cup {0} : GpioConfigure(size)
  \/ GpioUpdate \/ PortChanged \/ GpioThread \/ GpioTimePasses
  \/ \E p \in Pins, value \in {"0", "1", "Z"} : Outside(p, value)

-----------------------------------------------------------------------------
(* Properties *)

GpioTypeOK ==
  /\ gpioSize \in Nat
  /\ gpioReg \in [Register -> BOOLEAN]
  /\ overlay \in BOOLEAN
  /\ out \in {"Z", "0", "1"}
  /\ \A p \in Pins : drive[p] \in [DOMAIN drive[p] -> {"Z", "0", "1"}]
                     /\ DOMAIN drive[p] \subseteq Drivers
  /\ pin \in [Pins -> Logic]
  /\ gpioThread \in {"waiting", "ready", "posedge"}
  /\ synced \in BOOLEAN /\ notified \in BOOLEAN /\ rewritten \in BOOLEAN
  /\ gpioResponse \in Responses
  /\ accesses \in 0 .. MaxAccesses /\ pushes \in 0 .. MaxOutside

\* The one pin that the bool registers reach, pin 0 (gpio_reg.h:12-29; for the
\* other pins of the 64-bit registers that ABOUT_GPIO.md:34-36 promises the code
\* keeps no bit, and nothing is claimed).  Whatever the sequence of directions,
\* data and partial writes (writes of a word in the middle of a register run its
\* handler on stale data, and a pin that has its value already is not written):
\* while only software drives the pin, and the signal has settled, an output
\* carries DATAOUT, and an input, or a pin that nothing was flushed to, is let go.
\* (gpio.cpp:569 flushes only what it believes changed.)
FirstPinFollows ==
  "outside" \notin DOMAIN drive[0] /\ Settled =>
    pin[0] = IF gpioReg["PINDIRN"] \/ out = "Z" THEN "Z" ELSE Level(gpioReg["DATAOUT"])

\* While gpio_thread is on its way to the clock edge it does not wait for changes
\* (gpio.cpp:428-431), and it passes over outputs (437); no level that it should
\* have seen escapes it all the same.  When it waits, and software has written no
\* register since it looked, every input at a level whose edge is selected is
\* recorded in DATACHG, and its interrupt was sent if that is enabled.
ChangesLatched ==
  gpioThread = "waiting" /\ ~rewritten =>
    \A p \in Pins : Detected(p) => gpioReg["DATACHG"] /\ (gpioReg["PININTR"] => notified)
===============================================================================
