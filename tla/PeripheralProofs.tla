--------------------------- MODULE PeripheralProofs ---------------------------
(***************************************************************************)
(* What holds of the pins, the interrupt controller, the serial port, the  *)
(* configured target and the channels to the host for every number of pins,*)
(* sources, threads and payloads, every register size and every default.   *)
(* The parts share no state, so each invariant is proved from the steps of *)
(* its own part.                                                           *)
(***************************************************************************)
EXTENDS Peripherals, SequenceTheorems, FiniteSetTheorems, WellFoundedInduction, TLAPS

\* A step of the platform is a step of a part, or leaves that part alone.
LEMMA StepOfPart ==
  ASSUME [Next]_vars
  PROVE  /\ GpioNext \/ UNCHANGED gpioVars
         /\ PicNext \/ UNCHANGED picVars
         /\ UartNext \/ UNCHANGED uartVars
         /\ StubNext \/ UNCHANGED stubVars
         /\ TxNext \/ UNCHANGED txVars
         /\ RxNext \/ UNCHANGED rxVars
<1>1. CASE UNCHANGED vars
  BY <1>1 DEF vars, parts
<1>2. CASE Next
  BY <1>2 DEF Next
<1>3. QED
  BY <1>1, <1>2

\* The responses of the register targets are responses.
LEMMA ResponseIsOne ==
  ASSUME NEW t, NEW len, NEW size
  PROVE  RegisterResponse(t, len, size) \in Responses
  BY DEF RegisterResponse, Responses

LEMMA DebugResponseIsOne ==
  ASSUME NEW t, NEW size, NEW before \in Responses
  PROVE  DebugResponse(t, size, before) \in Responses
<1>1. RegisterResponse(t, Truncated(t, size), size) \in Responses
  BY ResponseIsOne
<1>2. QED
  BY <1>1 DEF DebugResponse, Responses

-----------------------------------------------------------------------------
(* Pins *)

\* Nothing outside ever wrote the first pin.
Alone == "outside" \notin DOMAIN drive[0]

\* What drives a pin when software alone does.
DrivenAlone(driven) ==
  /\ "start_of_simulation" \in DOMAIN driven
  /\ driven["start_of_simulation"] = "Z"
  /\ DOMAIN driven \subseteq Drivers

\* What the first pin should carry.
Carried == IF gpioReg["PINDIRN"] \/ out = "Z" THEN "Z" ELSE Level(gpioReg["DATAOUT"])

\* What is written is flushed at once, and a pin that is not written since it has its
\* value already has it from software's driver: when software is the only one to
\* write it, its accesses find the first pin settled.
PinsInv ==
  /\ gpioReg \in [Register -> BOOLEAN] /\ overlay \in BOOLEAN
  /\ drive = [p \in Pins |-> drive[p]]
  /\ Alone =>
       /\ synced => pin[0] = Resolve(drive[0])
       /\ DrivenAlone(drive[0])
       /\ out # "Z" => out = Level(gpioReg["DATAOUT"])
       /\ Resolve(drive[0]) = Carried

\* A pin has the value that software drives.
LEMMA SoftwareDrives ==
  ASSUME NEW driven, DrivenAlone(driven), "outside" \notin DOMAIN driven,
         NEW value, value # "Z"
  PROVE  /\ DrivenAlone(Drive(driven, "software", value))
         /\ Resolve(Drive(driven, "software", value)) = value
<1> DEFINE d == Drive(driven, "software", value)
           values == {d[x] : x \in DOMAIN d} \ {"Z"}
<1>1. /\ DOMAIN d = {"start_of_simulation", "software"}
      /\ d["start_of_simulation"] = "Z" /\ d["software"] = value
  BY DEF Drive, DrivenAlone, Drivers
<1>2. DrivenAlone(d)
  BY <1>1 DEF DrivenAlone, Drivers
<1>3. values = {value}
  BY <1>1
<1>4. Cardinality({value}) = 1 /\ {value} # {} /\ (CHOOSE x \in {value} : TRUE) = value
  BY FS_Singleton
<1>5. Resolve(d) = IF values = {} THEN "Z"
                   ELSE IF Cardinality(values) = 1 THEN CHOOSE x \in values : TRUE ELSE "X"
  BY DEF Resolve
<1> HIDE DEF values
<1>6. Resolve(d) = value
  BY <1>3, <1>4, <1>5
<1> HIDE DEF d
<1>7. QED
  BY <1>2, <1>6 DEF d

\* A pin that software lets go is still driven by it, with nothing.
LEMMA SoftwareLetsGo ==
  ASSUME NEW driven, DrivenAlone(driven), "outside" \notin DOMAIN driven
  PROVE  /\ DrivenAlone(Drive(driven, "software", "Z"))
         /\ Resolve(Drive(driven, "software", "Z")) = "Z"
<1> DEFINE d == Drive(driven, "software", "Z")
           values == {d[x] : x \in DOMAIN d} \ {"Z"}
<1>1. /\ DOMAIN d = {"start_of_simulation", "software"}
      /\ d["start_of_simulation"] = "Z" /\ d["software"] = "Z"
  BY DEF Drive, DrivenAlone, Drivers
<1>2. DrivenAlone(d)
  BY <1>1 DEF DrivenAlone, Drivers
<1>3. values = {}
  BY <1>1
<1>4. Resolve(d) = "Z"
  BY <1>3 DEF Resolve
<1> HIDE DEF d
<1>5. QED
  BY <1>2, <1>4 DEF d

\* What a handler stores.
LEMMA StoredRegisters ==
  ASSUME gpioReg \in [Register -> BOOLEAN], NEW r, NEW v \in BOOLEAN
  PROVE  /\ Stored(r, v) \in [Register -> BOOLEAN]
         /\ Stored(r, v)["PINDIRN"] = IF r = "PINDIRN" THEN v ELSE gpioReg["PINDIRN"]
<1>1. CASE r \in {"DATASET", "DATACLR", "DATAINV", "DATACHG", "DATAENA"}
  BY <1>1 DEF Stored, Register
<1>2. CASE r \in Register \ {"DATACHG"}
  <2>1. Stored(r, v) = [gpioReg EXCEPT ![r] = v]
    BY <1>2 DEF Stored, Register
  <2>2. QED
    BY <1>2, <2>1 DEF Register
<1>3. CASE r \notin {"DATASET", "DATACLR", "DATAINV", "DATACHG", "DATAENA"} \cup Register
  <2>1. Stored(r, v) = gpioReg
    BY <1>3 DEF Stored, Register
  <2>2. QED
    BY <1>3, <2>1 DEF Register
<1>4. QED
  BY <1>1, <1>2, <1>3

LEMMA WriteKeepsPins ==
  ASSUME PinsInv, synced, NEW r, NEW v \in BOOLEAN, GpioWriteActions(r, v),
         overlay' \in BOOLEAN, synced' = FALSE, pin' = pin
  PROVE  PinsInv'
<1> DEFINE reg == Stored(r, v)
           value == Level(reg["DATAOUT"])
<1>0. 0 \in Pins
  BY GpioAssumption
<1>1. /\ gpioReg' = reg /\ reg \in [Register -> BOOLEAN]
      /\ reg["PINDIRN"] = IF r = "PINDIRN" THEN v ELSE gpioReg["PINDIRN"]
      /\ gpioReg \in [Register -> BOOLEAN]
  BY StoredRegisters DEF GpioWriteActions, PinsInv
<1>2. drive' = [p \in Pins |-> drive'[p]]
  BY DEF GpioWriteActions, Driven
<1>3. /\ out' = IF Flushes(r, v) THEN value ELSE out
      /\ out # value => Flushes(r, v)
  BY DEF GpioWriteActions, Flushes
<1>4. out' = value
  BY <1>3
<1>5. reg["PINDIRN"] \in BOOLEAN /\ reg["DATAOUT"] \in BOOLEAN
  BY <1>1 DEF Register
<1>6. drive'[0] = IF NewInput(r, v) THEN Drive(drive[0], "software", "Z")
                  ELSE IF Flushes(r, v) /\ ~reg["PINDIRN"] /\ pin[0] # value
                         THEN Drive(drive[0], "software", value)
                  ELSE drive[0]
  <2>1. Bit(reg["DATAOUT"], 0) = reg["DATAOUT"] /\ Bit(reg["PINDIRN"], 0) = reg["PINDIRN"]
    BY <1>5 DEF Bit
  <2>2. drive'[0] = IF NewInput(r, v) THEN Drive(drive[0], "software", "Z")
                    ELSE IF /\ Flushes(r, v) /\ ~Bit(reg["PINDIRN"], 0)
                            /\ pin[0] # Level(Bit(reg["DATAOUT"], 0))
                           THEN Drive(drive[0], "software", Level(Bit(reg["DATAOUT"], 0)))
                    ELSE drive[0]
    BY <1>0 DEF GpioWriteActions, Driven
  <2>3. QED
    BY <2>1, <2>2
<1>7. \A b : Level(b) # "Z"
  BY DEF Level
<1>8. value # "Z"
  BY <1>7
<1> HIDE DEF value, reg
<1>9. ASSUME Alone'
      PROVE  /\ DrivenAlone(drive'[0])
             /\ Resolve(drive'[0]) = IF reg["PINDIRN"] THEN "Z" ELSE value
  <2>1. /\ Alone /\ DrivenAlone(drive[0]) /\ pin[0] = Resolve(drive[0])
        /\ out # "Z" => out = Level(gpioReg["DATAOUT"])
        /\ Resolve(drive[0]) = Carried
    <3>1. Alone
      BY <1>6, <1>9 DEF Alone, Drive
    <3>2. QED
      BY <3>1 DEF PinsInv
  <2>2. CASE NewInput(r, v)
    <3>1. reg["PINDIRN"]
      BY <1>1, <2>2 DEF NewInput
    <3>2. QED
      BY <1>6, <2>1, <2>2, <3>1, SoftwareLetsGo DEF Alone
  <2>3. CASE ~NewInput(r, v) /\ reg["PINDIRN"]
    <3>1. gpioReg["PINDIRN"]
      BY <1>1, <2>3 DEF NewInput
    <3>2. drive'[0] = drive[0]
      BY <1>6, <2>3
    <3>3. QED
      BY <2>1, <2>3, <3>1, <3>2 DEF Carried
  <2>4. CASE ~NewInput(r, v) /\ ~reg["PINDIRN"] /\ Flushes(r, v) /\ pin[0] # value
    <3>1. drive'[0] = Drive(drive[0], "software", value)
      BY <1>6, <2>4
    <3>2. QED
      BY <1>8, <2>1, <2>4, <3>1, SoftwareDrives DEF Alone
  <2>5. CASE ~NewInput(r, v) /\ ~reg["PINDIRN"] /\ Flushes(r, v) /\ pin[0] = value
    BY <1>6, <2>1, <2>5
  <2>6. CASE ~NewInput(r, v) /\ ~reg["PINDIRN"] /\ ~Flushes(r, v)
    <3>1. drive'[0] = drive[0] /\ out = value /\ ~NewOutput(r, v)
      BY <1>3, <1>6, <2>6 DEF Flushes
    <3>2. out # "Z" /\ value = Level(gpioReg["DATAOUT"])
      BY <1>8, <2>1, <3>1
    <3>3. ~gpioReg["PINDIRN"]
      BY <1>1, <2>6, <3>1 DEF NewOutput
    <3>4. QED
      BY <2>1, <2>6, <3>1, <3>2, <3>3 DEF Carried
  <2>7. QED
    BY <2>2, <2>3, <2>4, <2>5, <2>6
<1>10. gpioReg' \in [Register -> BOOLEAN] /\ out' = Level(gpioReg'["DATAOUT"])
  BY <1>1, <1>4 DEF value
<1>11. Carried' = IF reg["PINDIRN"] THEN "Z" ELSE value
  BY <1>1, <1>4, <1>8 DEF Carried, value
<1>12. QED
  BY <1>2, <1>9, <1>10, <1>11 DEF PinsInv

\* A step that touches neither the registers the pins come from nor the drivers.
LEMMA SamePins ==
  ASSUME PinsInv, drive' = drive, out' = out,
         gpioReg' \in [Register -> BOOLEAN], overlay' \in BOOLEAN,
         gpioReg'["DATAOUT"] = gpioReg["DATAOUT"], gpioReg'["PINDIRN"] = gpioReg["PINDIRN"],
         synced' => Settled' \/ (synced /\ pin' = pin)
  PROVE  PinsInv'
<1>1. Settled' => pin'[0] = Resolve(drive[0])
  BY GpioAssumption DEF Settled
<1>2. QED
  BY <1>1 DEF PinsInv, Alone, Carried

LEMMA GpioKeepsPins ==
  ASSUME PinsInv, GpioNext \/ UNCHANGED gpioVars
  PROVE  PinsInv'
<1>0. gpioReg \in [Register -> BOOLEAN] /\ overlay \in BOOLEAN
  BY DEF PinsInv
<1>1. CASE UNCHANGED gpioVars
  BY <1>0, <1>1, SamePins DEF gpioVars
<1>2. ASSUME NEW t, GpioBTransport(t)
      PROVE  PinsInv'
  <2>1. /\ synced /\ pin' = pin /\ synced' = FALSE
        /\ GpioTransport(t) \/ UNCHANGED <<gpioReg, overlay, out, drive>>
    BY <1>2 DEF GpioBTransport, GpioAccess
  <2>2. CASE t.command = "write" /\ GpioTransport(t)
    <3>1. PICK data \in BOOLEAN : /\ overlay' = Stores(t, data)
                                  /\ \E v \in Found(RegisterAt(t.address), overlay') :
                                       GpioWriteActions(RegisterAt(t.address), v)
      BY <2>2 DEF GpioTransport
    <3>2. PICK v \in Found(RegisterAt(t.address), overlay') :
            GpioWriteActions(RegisterAt(t.address), v)
      BY <3>1
    <3>3. overlay' \in BOOLEAN
      BY <1>0, <3>1 DEF Stores
    <3>4. v \in BOOLEAN
      BY <3>2, <3>3 DEF Found
    <3>5. QED
      BY <2>1, <3>2, <3>3, <3>4, WriteKeepsPins
  <2>3. CASE t.command = "read" /\ GpioTransport(t)
    <3>1. GpioReadActions(RegisterAt(t.address))
      BY <2>3 DEF GpioTransport
    <3>2. overlay' \in BOOLEAN /\ UNCHANGED <<gpioReg, out, drive>>
      BY <1>0, <3>1 DEF GpioReadActions, Register
    <3>3. QED
      BY <1>0, <2>1, <3>2, SamePins
  <2>4. CASE UNCHANGED <<gpioReg, overlay, out, drive>>
    BY <1>0, <2>1, <2>4, SamePins
  <2>5. QED
    BY <2>1, <2>2, <2>3, <2>4 DEF GpioTransport
<1>3. ASSUME NEW t, GpioTransportDbg(t)
      PROVE  PinsInv'
  <2>1. /\ pin' = pin /\ UNCHANGED <<gpioReg, out, drive, synced>>
    BY <1>3 DEF GpioTransportDbg, GpioAccess
  <2>2. overlay' \in BOOLEAN
    BY <1>0, <1>3 DEF GpioTransportDbg, Stores
  <2>3. QED
    BY <1>0, <2>1, <2>2, SamePins
<1>4. ASSUME NEW size, GpioConfigure(size)
      PROVE  PinsInv'
  BY <1>0, <1>4, SamePins DEF GpioConfigure, GpioAccess
<1>5. CASE GpioUpdate
  <2>1. Settled'
    BY <1>5 DEF GpioUpdate, Settled
  <2>2. QED
    BY <1>0, <1>5, <2>1, SamePins DEF GpioUpdate
<1>6. CASE PortChanged
  BY <1>0, <1>6, SamePins DEF PortChanged
<1>7. CASE GpioThread
  <2>1. PICK c \in BOOLEAN : gpioReg' = [gpioReg EXCEPT !["DATACHG"] = c]
    <3>1. gpioReg' = [gpioReg EXCEPT !["DATACHG"] = @ \/ \E p \in Pins : Detected(p)]
      BY <1>7 DEF GpioThread
    <3>2. QED
      BY <3>1
  <2>2. /\ gpioReg' \in [Register -> BOOLEAN]
        /\ gpioReg'["DATAOUT"] = gpioReg["DATAOUT"] /\ gpioReg'["PINDIRN"] = gpioReg["PINDIRN"]
    BY <1>0, <2>1 DEF Register
  <2>3. QED
    BY <1>0, <1>7, <2>2, SamePins DEF GpioThread
<1>8. CASE GpioTimePasses
  <2>1. Settled'
    BY <1>8 DEF GpioTimePasses, Settled
  <2>2. QED
    BY <1>0, <1>8, <2>1, SamePins DEF GpioTimePasses
<1>9. ASSUME NEW p \in Pins, NEW value, Outside(p, value)
      PROVE  PinsInv'
  <2>1. drive' = [drive EXCEPT ![p] = Drive(drive[p], "outside", value)]
    BY <1>9 DEF Outside
  <2>2. drive' = [q \in Pins |-> drive'[q]] /\ drive'[p] = Drive(drive[p], "outside", value)
    BY <2>1 DEF PinsInv
  <2>3. CASE p = 0
    <3>1. ~Alone'
      BY <2>2, <2>3 DEF Alone, Drive
    <3>2. QED
      BY <1>0, <1>9, <2>2, <3>1 DEF PinsInv, Outside
  <2>4. CASE p # 0
    <3>1. drive'[0] = drive[0]
      BY <2>1, <2>4, GpioAssumption DEF PinsInv
    <3>2. QED
      BY <1>0, <1>9, <2>2, <3>1 DEF PinsInv, Outside, Alone, Carried
  <2>5. QED
    BY <2>3, <2>4
<1>10. QED
  BY <1>1, <1>2, <1>3, <1>4, <1>5, <1>6, <1>7, <1>8, <1>9 DEF GpioNext

LEMMA PinsStart == Init => PinsInv
<1> SUFFICES ASSUME Init PROVE PinsInv
  OBVIOUS
<1>1. /\ gpioReg \in [Register -> BOOLEAN] /\ overlay \in BOOLEAN /\ out = "Z"
      /\ drive = [p \in Pins |-> [d \in {"start_of_simulation"} |-> "Z"]]
      /\ pin = [p \in Pins |-> "Z"]
  BY GpioAssumption DEF Init, GpioInit
<1> DEFINE d == [x \in {"start_of_simulation"} |-> "Z"]
           values == {d[x] : x \in DOMAIN d} \ {"Z"}
<1>2. DrivenAlone(d)
  BY DEF DrivenAlone, Drivers
<1>3. values = {}
  OBVIOUS
<1>4. Resolve(d) = "Z"
  BY <1>3 DEF Resolve
<1>5. \A p \in Pins : drive[p] = d
  BY <1>1
<1> HIDE DEF d
<1>6. pin[0] = Resolve(drive[0]) /\ DrivenAlone(drive[0]) /\ Resolve(drive[0]) = "Z"
  BY <1>1, <1>2, <1>4, <1>5, GpioAssumption
<1>7. drive = [p \in Pins |-> drive[p]]
  BY <1>1
<1>8. QED
  BY <1>1, <1>6, <1>7 DEF PinsInv, Carried

LEMMA PinsInvAlways == Spec => []PinsInv
<1>1. Init => PinsInv
  BY PinsStart
<1>2. PinsInv /\ [Next]_vars => PinsInv'
  BY StepOfPart, GpioKeepsPins
<1>3. QED
  BY <1>1, <1>2, PTL DEF Spec

\* As long as software alone writes the first pin, the settled signal carries what
\* DATAOUT and PINDIRN say: for any number of pins, whatever the registers held at
\* power-up and whatever accesses are made.
THEOREM FirstPinFollowsAlways == Spec => []FirstPinFollows
<1>1. PinsInv => FirstPinFollows
  BY GpioAssumption DEF PinsInv, FirstPinFollows, Settled, Alone, Carried
<1>2. QED
  BY <1>1, PinsInvAlways, PTL

\* A step after which nothing new could have been detected.
LEMMA SameLook ==
  ASSUME ChangesLatched, pin' = pin, gpioReg' = gpioReg, notified' = notified,
         gpioThread' = "waiting" => gpioThread = "waiting", ~rewritten' => ~rewritten
  PROVE  ChangesLatched'
  BY DEF ChangesLatched, Detected, Sampled

LEMMA GpioKeepsLatched ==
  ASSUME PinsInv, ChangesLatched, GpioNext \/ UNCHANGED gpioVars
  PROVE  ChangesLatched'
<1>1. CASE UNCHANGED gpioVars
  BY <1>1, SameLook DEF gpioVars
<1>2. ASSUME NEW t, GpioBTransport(t)
      PROVE  ChangesLatched'
  <2>1. /\ UNCHANGED <<pin, gpioThread, notified>>
        /\ rewritten' = (rewritten \/ (GpioPayloadIsOk(t, t.length) /\ t.command = "write"))
    BY <1>2 DEF GpioBTransport, GpioAccess
  <2>2. CASE GpioPayloadIsOk(t, t.length) /\ t.command = "write"
    BY <2>1, <2>2 DEF ChangesLatched
  <2>3. CASE ~(GpioPayloadIsOk(t, t.length) /\ t.command = "write")
    <3>1. gpioReg' = gpioReg
      BY <1>2, <2>3 DEF GpioBTransport, GpioTransport, GpioReadActions
    <3>2. QED
      BY <2>1, <2>3, <3>1, SameLook
  <2>4. QED
    BY <2>2, <2>3
<1>3. ASSUME NEW t, GpioTransportDbg(t)
      PROVE  ChangesLatched'
  BY <1>3, SameLook DEF GpioTransportDbg, GpioAccess
<1>4. ASSUME NEW size, GpioConfigure(size)
      PROVE  ChangesLatched'
  BY <1>4, SameLook DEF GpioConfigure, GpioAccess
<1>5. CASE GpioUpdate
  BY <1>5 DEF GpioUpdate, ChangesLatched
<1>6. CASE PortChanged
  BY <1>6 DEF PortChanged, ChangesLatched
<1>7. CASE GpioThread
  <2> DEFINE detected == \E p \in Pins : Detected(p)
  <2>1. /\ gpioReg' = [gpioReg EXCEPT !["DATACHG"] = gpioReg["DATACHG"] \/ detected]
        /\ notified' = (detected /\ gpioReg["PININTR"]) /\ pin' = pin
    BY <1>7 DEF GpioThread
  <2>2. /\ gpioReg'["DATACHG"] = (gpioReg["DATACHG"] \/ detected)
        /\ \A r \in Register \ {"DATACHG"} : gpioReg'[r] = gpioReg[r]
    BY <2>1 DEF PinsInv, Register
  <2>3. \A p \in Pins : Detected(p)' => Detected(p)
    BY <2>1, <2>2 DEF Detected, Sampled, Register
  <2>4. gpioReg'["PININTR"] = gpioReg["PININTR"]
    BY <2>2 DEF Register
  <2>5. ASSUME NEW p \in Pins, Detected(p)'
        PROVE  gpioReg'["DATACHG"] /\ (gpioReg'["PININTR"] => notified')
    <3>1. detected
      BY <2>3, <2>5
    <3>2. QED
      BY <2>1, <2>2, <2>4, <3>1
  <2>6. QED
    BY <2>5 DEF ChangesLatched
<1>8. CASE GpioTimePasses
  BY <1>8, SameLook DEF GpioTimePasses
<1>9. ASSUME NEW p, NEW value, Outside(p, value)
      PROVE  ChangesLatched'
  BY <1>9, SameLook DEF Outside
<1>10. QED
  BY <1>1, <1>2, <1>3, <1>4, <1>5, <1>6, <1>7, <1>8, <1>9 DEF GpioNext

\* No level of an input whose edge is selected escapes gpio_thread: for any number of
\* pins, any accesses and any changes while it is on its way to the clock edge.
THEOREM ChangesLatchedAlways == Spec => []ChangesLatched
<1>1. Init => ChangesLatched
  BY DEF Init, GpioInit, ChangesLatched
<1>2. PinsInv /\ ChangesLatched /\ [Next]_vars => ChangesLatched'
  BY StepOfPart, GpioKeepsLatched
<1>3. QED
  BY <1>1, <1>2, PinsInvAlways, PTL DEF Spec

-----------------------------------------------------------------------------
(* Interrupt controller *)

\* pic_thread compares with the mask or with nothing.  (So the assertion on more
\* than one level in DONE, pic.cpp:486, never holds.)
LevelIsMask == level \in {<<>>, <<mask>>}

\* Popping and pushing the levels of an element or none.
LEMMA OneLevel ==
  ASSUME NEW a, NEW b, NEW s \in {<<>>, <<a>>}
  PROVE  /\ s # <<>> => Tail(s) = <<>>
         /\ Append(IF s = <<>> THEN s ELSE SubSeq(s, 1, Len(s) - 1), b) = <<b>>
<1>1. Tail(<<a>>) = <<>> /\ SubSeq(<<a>>, 1, Len(<<a>>) - 1) = <<>>
  OBVIOUS
<1>2. Append(<<>>, b) = <<b>>
  OBVIOUS
<1>3. QED
  BY <1>1, <1>2

\* Of the writes only DONE and TARGET touch the levels or the mask.
LEMMA PicWriteKeepsLevel ==
  ASSUME LevelIsMask, NEW a, PicWriteActions(a)
  PROVE  LevelIsMask'
<1>1. CASE UNCHANGED irqState
  BY <1>1 DEF irqState, LevelIsMask
<1>2. CASE WriteDone
  <2>1. level' \in {level, <<>>} /\ mask' = mask
    BY <1>2, OneLevel DEF WriteDone, LevelIsMask
  <2>2. QED
    BY <2>1 DEF LevelIsMask
<1>3. CASE WriteTarget
  <2>1. level' = Append(IF level = <<>> THEN level ELSE SubSeq(level, 1, Len(level) - 1), mask')
    BY <1>3 DEF WriteTarget
  <2>2. level' = <<mask'>>
    BY <2>1, OneLevel DEF LevelIsMask
  <2>3. QED
    BY <2>2 DEF LevelIsMask
<1>4. CASE WriteSelect
  BY <1>4 DEF WriteSelect, LevelIsMask
<1>5. CASE WriteSource
  BY <1>5 DEF WriteSource, OutOfRange, irqState, LevelIsMask
<1>6. CASE WriteTargets
  BY <1>6 DEF WriteTargets, OutOfRange, irqState, LevelIsMask
<1>7. QED
  BY <1>1, <1>2, <1>3, <1>4, <1>5, <1>6, PicAssumption DEF PicWriteActions

LEMMA PicReadKeepsLevel ==
  ASSUME NEW a, PicReadActions(a)
  PROVE  UNCHANGED <<level, mask>>
<1>1. ReadNext => UNCHANGED <<level, mask>>
  BY DEF ReadNext
<1>2. ReadTarget => UNCHANGED <<level, mask>>
  BY DEF ReadTarget
<1>3. OutOfRange => UNCHANGED <<level, mask>>
  BY DEF OutOfRange, irqState
<1>4. QED
  BY <1>1, <1>2, <1>3 DEF PicReadActions, irqState

LEMMA PicKeepsLevel ==
  ASSUME LevelIsMask, PicNext \/ UNCHANGED picVars
  PROVE  LevelIsMask'
<1>1. CASE UNCHANGED picVars
  BY <1>1 DEF picVars, irqState, LevelIsMask
<1>2. ASSUME NEW t, PicBTransport(t)
      PROVE  LevelIsMask'
  <2>1. CASE UNCHANGED irqState
    BY <2>1 DEF irqState, LevelIsMask
  <2>2. CASE PicTransport(t)
    BY <2>1, <2>2, PicWriteKeepsLevel, PicReadKeepsLevel DEF PicTransport, LevelIsMask
  <2>3. QED
    BY <1>2, <2>1, <2>2 DEF PicBTransport
<1>3. ASSUME NEW t, PicTransportDbg(t)
      PROVE  LevelIsMask'
  BY <1>3 DEF PicTransportDbg, irqState, LevelIsMask
<1>4. ASSUME NEW size, PicConfigure(size)
      PROVE  LevelIsMask'
  BY <1>4 DEF PicConfigure, irqState, LevelIsMask
<1>5. ASSUME NEW s, PicThread(s)
      PROVE  LevelIsMask'
  BY <1>5 DEF PicThread, LevelIsMask
<1>6. QED
  BY <1>1, <1>2, <1>3, <1>4, <1>5 DEF PicNext

-----------------------------------------------------------------------------
(* The choice of the next source *)

\* A set of naturals that is not empty has a least element.
LEMMA LeastNatural ==
  ASSUME NEW T \in SUBSET Nat, T # {}
  PROVE  \E n \in T : \A k \in T : n <= k
<1> DEFINE R == {p \in Nat \X Nat : p[1] < p[2]}
<1>1. IsWellFoundedOn(R, Nat)
  BY NatLessThanWellFounded DEF OpToRel
<1> HIDE DEF R
<1>2. PICK n \in T : \A k \in T : <<k, n>> \notin R
  BY <1>1, WFMin
<1>3. ASSUME NEW k \in T, ~(n <= k)
      PROVE  FALSE
  <2>1. <<k, n>> \in R
    BY <1>3 DEF R
  <2>2. QED
    BY <1>2, <2>1
<1>4. QED
  BY <1>3

\* The source that NEXT has to answer among those of a set.
IsBest(s, S) ==
  /\ s \in S
  /\ \A t \in S : \/ source[t].priority < source[s].priority
                  \/ source[t].priority = source[s].priority /\ s <= t

SourcesTyped == source \in [Sources -> Source] /\ mask \in Nat

LEMMA SourceFields ==
  ASSUME SourcesTyped
  PROVE  \A s \in Sources : /\ s \in 0 .. 31 /\ source[s].priority \in 0 .. 255
                            /\ source[s].pending \in BOOLEAN
<1>1. \A s \in Sources : s \in 0 .. 31
  BY PicAssumption DEF Sources, M
<1>2. \A s \in Sources : source[s] \in Source
  BY DEF SourcesTyped
<1>3. \A x \in Source : x.priority \in 0 .. 255 /\ x.pending \in BOOLEAN
  BY DEF Source
<1>4. QED
  BY <1>1, <1>2, <1>3, Zenon

\* There is one in every set: the first of the highest priority.
LEMMA BestExists ==
  ASSUME SourcesTyped, NEW S \in SUBSET Sources, S # {}
  PROVE  \E s \in S : IsBest(s, S)
<1> DEFINE key(t) == 32 * (255 - source[t].priority) + t
           keys == {key(t) : t \in S}
<1>1. \A t \in S : t \in 0 .. 31 /\ source[t].priority \in 0 .. 255
  BY SourceFields
<1>2. keys \in SUBSET Nat /\ keys # {}
  <2>1. \A p \in 0 .. 255, a \in 0 .. 31 : 32 * (255 - p) + a \in Nat
    OBVIOUS
  <2>2. \A t \in S : key(t) \in Nat
    BY <1>1, <2>1
  <2> HIDE DEF key
  <2>3. QED
    BY <2>2
<1>3. PICK n \in keys : \A k \in keys : n <= k
  <2> HIDE DEF keys
  <2>1. QED
    BY <1>2, LeastNatural
<1>4. PICK s \in S : n = key(s)
  OBVIOUS
<1>5. ASSUME NEW t \in S
      PROVE  \/ source[t].priority < source[s].priority
             \/ source[t].priority = source[s].priority /\ s <= t
  <2>1. key(s) <= key(t)
    BY <1>3, <1>4
  <2>2. \A p, q \in 0 .. 255, a, b \in 0 .. 31 :
          32 * (255 - p) + a <= 32 * (255 - q) + b => q < p \/ (q = p /\ a <= b)
    OBVIOUS
  <2>3. /\ source[s].priority \in 0 .. 255 /\ s \in 0 .. 31
        /\ source[t].priority \in 0 .. 255 /\ t \in 0 .. 31
    BY <1>1, <1>5
  <2>4. 32 * (255 - source[s].priority) + s <= 32 * (255 - source[t].priority) + t
    BY <2>1
  <2>5. QED
    BY <2>2, <2>3, <2>4, Zenon
<1>6. QED
  BY <1>5 DEF IsBest

LEMMA BestIsOne ==
  ASSUME SourcesTyped, NEW S \in SUBSET Sources, NEW s, NEW t, IsBest(s, S), IsBest(t, S)
  PROVE  s = t
<1>1. /\ s \in 0 .. 31 /\ source[s].priority \in 0 .. 255
      /\ t \in 0 .. 31 /\ source[t].priority \in 0 .. 255
  BY SourceFields DEF IsBest
<1>2. /\ \/ source[t].priority < source[s].priority
         \/ source[t].priority = source[s].priority /\ s <= t
      /\ \/ source[s].priority < source[t].priority
         \/ source[s].priority = source[t].priority /\ t <= s
  BY DEF IsBest
<1>3. \A p, q \in 0 .. 255 : p < q => ~(q < p) /\ q # p
  OBVIOUS
<1>4. s <= t /\ t <= s
  BY <1>1, <1>2, <1>3, Zenon
<1>5. QED
  BY <1>1, <1>4

\* What the loop has found when it has looked at the sources up to k.
UpTo(k) == {s \in Candidates : s <= k}
Choice(s) == [irq |-> s, priority |-> source[s].priority]
Nothing == [irq |-> InvalidIrq, priority |-> -1]
FoundUpTo(k) == IF UpTo(k) = {} THEN Nothing ELSE Choice(CHOOSE s : IsBest(s, UpTo(k)))

\* One turn of the loop, which found h before.
Turn(h, s) ==
  IF s = -1 THEN Nothing
  ELSE IF s \in Candidates /\ source[s].priority > h[s - 1].priority THEN Choice(s)
  ELSE h[s - 1]

LEMMA HighestUnfolds == Highest = CHOOSE h : h = [s \in -1 .. MaxIrq |-> Turn(h, s)]
  BY DEF Highest, Turn, Nothing, Choice

LEMMA BestUpTo ==
  ASSUME SourcesTyped, NEW k, NEW s, IsBest(s, UpTo(k))
  PROVE  FoundUpTo(k) = Choice(s)
<1>1. UpTo(k) \in SUBSET Sources /\ UpTo(k) # {}
  BY DEF UpTo, Candidates, IsBest
<1>2. \A t : IsBest(t, UpTo(k)) => t = s
  BY <1>1, BestIsOne
<1>3. (CHOOSE t : IsBest(t, UpTo(k))) = s
  BY <1>2
<1>4. QED
  BY <1>1, <1>3 DEF FoundUpTo

\* What is best so far is best still, unless the new source has a higher priority.
LEMMA TurnFindsBest ==
  ASSUME SourcesTyped, NEW s \in 0 .. MaxIrq
  PROVE  FoundUpTo(s) =
           IF s \in Candidates /\ source[s].priority > FoundUpTo(s - 1).priority
             THEN Choice(s) ELSE FoundUpTo(s - 1)
<1>1. /\ s \in 0 .. 31
      /\ \A t \in Candidates : t \in 0 .. 31 /\ source[t].priority \in 0 .. 255
  BY SourceFields, PicAssumption DEF Candidates, M
<1>2. UpTo(s - 1) \in SUBSET Sources
  BY DEF UpTo, Candidates
<1>3. CASE s \notin Candidates
  <2>1. UpTo(s) = UpTo(s - 1)
    BY <1>1, <1>3 DEF UpTo
  <2>2. QED
    BY <1>3, <2>1 DEF FoundUpTo
<1>4. CASE s \in Candidates /\ UpTo(s - 1) = {}
  <2>1. \A t \in UpTo(s) : t = s
    BY <1>1, <1>4 DEF UpTo
  <2>2. IsBest(s, UpTo(s))
    BY <1>1, <1>4, <2>1 DEF IsBest, UpTo
  <2>3. FoundUpTo(s - 1).priority = -1
    BY <1>4 DEF FoundUpTo, Nothing
  <2>4. source[s].priority > -1
    BY <1>1, <1>4
  <2>5. QED
    BY <1>4, <2>2, <2>3, <2>4, BestUpTo
<1>5. CASE s \in Candidates /\ UpTo(s - 1) # {}
  <2>1. PICK b \in UpTo(s - 1) : IsBest(b, UpTo(s - 1))
    BY <1>2, <1>5, BestExists
  <2>2. FoundUpTo(s - 1) = Choice(b)
    BY <2>1, BestUpTo
  <2>3. FoundUpTo(s - 1).priority = source[b].priority
    BY <2>2 DEF Choice
  <2>4. /\ b \in 0 .. 31 /\ source[b].priority \in 0 .. 255 /\ b <= s - 1
        /\ source[s].priority \in 0 .. 255
    BY <1>1, <1>5, <2>1 DEF UpTo
  <2>5. s \in UpTo(s) /\ b \in UpTo(s) /\ \A t \in UpTo(s) : t = s \/ t \in UpTo(s - 1)
    BY <1>1, <1>5, <2>1 DEF UpTo
  <2>6. CASE source[s].priority > source[b].priority
    <3>1. ASSUME NEW t \in UpTo(s)
          PROVE  \/ source[t].priority < source[s].priority
                 \/ source[t].priority = source[s].priority /\ s <= t
      <4>1. CASE t = s
        BY <1>1, <4>1
      <4>2. CASE t \in UpTo(s - 1)
        <5>1. source[t].priority \in 0 .. 255
          BY <1>1, <4>2 DEF UpTo
        <5>2. source[t].priority < source[b].priority \/ source[t].priority = source[b].priority
          BY <2>1, <4>2 DEF IsBest
        <5>3. \A x, y, z \in 0 .. 255 : (x < y \/ x = y) /\ z > y => x < z
          OBVIOUS
        <5>4. QED
          BY <2>4, <2>6, <5>1, <5>2, <5>3, Zenon
      <4>3. QED
        BY <2>5, <3>1, <4>1, <4>2
    <3>2. IsBest(s, UpTo(s))
      BY <2>5, <3>1 DEF IsBest
    <3>3. QED
      BY <1>5, <2>3, <2>6, <3>2, BestUpTo
  <2>7. CASE ~(source[s].priority > source[b].priority)
    <3>1. ASSUME NEW t \in UpTo(s)
          PROVE  \/ source[t].priority < source[b].priority
                 \/ source[t].priority = source[b].priority /\ b <= t
      <4>1. CASE t = s
        <5>1. \A x, y \in 0 .. 255 : ~(x > y) => x < y \/ x = y
          OBVIOUS
        <5>2. source[s].priority < source[b].priority \/ source[s].priority = source[b].priority
          BY <2>4, <2>7, <5>1, Zenon
        <5>3. b <= s
          BY <1>1, <2>4
        <5>4. QED
          BY <4>1, <5>2, <5>3, Zenon
      <4>2. CASE t \in UpTo(s - 1)
        BY <2>1, <4>2 DEF IsBest
      <4>3. QED
        BY <2>5, <3>1, <4>1, <4>2
    <3>2. IsBest(b, UpTo(s))
      BY <2>5, <3>1 DEF IsBest
    <3>3. QED
      BY <2>2, <2>3, <2>7, <3>2, BestUpTo
  <2>8. QED
    BY <2>6, <2>7
<1>6. QED
  BY <1>3, <1>4, <1>5

\* A function that takes each value from the one below it is determined by that; a
\* least number at which two of them differ would have to be the first.
LEMMA LoopIsDetermined ==
  ASSUME SourcesTyped, NEW h, h = [s \in -1 .. MaxIrq |-> Turn(h, s)],
         NEW k \in -1 .. MaxIrq
  PROVE  h[k] = FoundUpTo(k)
<1> DEFINE wrong == {n \in 0 .. MaxIrq + 1 : h[n - 1] # FoundUpTo(n - 1)}
<1>1. MaxIrq \in Nat
  BY PicAssumption
<1>2. SUFFICES ASSUME wrong # {}
               PROVE  FALSE
  <2>1. k + 1 \in 0 .. MaxIrq + 1 /\ (k + 1) - 1 = k
    BY <1>1
  <2>2. QED
    BY <1>2, <2>1
<1>3. PICK n \in wrong : \A m \in wrong : n <= m
  <2>1. wrong \in SUBSET Nat
    BY <1>1
  <2> HIDE DEF wrong
  <2>2. QED
    BY <1>2, <2>1, LeastNatural
<1>4. n \in 0 .. MaxIrq + 1 /\ h[n - 1] # FoundUpTo(n - 1)
  OBVIOUS
<1>5. n - 1 \in -1 .. MaxIrq
  BY <1>1, <1>4
<1>6. h[n - 1] = Turn(h, n - 1)
  BY <1>5
<1>7. CASE n = 0
  <2>1. UpTo(-1) = {}
    BY <1>1 DEF UpTo, Candidates, Sources
  <2>2. h[-1] = Nothing
    BY <1>6, <1>7 DEF Turn
  <2>3. QED
    BY <1>4, <1>7, <2>1, <2>2 DEF FoundUpTo
<1>8. CASE n # 0
  <2> DEFINE s == n - 1
  <2>1. s \in 0 .. MaxIrq /\ s # -1 /\ n - 1 = s
    BY <1>1, <1>4, <1>8
  <2>2. s \in 0 .. MaxIrq + 1 /\ ~(n <= s)
    BY <1>1, <1>4, <2>1
  <2>3. h[s - 1] = FoundUpTo(s - 1)
    BY <1>3, <2>2
  <2> HIDE DEF s
  <2>4. Turn(h, s) = IF s \in Candidates /\ source[s].priority > FoundUpTo(s - 1).priority
                       THEN Choice(s) ELSE FoundUpTo(s - 1)
    BY <2>1, <2>3 DEF Turn
  <2>5. QED
    BY <1>4, <1>6, <2>1, <2>4, TurnFindsBest
<1>9. QED
  BY <1>7, <1>8

\* The loop ends with the best candidate, or with nothing if there is none.
LEMMA LoopFindsBest ==
  ASSUME SourcesTyped
  PROVE  IF Candidates = {} THEN Highest[MaxIrq].irq = InvalidIrq
                            ELSE IsBest(Highest[MaxIrq].irq, Candidates)
<1> DEFINE g == [s \in -1 .. MaxIrq |-> FoundUpTo(s)]
<1>1. MaxIrq \in Nat
  BY PicAssumption
<1>2. g = [s \in -1 .. MaxIrq |-> Turn(g, s)]
  <2>1. ASSUME NEW s \in -1 .. MaxIrq
        PROVE  FoundUpTo(s) = Turn(g, s)
    <3>1. CASE s = -1
      <4>1. UpTo(-1) = {}
        BY <1>1 DEF UpTo, Candidates, Sources
      <4>2. QED
        BY <3>1, <4>1 DEF FoundUpTo, Turn
    <3>2. CASE s # -1
      <4>1. s \in 0 .. MaxIrq /\ s - 1 \in -1 .. MaxIrq
        BY <1>1, <2>1, <3>2
      <4>2. g[s - 1] = FoundUpTo(s - 1)
        BY <4>1
      <4> HIDE DEF g
      <4>3. QED
        BY <3>2, <4>1, <4>2, TurnFindsBest DEF Turn
    <3>3. QED
      BY <3>1, <3>2
  <2>2. QED
    BY <2>1
<1> HIDE DEF g
<1>3. Highest = [s \in -1 .. MaxIrq |-> Turn(Highest, s)]
  BY <1>2, HighestUnfolds
<1>4. Highest[MaxIrq] = FoundUpTo(MaxIrq)
  <2>1. MaxIrq \in -1 .. MaxIrq
    BY <1>1
  <2>2. QED
    BY <1>3, <2>1, LoopIsDetermined
<1>5. UpTo(MaxIrq) = Candidates
  BY <1>1 DEF UpTo, Candidates, Sources
<1>6. CASE Candidates = {}
  BY <1>4, <1>5, <1>6 DEF FoundUpTo, Nothing
<1>7. CASE Candidates # {}
  <2>1. PICK b \in Candidates : IsBest(b, Candidates)
    BY <1>7, BestExists DEF Candidates
  <2>2. FoundUpTo(MaxIrq) = Choice(b)
    BY <1>5, <2>1, BestUpTo
  <2>3. QED
    BY <1>4, <1>7, <2>1, <2>2 DEF Choice
<1>8. QED
  BY <1>6, <1>7

\* The types that an access of a register can disturb, without the levels.
IrqTypes ==
  /\ source \in [Sources -> Source] /\ targeted \in [Sources -> BOOLEAN]
  /\ clearall \in BOOLEAN /\ enabled \in BOOLEAN /\ mask \in 0 .. 255
  /\ select \in Sources \cup {M} /\ next \in Sources \cup {InvalidIrq}
  /\ fatal \in BOOLEAN

Outcomes == {"none", "answered", "notified"}

PicInv ==
  /\ IrqTypes /\ LevelIsMask
  /\ picSize \in Nat /\ outcome \in Outcomes /\ picResponse \in Responses

\* Changing a flag leaves a source.
LEMMA FlagKeepsSource ==
  ASSUME NEW x \in Source, NEW b \in BOOLEAN
  PROVE  /\ [x EXCEPT !.active = b] \in Source
         /\ [x EXCEPT !.pending = b] \in Source
         /\ [x EXCEPT !.pending = b, !.active = b] \in Source
  BY DEF Source

LEMMA FlagKeepsSources ==
  ASSUME source \in [Sources -> Source], NEW s \in Sources, NEW b \in BOOLEAN
  PROVE  /\ [source EXCEPT ![s].active = b] \in [Sources -> Source]
         /\ [source EXCEPT ![s].pending = b] \in [Sources -> Source]
<1>1. [source[s] EXCEPT !.active = b] \in Source /\ [source[s] EXCEPT !.pending = b] \in Source
  BY FlagKeepsSource
<1>2. /\ [source EXCEPT ![s].active = b] = [source EXCEPT ![s] = [source[s] EXCEPT !.active = b]]
      /\ [source EXCEPT ![s].pending = b] = [source EXCEPT ![s] = [source[s] EXCEPT !.pending = b]]
  OBVIOUS
<1>3. \A x \in Source : [source EXCEPT ![s] = x] \in [Sources -> Source]
  OBVIOUS
<1>4. QED
  BY <1>1, <1>2, <1>3

LEMMA PicWriteKeepsTypes ==
  ASSUME PicInv, NEW a, PicWriteActions(a)
  PROVE  IrqTypes'
<1>0. IrqTypes /\ next' = next
  BY DEF PicInv, PicWriteActions
<1>1. CASE UNCHANGED irqState /\ fatal' \in BOOLEAN
  BY <1>0, <1>1 DEF irqState, IrqTypes
<1>2. CASE WriteDone
  <2>1. CASE select \in Sources
    <3>1. source' = [source EXCEPT ![select].active = FALSE]
      BY <1>2, <2>1 DEF WriteDone
    <3>2. source' \in [Sources -> Source]
      BY <1>0, <2>1, <3>1, FlagKeepsSources DEF IrqTypes
    <3>3. QED
      BY <1>0, <1>2, <3>2 DEF WriteDone, IrqTypes
  <2>2. CASE select \notin Sources
    BY <1>0, <1>2, <2>2 DEF WriteDone, IrqTypes
  <2>3. QED
    BY <2>1, <2>2
<1>3. CASE WriteTarget
  <2>1. PICK nonzero \in BOOLEAN :
          /\ clearall' = nonzero /\ enabled' = nonzero
          /\ mask' = IF nonzero THEN 1 ELSE 0
          /\ source' = IF nonzero
                         THEN [s \in Sources |->
                                [source[s] EXCEPT !.pending = FALSE, !.active = FALSE]]
                         ELSE source
    BY <1>3 DEF WriteTarget
  <2>2. \A s \in Sources : [source[s] EXCEPT !.pending = FALSE, !.active = FALSE] \in Source
    BY <1>0, FlagKeepsSource DEF IrqTypes
  <2>3. source' \in [Sources -> Source]
    BY <1>0, <2>1, <2>2 DEF IrqTypes
  <2>4. mask' \in 0 .. 255
    <3>1. mask' = 0 \/ mask' = 1
      BY <2>1, Zenon
    <3>2. QED
      BY <3>1
  <2>5. UNCHANGED <<targeted, select, fatal>>
    BY <1>3 DEF WriteTarget
  <2>6. QED
    BY <1>0, <2>1, <2>3, <2>4, <2>5, Zenon DEF IrqTypes
<1>4. CASE WriteSelect
  BY <1>0, <1>4 DEF WriteSelect, IrqTypes
<1>5. CASE WriteSource /\ select \in Sources
  <2>1. PICK pending \in BOOLEAN, on \in BOOLEAN, priority \in Priorities :
          source' = [source EXCEPT ![select] =
                      [@ EXCEPT !.pending = pending, !.enabled = on, !.priority = priority]]
    BY <1>5 DEF WriteSource
  <2>2. priority \in 0 .. 255
    BY PicAssumption
  <2>3. \A x \in Source :
          [x EXCEPT !.pending = pending, !.enabled = on, !.priority = priority] \in Source
    BY <2>2 DEF Source
  <2>4. source' \in [Sources -> Source]
    BY <1>0, <1>5, <2>1, <2>3 DEF IrqTypes
  <2>5. QED
    BY <1>0, <1>5, <2>4 DEF WriteSource, IrqTypes
<1>6. CASE WriteTargets /\ select \in Sources
  BY <1>0, <1>6 DEF WriteTargets, IrqTypes
<1>7. CASE (WriteSource \/ WriteTargets) /\ select \notin Sources
  BY <1>1, <1>7 DEF WriteSource, WriteTargets, OutOfRange
<1>8. QED
  BY <1>1, <1>2, <1>3, <1>4, <1>5, <1>6, <1>7, PicAssumption DEF PicWriteActions

LEMMA TypedSources == IrqTypes => SourcesTyped
  BY DEF IrqTypes, SourcesTyped

LEMMA PicReadKeepsTypes ==
  ASSUME PicInv, NEW a, PicReadActions(a)
  PROVE  IrqTypes'
<1>0. IrqTypes
  BY DEF PicInv
<1>1. CASE UNCHANGED <<irqState, next>> /\ fatal' \in BOOLEAN
  BY <1>0, <1>1 DEF irqState, IrqTypes
<1>2. CASE ReadNext
  <2>1. next' = Highest[MaxIrq].irq
    BY <1>2 DEF ReadNext
  <2>2. next' \in Sources \cup {InvalidIrq}
    BY <1>0, <2>1, LoopFindsBest, TypedSources DEF IsBest, Candidates
  <2>3. CASE next' = InvalidIrq
    BY <1>0, <1>2, <2>2, <2>3 DEF ReadNext, IrqTypes
  <2>4. CASE next' # InvalidIrq
    <3>1. source' = [source EXCEPT ![next'].active = TRUE] /\ next' \in Sources
      BY <1>2, <2>2, <2>4 DEF ReadNext
    <3>2. source' \in [Sources -> Source]
      BY <1>0, <3>1, FlagKeepsSources DEF IrqTypes
    <3>3. QED
      BY <1>0, <1>2, <2>2, <3>2 DEF ReadNext, IrqTypes
  <2>5. QED
    BY <2>3, <2>4
<1>3. CASE ReadTarget
  BY <1>0, <1>3 DEF ReadTarget, IrqTypes
<1>4. OutOfRange /\ UNCHANGED next => UNCHANGED <<irqState, next>> /\ fatal' \in BOOLEAN
  BY DEF OutOfRange
<1>5. QED
  BY <1>1, <1>2, <1>3, <1>4 DEF PicReadActions

LEMMA PicKeepsTypes ==
  ASSUME PicInv, PicNext \/ UNCHANGED picVars
  PROVE  PicInv'
<1>0. LevelIsMask' /\ IrqTypes
  BY PicKeepsLevel DEF PicInv
\* Steps that change no more than the other three variables.
<1>1. ASSUME UNCHANGED <<irqState, next, fatal>>, outcome' \in Outcomes, picSize' \in Nat,
             picResponse' \in Responses
      PROVE  PicInv'
  BY <1>0, <1>1 DEF PicInv, IrqTypes, irqState
<1>2. CASE UNCHANGED picVars
  BY <1>1, <1>2 DEF picVars, PicInv
<1>3. ASSUME NEW t \in Payloads, PicBTransport(t)
      PROVE  PicInv'
  <2>1. /\ UNCHANGED picSize /\ outcome' \in Outcomes
        /\ picResponse' \in Responses
    BY <1>3 DEF PicBTransport, RegisterResponse, Responses, Outcomes
  <2>2. CASE UNCHANGED <<irqState, next, fatal>>
    BY <1>1, <2>1, <2>2 DEF PicInv
  <2>3. CASE PicTransport(t)
    <3>1. CASE t.command = "write"
      BY <1>0, <2>1, <2>3, <3>1, PicWriteKeepsTypes DEF PicTransport, PicInv
    <3>2. CASE t.command = "read"
      BY <1>0, <2>1, <2>3, <3>2, PicReadKeepsTypes DEF PicTransport, PicInv
    <3>3. CASE t.command \notin {"write", "read"}
      BY <2>2, <2>3, <3>3 DEF PicTransport
    <3>4. QED
      BY <3>1, <3>2, <3>3
  <2>4. QED
    BY <1>3, <2>2, <2>3 DEF PicBTransport
<1>4. ASSUME NEW t \in Payloads, PicTransportDbg(t)
      PROVE  PicInv'
  <2>1. picResponse' \in Responses
    BY <1>4, DebugResponseIsOne DEF PicTransportDbg, PicInv
  <2>2. QED
    BY <1>1, <1>4, <2>1 DEF PicTransportDbg, PicInv, Outcomes
<1>5. ASSUME NEW size \in Sizes \cup {0}, PicConfigure(size)
      PROVE  PicInv'
  <2>1. size \in Nat
    BY PortAssumption
  <2>2. QED
    BY <1>1, <1>5, <2>1 DEF PicConfigure, PicInv, Responses, Outcomes
<1>6. ASSUME NEW s \in Sources, PicThread(s)
      PROVE  PicInv'
  <2>1. source' = [source EXCEPT ![s].pending = TRUE]
    BY <1>6 DEF PicThread
  <2>2. source' \in [Sources -> Source]
    BY <1>0, <2>1, FlagKeepsSources DEF IrqTypes
  <2>3. outcome' \in Outcomes /\ fatal' \in BOOLEAN
    BY <1>6 DEF PicThread, Outcomes
  <2>4. QED
    BY <1>0, <1>6, <2>2, <2>3 DEF PicThread, PicInv, IrqTypes
<1>7. QED
  BY <1>2, <1>3, <1>4, <1>5, <1>6 DEF PicNext

LEMMA PicStarts == Init => PicInv
<1> SUFFICES ASSUME Init PROVE PicInv
  OBVIOUS
<1>0. PicInit
  BY DEF Init
<1>1. source \in [Sources -> Source]
  BY <1>0 DEF PicInit, Source
<1>2. picSize \in Nat
  BY <1>0, PortAssumption DEF PicInit
<1>3. targeted \in [Sources -> BOOLEAN] /\ level = <<>> /\ mask = 0
  BY <1>0 DEF PicInit
<1>4. IrqTypes
  <2>1. 0 \in 0 .. 255
    OBVIOUS
  <2>2. QED
    BY <1>0, <1>1, <1>3, <2>1, Zenon DEF PicInit, IrqTypes
<1>5. QED
  BY <1>0, <1>2, <1>3, <1>4 DEF PicInit, PicInv, LevelIsMask, Responses, Outcomes

LEMMA PicInvAlways == Spec => []PicInv
<1>1. Init => PicInv
  BY PicStarts
<1>2. PicInv /\ [Next]_vars => PicInv'
  BY StepOfPart, PicKeepsTypes
<1>3. QED
  BY <1>1, <1>2, PTL DEF Spec

LEMMA PicInvTypes == PicInv => PicTypeOK
<1> SUFFICES ASSUME PicInv PROVE PicTypeOK
  OBVIOUS
<1>1. \A m \in 0 .. 255 : <<m>> \in Seq(0 .. 255) /\ <<>> \in Seq(0 .. 255)
  OBVIOUS
<1>2. level \in Seq(0 .. 255)
  BY <1>1 DEF PicInv, IrqTypes, LevelIsMask
<1>3. QED
  BY <1>2 DEF PicInv, IrqTypes, PicTypeOK, Outcomes

\* The processor is notified only for a source that it asked for and that NEXT lets
\* pass, as long as there is a level to compare with: for any number of sources and
\* ports and any order of writes of TARGET, DONE, SOURCE and TARGETS.
THEOREM NotifiedForSomethingAlways == Spec => []NotifiedForSomething
<1>1. Init => NotifiedForSomething
  BY DEF Init, PicInit, NotifiedForSomething
<1>2. PicInv /\ NotifiedForSomething /\ [Next]_vars => NotifiedForSomething'
  <2> SUFFICES ASSUME PicInv, NotifiedForSomething, PicNext \/ UNCHANGED picVars
               PROVE  NotifiedForSomething'
    BY StepOfPart
  <2>1. CASE UNCHANGED picVars
    BY <2>1 DEF picVars, irqState, NotifiedForSomething
  <2>2. CASE \/ \E t \in Payloads : PicBTransport(t) \/ PicTransportDbg(t)
             \/ \E size \in Sizes \cup {0} : PicConfigure(size)
    <3>1. outcome' # "notified"
      BY <2>2 DEF PicBTransport, PicTransportDbg, PicConfigure
    <3>2. QED
      BY <3>1 DEF NotifiedForSomething
  <2>3. ASSUME NEW s \in Sources, PicThread(s), outcome' = "notified", level' # <<>>
        PROVE  /\ source'[s].pending /\ source'[s].enabled /\ targeted'[s]
               /\ source'[s].priority > mask'
    <3>1. PICK unmasked \in Unmasked(s) :
            outcome' = IF (source[s].enabled /\ targeted[s] /\ unmasked) /\ s < PicSends
                         THEN "notified" ELSE "none"
      BY <2>3 DEF PicThread
    <3>2. source[s].enabled /\ targeted[s] /\ unmasked
      BY <2>3, <3>1
    <3>3. /\ source' = [source EXCEPT ![s].pending = TRUE]
          /\ UNCHANGED <<targeted, mask, level>>
      BY <2>3 DEF PicThread
    <3>4. level = <<mask>>
      BY <2>3, <3>3 DEF PicInv, LevelIsMask
    <3>5. source[s].priority > mask
      <4>1. Unmasked(s) = {source[s].priority > Head(level)} /\ Head(level) = mask
        BY <3>4 DEF Unmasked
      <4>2. QED
        BY <3>2, <4>1
    <3>6. source[s] \in Source /\ source'[s] = [source[s] EXCEPT !.pending = TRUE]
      BY <3>3 DEF PicInv, IrqTypes
    <3>7. source'[s].pending /\ source'[s].enabled = source[s].enabled
          /\ source'[s].priority = source[s].priority
      BY <3>6 DEF Source
    <3>8. QED
      BY <3>2, <3>3, <3>5, <3>7
  <2>4. QED
    BY <2>1, <2>2, <2>3 DEF PicNext, NotifiedForSomething
<1>3. QED
  BY <1>1, <1>2, PicInvAlways, PTL DEF Spec

\* Every read of NEXT answers the pending source of the highest priority above the
\* mask and the first among equals, makes it active, and answers the invalid number
\* only if there is none: for any number of sources and any priorities.
THEOREM NextIsHighestAlways == Spec => NextIsHighest
<1> DEFINE qualified == {s \in Sources : source[s].pending /\ source[s].priority > mask}
           best == IF qualified = {} THEN next' = InvalidIrq
                   ELSE /\ next' \in qualified
                        /\ source'[next'].active
                        /\ \A s \in qualified :
                             \/ source[s].priority < source[next'].priority
                             \/ source[s].priority = source[next'].priority /\ next' <= s
<1>1. ASSUME PicInv, ReadNext
      PROVE  best
  <2>1. next' = Highest[MaxIrq].irq
    BY <1>1 DEF ReadNext
  <2>2. IF Candidates = {} THEN next' = InvalidIrq ELSE IsBest(next', Candidates)
    BY <1>1, <2>1, LoopFindsBest, TypedSources DEF PicInv
  <2>3. ASSUME next' \in Candidates
        PROVE  source'[next'].active
    <3>1. next' \in Sources /\ next' # InvalidIrq
      BY <2>3, PicAssumption DEF Candidates, Sources, InvalidIrq, M
    <3>2. source' = [source EXCEPT ![next'].active = TRUE] /\ source[next'] \in Source
      BY <1>1, <3>1 DEF ReadNext, PicInv, IrqTypes
    <3>3. source'[next'] = [source[next'] EXCEPT !.active = TRUE]
      BY <1>1, <3>1, <3>2 DEF PicInv, IrqTypes
    <3>4. QED
      BY <3>2, <3>3 DEF Source
  <2>4. qualified = Candidates
    BY DEF Candidates
  <2> HIDE DEF qualified
  <2>5. QED
    BY <2>2, <2>3, <2>4 DEF IsBest
<1>2. ASSUME PicNext, outcome' = "answered"
      PROVE  ReadNext
  <2>1. PICK t \in Payloads : PicBTransport(t)
    BY <1>2 DEF PicNext, PicTransportDbg, PicConfigure, PicThread
  <2>2. PicPayloadIsOk(t, t.length) /\ t.command = "read" /\ t.address = 0
    BY <1>2, <2>1 DEF PicBTransport
  <2>3. QED
    BY <2>1, <2>2 DEF PicBTransport, PicTransport, PicReadActions
<1>3. PicInv /\ [Next]_vars => (outcome' = "answered" => best) \/ UNCHANGED picVars
  BY StepOfPart, <1>1, <1>2
<1>4. QED
  BY <1>3, PicInvAlways, PTL DEF Spec, NextIsHighest

-----------------------------------------------------------------------------
(* Serial port *)

\* The counters are numbers, and FifoConserved.
UartInv ==
  /\ used \in Int /\ txdropped \in Nat /\ written \in Nat
  /\ FifoConserved

LEMMA UartTransportKeepsFifo ==
  ASSUME UartInv, UNCHANGED txspeed, NEW t, UartTransport(t)
  PROVE  UartInv'
<1>1. CASE UNCHANGED fifo
  BY <1>1 DEF fifo, UartInv, FifoConserved
<1>2. CASE WriteTxctrl
  <2>1. /\ UNCHANGED <<txdropped, written>>
        /\ used' = used \/ (txspeed = "VIRTUAL" /\ used' = Popped(used))
    BY <1>2 DEF WriteTxctrl, Send
  <2>2. Popped(used) \in Int
    BY DEF Popped, UartInv
  <2>3. QED
    BY <2>1, <2>2 DEF UartInv, FifoConserved
<1>3. CASE WriteTxdata
  <2>1. CASE used = Capacity
    BY <1>3, <2>1, UartAssumption DEF WriteTxdata, UartInv, FifoConserved
  <2>2. CASE used # Capacity
    <3>1. /\ written' = written + 1 /\ txdropped' = txdropped
          /\ used' = used + 1 \/ (txspeed = "VIRTUAL" /\ used' = Popped(used + 1))
      BY <1>3, <2>2 DEF WriteTxdata, Send
    <3>2. Popped(used + 1) \in Int
      BY DEF Popped, UartInv
    <3>3. QED
      BY <2>2, <3>1, <3>2, UartAssumption DEF UartInv, FifoConserved
  <2>3. QED
    BY <2>1, <2>2
<1>4. WriteRxctrl \/ ReadTxctrl \/ ReadRxctrl => UNCHANGED fifo
  BY DEF WriteRxctrl, ReadTxctrl, ReadRxctrl
<1>5. QED
  BY <1>1, <1>2, <1>3, <1>4 DEF UartTransport, UartWriteActions, UartReadActions

LEMMA UartKeepsFifo ==
  ASSUME UartInv, UartNext \/ UNCHANGED uartVars
  PROVE  UartInv'
<1>1. CASE UNCHANGED uartVars
  BY <1>1 DEF uartVars, fifo, UartInv, FifoConserved
<1>2. ASSUME NEW t, UartBTransport(t)
      PROVE  UartInv'
  <2>1. UNCHANGED txspeed
    BY <1>2 DEF UartBTransport, UartAccess
  <2>2. CASE UartTransport(t)
    BY <2>1, <2>2, UartTransportKeepsFifo
  <2>3. CASE UNCHANGED fifo
    BY <2>1, <2>3 DEF fifo, UartInv, FifoConserved
  <2>4. QED
    BY <1>2, <2>2, <2>3 DEF UartBTransport
<1>3. ASSUME NEW t, UartTransportDbg(t)
      PROVE  UartInv'
  BY <1>3 DEF UartTransportDbg, UartAccess, fifo, UartInv, FifoConserved
<1>4. ASSUME NEW size, UartConfigure(size)
      PROVE  UartInv'
  BY <1>4 DEF UartConfigure, UartAccess, fifo, UartInv, FifoConserved
<1>5. CASE TxThread \/ RxThread
  BY <1>5 DEF TxThread, RxThread, fifo, UartInv, FifoConserved
<1>6. QED
  BY <1>1, <1>2, <1>3, <1>4, <1>5 DEF UartNext

\* With a port to send to, what is written is in the fifo or counted as dropped, for
\* every capacity and any order of data, starts, stops and bad control words.
THEOREM FifoConservedAlways == Spec => []FifoConserved
<1>1. Init => UartInv
  BY UartAssumption DEF Init, UartInit, UartInv, FifoConserved
<1>2. UartInv /\ [Next]_vars => UartInv'
  BY StepOfPart, UartKeepsFifo
<1>3. UartInv => FifoConserved
  BY DEF UartInv
<1>4. QED
  BY <1>1, <1>2, <1>3, PTL DEF Spec

-----------------------------------------------------------------------------
(* Configured target *)

\* A configuration: three fields, and the required fields are keys.
IsConfiguration(c) ==
  /\ c = [data |-> c.data, dflt |-> c.dflt, reqd |-> c.reqd]
  /\ c.reqd \subseteq DOMAIN c.dflt

StubInv == IsConfiguration(stub) /\ IsConfiguration(extn)

\* Changing the values alone leaves a configuration.
LEMMA DataKeepsKeys ==
  ASSUME NEW c, IsConfiguration(c), NEW d
  PROVE  /\ IsConfiguration([c EXCEPT !.data = d])
         /\ [c EXCEPT !.data = d].data = d
  BY DEF IsConfiguration

\* Changing the keys leaves a configuration if the required ones are among them.
LEMMA KeysChanged ==
  ASSUME NEW c, IsConfiguration(c), NEW d, NEW r, r \subseteq DOMAIN d
  PROVE  IsConfiguration([c EXCEPT !.dflt = d, !.reqd = r])
<1> DEFINE e == [c EXCEPT !.dflt = d]
<1>1. e = [data |-> c.data, dflt |-> d, reqd |-> c.reqd]
  BY DEF IsConfiguration
<1>2. \A x, y, z :
        [[data |-> x, dflt |-> y, reqd |-> z] EXCEPT !.reqd = r]
          = [data |-> x, dflt |-> y, reqd |-> r]
  OBVIOUS
<1>3. [c EXCEPT !.dflt = d, !.reqd = r] = [e EXCEPT !.reqd = r]
  BY DEF IsConfiguration
<1> HIDE DEF e
<1>4. [e EXCEPT !.reqd = r] = [data |-> c.data, dflt |-> d, reqd |-> r]
  BY <1>1, <1>2
<1>5. QED
  BY <1>3, <1>4 DEF IsConfiguration

LEMMA KeysKeepRequired ==
  ASSUME NEW c, IsConfiguration(c), NEW field, NEW v, NEW reqd
  PROVE  /\ IsConfiguration(AddKey(c, field, v, reqd))
         /\ IsConfiguration(DelKey(c, field))
         /\ IsConfiguration(ClearKeys(c))
<1>1. IsConfiguration(AddKey(c, field, v, reqd))
  <2> DEFINE added == With(c.dflt, field, v)
             required == IF reqd THEN c.reqd \cup {field} ELSE c.reqd
  <2>1. DOMAIN added = {field} \cup DOMAIN c.dflt
    BY DEF With, Overwritten
  <2>2. required \subseteq DOMAIN added
    BY <2>1 DEF IsConfiguration
  <2>3. AddKey(c, field, v, reqd) \in {c, [c EXCEPT !.dflt = added, !.reqd = required]}
    BY DEF AddKey
  <2> HIDE DEF added, required
  <2>4. IsConfiguration([c EXCEPT !.dflt = added, !.reqd = required])
    BY <2>2, KeysChanged
  <2>5. QED
    BY <2>3, <2>4
<1>2. IsConfiguration(DelKey(c, field))
  <2> DEFINE kept == [f \in DOMAIN c.dflt \ {field} |-> c.dflt[f]]
  <2>1. c.reqd \ {field} \subseteq DOMAIN kept
    BY DEF IsConfiguration
  <2>2. DelKey(c, field) = [c EXCEPT !.dflt = kept, !.reqd = c.reqd \ {field}]
    BY DEF DelKey
  <2> HIDE DEF kept
  <2>3. IsConfiguration([c EXCEPT !.dflt = kept, !.reqd = c.reqd \ {field}])
    BY <2>1, KeysChanged
  <2>4. QED
    BY <2>2, <2>3
<1>3. IsConfiguration(ClearKeys(c))
  <2>1. IsConfiguration([c EXCEPT !.dflt = <<>>, !.reqd = {}])
    BY KeysChanged
  <2>2. QED
    BY <2>1 DEF ClearKeys
<1>4. QED
  BY <1>1, <1>2, <1>3

\* The constructor, the proxy and every operation on the values leave one.
LEMMA OperationsKeepKeys ==
  ASSUME NEW c, IsConfiguration(c), NEW field, NEW v, NEW rhs
  PROVE  /\ IsConfiguration(Set(c, field, v))
         /\ IsConfiguration(Erase(c, field))
         /\ IsConfiguration(ClearData(c))
         /\ IsConfiguration(Update(c, rhs))
<1>1. IsConfiguration(Set(c, field, v))
  BY DataKeepsKeys DEF Set
<1>2. IsConfiguration(Erase(c, field)) /\ IsConfiguration(ClearData(c))
  BY DataKeepsKeys DEF Erase, ClearData
<1>3. IsConfiguration(Update(c, rhs))
  BY DataKeepsKeys DEF Update
<1>4. QED
  BY <1>1, <1>2, <1>3

LEMMA Originals ==
  IsConfiguration(Empty) /\ IsConfiguration(Constructed) /\ IsConfiguration(Proxied)
<1>1. IsConfiguration(Empty)
  BY StubAssumption DEF Empty, IsConfiguration
<1>2. QED
  BY <1>1, DataKeepsKeys DEF Constructed, Proxied

\* What an access to the target makes of the two configurations.
LEMMA ConfigurationsOf ==
  ASSUME \E ignore \in BOOLEAN : StubTransportDbg(ignore) \/ ProxyTransportDbg(ignore)
  PROVE  /\ extn' \in {extn, stub, Proxied}
         /\ stub' \in {stub, Update(stub, extn')}
<1>1. Configure => extn' \in {extn, stub} /\ stub' \in {stub, Update(stub, extn')}
  BY DEF Configure
<1>2. QED
  BY <1>1 DEF StubTransportDbg, ProxyTransportDbg

LEMMA StubKeepsKeys ==
  ASSUME StubInv, StubNext \/ UNCHANGED stubVars
  PROVE  StubInv'
<1>1. CASE UNCHANGED stubVars
  BY <1>1 DEF stubVars, StubInv, IsConfiguration
<1>2. ASSUME NEW c, Build(c), IsConfiguration(c)
      PROVE  StubInv'
  BY <1>2 DEF Build, StubInv, IsConfiguration
<1>3. CASE BuildSet
  BY <1>2, <1>3, OperationsKeepKeys DEF BuildSet, StubInv
<1>4. CASE BuildErase \/ BuildClear
  BY <1>2, <1>4, OperationsKeepKeys DEF BuildErase, BuildClear, StubInv
<1>5. CASE BuildDelKey \/ BuildClearKeys
  BY <1>2, <1>5, KeysKeepRequired DEF BuildDelKey, BuildClearKeys, StubInv
<1>6. CASE BuildAddKey \/ ConfigKey
  BY <1>2, <1>6, KeysKeepRequired DEF BuildAddKey, ConfigKey, StubInv
<1>7. CASE CloneExtension
  BY <1>7 DEF CloneExtension, StubInv, IsConfiguration
<1>8. CASE \E ignore \in BOOLEAN : StubTransportDbg(ignore) \/ ProxyTransportDbg(ignore)
  <2>1. IsConfiguration(extn')
    BY <1>8, ConfigurationsOf, Originals DEF StubInv
  <2>2. IsConfiguration(stub')
    BY <1>8, ConfigurationsOf, OperationsKeepKeys DEF StubInv
  <2>3. QED
    BY <2>1, <2>2 DEF StubInv, IsConfiguration
<1>9. ASSUME NEW t, StubBTransport(t)
      PROVE  StubInv'
  BY <1>9 DEF StubBTransport, StubInv, IsConfiguration
<1>10. QED
  BY <1>1, <1>3, <1>4, <1>5, <1>6, <1>7, <1>8, <1>9 DEF StubNext

LEMMA StubInvAlways == Spec => []StubInv
<1>1. Init => StubInv
  BY Originals DEF Init, StubInit, StubInv
<1>2. StubInv /\ [Next]_vars => StubInv'
  BY StepOfPart, StubKeepsKeys
<1>3. QED
  BY <1>1, <1>2, PTL DEF Spec

\* Required fields are keys, whatever fields there are and in whatever order they
\* are added, removed and copied.
THEOREM RequiredAreKeysAlways == Spec => []RequiredAreKeys
<1>1. StubInv => RequiredAreKeys
  BY DEF StubInv, IsConfiguration, RequiredAreKeys
<1>2. QED
  BY <1>1, StubInvAlways, PTL

\* No step makes the target forget a field, or change one to a value that was not
\* sent.
THEOREM NothingForgottenAlways == Spec => NothingForgotten
<1> DEFINE Kept == \A f \in DOMAIN stub.data :
                     /\ f \in DOMAIN stub'.data
                     /\ stub'.data[f] # stub.data[f] =>
                          f \in DOMAIN extn'.data /\ stub'.data[f] = extn'.data[f]
<1>1. stub' = stub => Kept
  OBVIOUS
<1>2. StubInv /\ stub' = Update(stub, extn') => Kept
  <2> SUFFICES ASSUME StubInv, stub' = Update(stub, extn')
               PROVE  Kept
    OBVIOUS
  <2>1. stub'.data = Overwritten(stub.data, extn'.data)
    BY DataKeepsKeys DEF StubInv, Update
  <2>2. QED
    BY <2>1 DEF Overwritten
<1>3. ASSUME NEW c, Build(c)
      PROVE  Kept
  BY <1>1, <1>3 DEF Build
<1>4. StubInv /\ StubNext => Kept
  BY <1>1, <1>2, <1>3, ConfigurationsOf
     DEF StubNext, BuildSet, BuildErase, BuildClear, BuildAddKey, ConfigKey, BuildDelKey,
         BuildClearKeys, CloneExtension, StubBTransport
<1>5. StubInv /\ [Next]_vars => Kept \/ UNCHANGED stubVars
  BY StepOfPart, <1>4
<1>6. QED
  BY <1>5, StubInvAlways, PTL DEF Spec, NothingForgotten

-----------------------------------------------------------------------------
(* Channels to the host *)

\* What a receiver can do to a queue: nothing, read the first payload, or toss it.
Moves(queue, read, tossed, queue2, read2, tossed2) ==
  \/ queue2 = queue /\ read2 = read /\ tossed2 = tossed
  \/ /\ queue # <<>> /\ queue2 = Tail(queue)
     /\ \/ read2 = Append(read, Head(queue)) /\ tossed2 = tossed
        \/ read2 = read /\ tossed2 = tossed \cup {Head(queue)}

\* Of the first n payloads, those not tossed were read, in order.
DoneWith(n, read, tossed) ==
  /\ n \in Nat /\ read \in Seq(Nat) /\ tossed \subseteq 1 .. n
  /\ \A i \in 1 .. Len(read) : read[i] \in 1 .. n
  /\ \A i, j \in 1 .. Len(read) : i < j => read[i] < read[j]
  /\ \A k \in 1 .. n : k \in tossed <=> \A i \in 1 .. Len(read) : read[i] # k

\* And the queue holds the others.
Accounted(read, tossed, queue, sent) ==
  /\ sent \in Nat /\ queue \in Seq(Nat) /\ Len(queue) <= sent
  /\ DoneWith(sent - Len(queue), read, tossed)
  /\ \A i \in 1 .. Len(queue) : queue[i] = sent - Len(queue) + i

LEMMA ReadIsDone ==
  ASSUME NEW n, NEW read, NEW tossed, DoneWith(n, read, tossed)
  PROVE  DoneWith(n + 1, Append(read, n + 1), tossed)
<1> DEFINE more == Append(read, n + 1)
<1>1. n \in Nat /\ read \in Seq(Nat) /\ n + 1 \in Nat /\ tossed \subseteq 1 .. n
  BY DEF DoneWith
<1>2. /\ more \in Seq(Nat) /\ Len(more) = Len(read) + 1
      /\ more[Len(read) + 1] = n + 1
      /\ \A i \in 1 .. Len(read) : more[i] = read[i]
  BY <1>1, AppendProperties
<1>3. Len(read) \in Nat
  BY <1>1, LenProperties
<1> HIDE DEF more
<1>4. \A i \in 1 .. Len(more) : more[i] \in 1 .. n + 1
  <2> SUFFICES ASSUME NEW i \in 1 .. Len(more)
               PROVE  more[i] \in 1 .. n + 1
    OBVIOUS
  <2>1. CASE i = Len(read) + 1
    BY <1>1, <1>2, <2>1
  <2>2. CASE i # Len(read) + 1
    <3>1. i \in 1 .. Len(read)
      BY <1>2, <1>3, <2>2
    <3>2. more[i] = read[i] /\ read[i] \in 1 .. n
      BY <1>2, <3>1 DEF DoneWith
    <3>3. QED
      BY <1>1, <3>2
  <2>3. QED
    BY <2>1, <2>2
<1>5. \A i, j \in 1 .. Len(more) : i < j => more[i] < more[j]
  <2> SUFFICES ASSUME NEW i \in 1 .. Len(more), NEW j \in 1 .. Len(more), i < j
               PROVE  more[i] < more[j]
    OBVIOUS
  <2>1. i \in 1 .. Len(read) /\ read[i] \in 1 .. n /\ more[i] = read[i]
    BY <1>2, <1>3 DEF DoneWith
  <2>2. CASE j = Len(read) + 1
    BY <1>1, <1>2, <2>1, <2>2
  <2>3. CASE j # Len(read) + 1
    <3>1. j \in 1 .. Len(read)
      BY <1>2, <1>3, <2>3
    <3>2. QED
      BY <1>2, <2>1, <3>1 DEF DoneWith
  <2>4. QED
    BY <2>2, <2>3
<1>6. ASSUME NEW k \in 1 .. n + 1
      PROVE  k \in tossed <=> \A i \in 1 .. Len(more) : more[i] # k
  <2>1. CASE k = n + 1
    <3>1. k \notin tossed
      BY <1>1, <2>1
    <3>2. Len(read) + 1 \in 1 .. Len(more)
      BY <1>2, <1>3
    <3>3. QED
      BY <1>2, <2>1, <3>1, <3>2
  <2>2. CASE k # n + 1
    <3>1. k \in 1 .. n
      BY <1>1, <2>2
    <3>2. (\A i \in 1 .. Len(more) : more[i] # k) <=> \A i \in 1 .. Len(read) : read[i] # k
      BY <1>2, <1>3, <2>2
    <3>3. QED
      BY <3>1, <3>2 DEF DoneWith
  <2>3. QED
    BY <2>1, <2>2
<1>7. tossed \subseteq 1 .. n + 1
  BY <1>1
<1>8. QED
  BY <1>1, <1>2, <1>4, <1>5, <1>6, <1>7 DEF DoneWith, more

LEMMA TossIsDone ==
  ASSUME NEW n, NEW read, NEW tossed, DoneWith(n, read, tossed)
  PROVE  DoneWith(n + 1, read, tossed \cup {n + 1})
<1>1. n \in Nat /\ read \in Seq(Nat) /\ n + 1 \in Nat /\ tossed \subseteq 1 .. n
  BY DEF DoneWith
<1>2. \A i \in 1 .. Len(read) : read[i] \in 1 .. n /\ read[i] \in 1 .. n + 1 /\ read[i] # n + 1
  BY <1>1 DEF DoneWith
<1>3. ASSUME NEW k \in 1 .. n + 1
      PROVE  k \in tossed \cup {n + 1} <=> \A i \in 1 .. Len(read) : read[i] # k
  <2>1. CASE k = n + 1
    BY <1>2, <2>1
  <2>2. CASE k # n + 1
    <3>1. k \in 1 .. n
      BY <1>1, <2>2
    <3>2. QED
      BY <2>2, <3>1 DEF DoneWith
  <2>3. QED
    BY <2>1, <2>2
<1>4. tossed \cup {n + 1} \subseteq 1 .. n + 1
  BY <1>1
<1>5. QED
  BY <1>1, <1>2, <1>3, <1>4 DEF DoneWith

\* Sending appends the next number.
LEMMA SendKeepsAccount ==
  ASSUME NEW read, NEW tossed, NEW queue, NEW sent, Accounted(read, tossed, queue, sent)
  PROVE  Accounted(read, tossed, Append(queue, sent + 1), sent + 1)
<1> DEFINE longer == Append(queue, sent + 1)
<1>1. sent \in Nat /\ sent + 1 \in Nat /\ queue \in Seq(Nat) /\ Len(queue) <= sent
  BY DEF Accounted
<1>2. /\ longer \in Seq(Nat) /\ Len(longer) = Len(queue) + 1
      /\ longer[Len(queue) + 1] = sent + 1
      /\ \A i \in 1 .. Len(queue) : longer[i] = queue[i]
  BY <1>1, AppendProperties
<1>3. Len(queue) \in Nat
  BY <1>1, LenProperties
<1> HIDE DEF longer
<1>4. (sent + 1) - Len(longer) = sent - Len(queue)
  BY <1>1, <1>2, <1>3
<1>5. \A i \in 1 .. Len(longer) : longer[i] = (sent + 1) - Len(longer) + i
  <2> SUFFICES ASSUME NEW i \in 1 .. Len(longer)
               PROVE  longer[i] = (sent + 1) - Len(longer) + i
    OBVIOUS
  <2>1. CASE i = Len(queue) + 1
    BY <1>1, <1>2, <1>3, <2>1
  <2>2. CASE i # Len(queue) + 1
    <3>1. i \in 1 .. Len(queue)
      BY <1>2, <1>3, <2>2
    <3>2. QED
      BY <1>2, <1>4, <3>1 DEF Accounted
  <2>3. QED
    BY <2>1, <2>2
<1>6. Len(longer) <= sent + 1
  BY <1>1, <1>2, <1>3
<1>7. DoneWith((sent + 1) - Len(longer), read, tossed)
  BY <1>4 DEF Accounted
<1>8. QED
  BY <1>1, <1>2, <1>5, <1>6, <1>7 DEF Accounted, longer

\* Reading or tossing the first payload is done with one more.
LEMMA MoveKeepsAccount ==
  ASSUME NEW read, NEW tossed, NEW queue, NEW sent, Accounted(read, tossed, queue, sent),
         NEW read2, NEW tossed2, NEW queue2,
         Moves(queue, read, tossed, queue2, read2, tossed2)
  PROVE  Accounted(read2, tossed2, queue2, sent)
<1>1. CASE queue2 = queue /\ read2 = read /\ tossed2 = tossed
  BY <1>1
<1>2. ASSUME queue # <<>>, queue2 = Tail(queue),
             \/ read2 = Append(read, Head(queue)) /\ tossed2 = tossed
             \/ read2 = read /\ tossed2 = tossed \cup {Head(queue)}
      PROVE  Accounted(read2, tossed2, queue2, sent)
  <2>1. sent \in Nat /\ queue \in Seq(Nat) /\ Len(queue) <= sent
    BY DEF Accounted
  <2>2. /\ queue2 \in Seq(Nat) /\ Len(queue2) = Len(queue) - 1
        /\ \A i \in 1 .. Len(queue2) : queue2[i] = queue[i + 1]
        /\ Head(queue) = queue[1] /\ Len(queue) \in Nat \ {0}
    BY <1>2, <2>1, HeadTailProperties, EmptySeq, LenProperties
  <2>3. Head(queue) = (sent - Len(queue)) + 1
    BY <2>1, <2>2 DEF Accounted
  <2>4. DoneWith((sent - Len(queue)) + 1, read2, tossed2)
    <3> DEFINE n == sent - Len(queue)
    <3>1. DoneWith(n, read, tossed)
      BY DEF Accounted
    <3>2. Head(queue) = n + 1
      BY <2>3
    <3> HIDE DEF n
    <3>3. DoneWith(n + 1, Append(read, n + 1), tossed)
      BY <3>1, ReadIsDone
    <3>4. DoneWith(n + 1, read, tossed \cup {n + 1})
      BY <3>1, TossIsDone
    <3>5. DoneWith(n + 1, read2, tossed2)
      BY <1>2, <3>2, <3>3, <3>4
    <3>6. QED
      BY <3>5 DEF n
  <2>5. sent - Len(queue2) = (sent - Len(queue)) + 1 /\ Len(queue2) <= sent
    BY <2>1, <2>2
  <2>6. \A i \in 1 .. Len(queue2) : queue2[i] = sent - Len(queue2) + i
    <3> SUFFICES ASSUME NEW i \in 1 .. Len(queue2)
                 PROVE  queue2[i] = sent - Len(queue2) + i
      OBVIOUS
    <3>1. i + 1 \in 1 .. Len(queue) /\ queue2[i] = queue[i + 1]
      BY <2>2
    <3>2. queue[i + 1] = sent - Len(queue) + (i + 1)
      BY <3>1 DEF Accounted
    <3>3. QED
      BY <2>1, <2>2, <3>1, <3>2
  <2>7. QED
    BY <2>1, <2>2, <2>4, <2>5, <2>6 DEF Accounted
<1>3. QED
  BY <1>1, <1>2 DEF Moves

\* The line of what was read and what is queued.
LEMMA LineOfAccount ==
  ASSUME NEW read, NEW tossed, NEW queue, NEW sent, Accounted(read, tossed, queue, sent)
  PROVE  LET line == read \o queue
         IN /\ \A i, j \in DOMAIN line : i < j => line[i] < line[j]
            /\ \A n \in 1 .. sent : n \in tossed <=> \A i \in DOMAIN line : line[i] # n
<1> DEFINE line == read \o queue
           n == sent - Len(queue)
<1>1. /\ sent \in Nat /\ queue \in Seq(Nat) /\ read \in Seq(Nat)
      /\ Len(queue) <= sent /\ tossed \subseteq 1 .. n
      /\ \A i \in 1 .. Len(queue) : queue[i] = n + i
      /\ \A i \in 1 .. Len(read) : read[i] \in 1 .. n
      /\ \A i, j \in 1 .. Len(read) : i < j => read[i] < read[j]
      /\ \A k \in 1 .. n : k \in tossed <=> \A i \in 1 .. Len(read) : read[i] # k
  BY DEF Accounted, DoneWith
<1>2. Len(read) \in Nat /\ Len(queue) \in Nat
  BY <1>1, LenProperties
<1>3. n \in Nat /\ sent = n + Len(queue)
  BY <1>1, <1>2
<1>4. /\ DOMAIN line = 1 .. Len(read) + Len(queue)
      /\ \A i \in 1 .. Len(read) + Len(queue) :
           line[i] = IF i <= Len(read) THEN read[i] ELSE queue[i - Len(read)]
  BY <1>1, ConcatProperties, LenProperties
<1> HIDE DEF line, n
<1>5. \A i \in DOMAIN line : \/ i \in 1 .. Len(read) /\ line[i] = read[i]
                             \/ /\ i - Len(read) \in 1 .. Len(queue)
                                /\ line[i] = n + (i - Len(read))
  <2> SUFFICES ASSUME NEW i \in DOMAIN line
               PROVE  \/ i \in 1 .. Len(read) /\ line[i] = read[i]
                      \/ /\ i - Len(read) \in 1 .. Len(queue)
                         /\ line[i] = n + (i - Len(read))
    OBVIOUS
  <2>1. i \in 1 .. Len(read) + Len(queue)
    BY <1>4
  <2>2. CASE i <= Len(read)
    BY <1>2, <1>4, <2>1, <2>2
  <2>3. CASE ~(i <= Len(read))
    <3>1. i - Len(read) \in 1 .. Len(queue)
      BY <1>2, <2>1, <2>3
    <3>2. line[i] = queue[i - Len(read)]
      BY <1>4, <2>1, <2>3
    <3>3. QED
      BY <1>1, <3>1, <3>2
  <2>4. QED
    BY <2>2, <2>3
<1>6. \A i, j \in DOMAIN line : i < j => line[i] < line[j]
  <2> SUFFICES ASSUME NEW i \in DOMAIN line, NEW j \in DOMAIN line, i < j
               PROVE  line[i] < line[j]
    OBVIOUS
  <2>1. i \in Nat /\ j \in Nat
    BY <1>2, <1>4
  <2>2. CASE i \in 1 .. Len(read) /\ j \in 1 .. Len(read)
    <3>1. line[i] = read[i] /\ line[j] = read[j]
      BY <1>2, <1>4, <2>2
    <3>2. QED
      BY <1>1, <2>2, <3>1
  <2>3. CASE i \in 1 .. Len(read) /\ j \notin 1 .. Len(read)
    <3>1. line[i] = read[i] /\ read[i] \in 1 .. n
      BY <1>1, <1>2, <1>4, <2>3
    <3>2. j - Len(read) \in 1 .. Len(queue) /\ line[j] = n + (j - Len(read))
      BY <1>5, <2>3
    <3>3. QED
      BY <1>2, <1>3, <2>1, <3>1, <3>2
  <2>4. CASE i \notin 1 .. Len(read)
    <3>1. j \notin 1 .. Len(read)
      BY <1>2, <1>4, <2>1, <2>4
    <3>2. line[i] = n + (i - Len(read)) /\ line[j] = n + (j - Len(read))
      BY <1>5, <2>4, <3>1
    <3>3. QED
      BY <1>2, <1>3, <2>1, <3>2
  <2>5. QED
    BY <2>2, <2>3, <2>4
<1>7. ASSUME NEW k \in 1 .. sent
      PROVE  k \in tossed <=> \A i \in DOMAIN line : line[i] # k
  <2>1. CASE k \in 1 .. n
    <3>1. \A i \in DOMAIN line : i \notin 1 .. Len(read) => line[i] # k
      BY <1>2, <1>3, <1>5, <2>1
    <3>2. \A i \in 1 .. Len(read) : i \in DOMAIN line /\ line[i] = read[i]
      BY <1>2, <1>4
    <3>3. (\A i \in DOMAIN line : line[i] # k) <=> \A i \in 1 .. Len(read) : read[i] # k
      BY <1>4, <3>1, <3>2
    <3>4. QED
      BY <1>1, <2>1, <3>3
  <2>2. CASE k \notin 1 .. n
    <3>1. k \notin tossed
      BY <1>1, <2>2
    <3>2. k - n \in 1 .. Len(queue)
      BY <1>2, <1>3, <2>2
    <3>3. /\ Len(read) + (k - n) \in DOMAIN line
          /\ line[Len(read) + (k - n)] = k
      <4>1. Len(read) + (k - n) \in 1 .. Len(read) + Len(queue)
        BY <1>2, <1>3, <3>2
      <4>2. Len(read) + (k - n) \notin 1 .. Len(read)
        BY <1>2, <1>3, <3>2
      <4>3. line[Len(read) + (k - n)] = n + ((Len(read) + (k - n)) - Len(read))
        BY <1>4, <1>5, <4>1, <4>2
      <4>4. QED
        BY <1>2, <1>3, <1>4, <4>1, <4>3
    <3>4. QED
      BY <3>1, <3>3
  <2>3. QED
    BY <2>1, <2>2
<1>8. QED
  BY <1>6, <1>7 DEF line

TxAccounted == Accounted(txRead, txTossed, txQueue, txSent)
RxAccounted == Accounted(rxRead, rxTossed, rxQueue, rxSent)
TxMoves == Moves(txQueue, txRead, txTossed, txQueue', txRead', txTossed')
RxMoves == Moves(rxQueue, rxRead, rxTossed, rxQueue', rxRead', rxTossed')

LEMMA TxTakes ==
  ASSUME TxAccounted, UNCHANGED txSent, TxMoves
  PROVE  TxAccounted'
  BY MoveKeepsAccount DEF TxAccounted, TxMoves

LEMMA TxKeepsAccount ==
  ASSUME TxAccounted, TxNext \/ UNCHANGED txVars
  PROVE  TxAccounted'
<1>1. CASE UNCHANGED txVars
  BY <1>1 DEF txVars, txPast, TxAccounted
<1>2. CASE Push
  BY <1>2, SendKeepsAccount DEF Push, txPast, TxAccounted
<1>3. CASE SetReady \/ NotifyAll
  BY <1>3 DEF SetReady, NotifyAll, txPast, TxAccounted
<1>4. ASSUME NEW r, NEW call, TxCall(r, call)
      PROVE  TxAccounted'
  BY <1>4 DEF TxCall, txPast, TxAccounted
<1>5. ASSUME NEW r, LockCondition(r) \/ CheckReady(r) \/ FallAsleep(r) \/ SpuriousWakeup(r)
                      \/ Relock(r) \/ BeginDrop(r)
      PROVE  TxAccounted'
  BY <1>5 DEF LockCondition, CheckReady, FallAsleep, SpuriousWakeup, Relock, BeginDrop, txPast,
              TxAccounted
<1>6. ASSUME NEW r, NEW call, NonBlocking(r, call)
      PROVE  TxAccounted'
  BY <1>6, TxTakes DEF NonBlocking, NbRead, NbPeek, txPast, TxMoves, Moves
<1>7. ASSUME NEW r, Take(r) \/ Drop(r)
      PROVE  TxAccounted'
  BY <1>7, TxTakes DEF Take, Drop, NbRead, NbPeek, txPast, TxMoves, Moves
<1>8. QED
  BY <1>1, <1>2, <1>3, <1>4, <1>5, <1>6, <1>7 DEF TxNext

LEMMA RxTakes ==
  ASSUME RxAccounted, UNCHANGED rxSent, RxMoves
  PROVE  RxAccounted'
  BY MoveKeepsAccount DEF RxAccounted, RxMoves

LEMMA RxKeepsAccount ==
  ASSUME RxAccounted, RxNext \/ UNCHANGED rxVars
  PROVE  RxAccounted'
<1>1. CASE UNCHANGED rxVars
  BY <1>1 DEF rxVars, rxPast, RxAccounted
<1>2. CASE RxNotify
  BY <1>2, SendKeepsAccount DEF RxNotify, rxPast, RxAccounted
<1>3. CASE RxUpdate
  BY <1>3 DEF RxUpdate, rxPast, RxAccounted
<1>4. ASSUME NEW call, RxTake(call)
      PROVE  RxMoves
  BY <1>4 DEF RxTake, RxNbRead, RxNbPeek, rxPast, RxMoves, Moves
<1>5. ASSUME NEW p, NEW call, RxCall(p, call)
      PROVE  RxAccounted'
  BY <1>4, <1>5, RxTakes DEF RxCall, rxPast, RxMoves, Moves
<1>6. ASSUME NEW p, NEW call, RxNonBlocking(p, call)
      PROVE  RxAccounted'
  BY <1>4, <1>6, RxTakes DEF RxNonBlocking
<1>7. ASSUME NEW p, RxDrop(p) \/ RxResume(p)
      PROVE  RxAccounted'
  BY <1>4, <1>7, RxTakes DEF RxDrop, RxResume, RxMoves, Moves
<1>8. QED
  BY <1>1, <1>2, <1>3, <1>5, <1>6, <1>7 DEF RxNext

LEMMA ChannelsStart == Init => TxAccounted /\ RxAccounted
<1>1. Accounted(<<>>, {}, <<>>, 0)
  <2>1. <<>> \in Seq(Nat) /\ Len(<<>>) = 0 /\ 1 .. 0 = {}
    OBVIOUS
  <2>2. QED
    BY <2>1 DEF Accounted, DoneWith
<1>2. QED
  BY <1>1 DEF Init, TxInit, RxInit, TxAccounted, RxAccounted

LEMMA AccountedAlways == Spec => [](TxAccounted /\ RxAccounted)
<1>1. Init => TxAccounted /\ RxAccounted
  BY ChannelsStart
<1>2. TxAccounted /\ RxAccounted /\ [Next]_vars => (TxAccounted /\ RxAccounted)'
  BY StepOfPart, TxKeepsAccount, RxKeepsAccount
<1>3. QED
  BY <1>1, <1>2, PTL DEF Spec

\* What receivers read, followed by what is queued, is in the order of sending, holds
\* nothing twice and misses exactly what drop() threw away: for any number of
\* receivers that read, peek and drop at the same time.
THEOREM InOrderAlways == Spec => []InOrder
<1>1. TxAccounted => TxInOrder
  BY LineOfAccount DEF TxAccounted, TxInOrder
<1>2. RxAccounted => RxInOrder
  BY LineOfAccount DEF RxAccounted, RxInOrder
<1>3. TxAccounted /\ RxAccounted => InOrder
  BY <1>1, <1>2 DEF InOrder
<1>4. QED
  BY <1>3, AccountedAlways, PTL

ReaderStates == {"idle", "locking", "checking", "unready", "asleep", "woken", "taking",
                 "dropping"}

\* The flag is set, and the sender is busy, only once something was sent.
TxBlocks ==
  /\ txReader \in [TxReaders -> ReaderStates]
  /\ txSent \in Nat
  /\ txReady \/ txWriter # "idle" => txSent > 0
  /\ BlocksUntilSent

LEMMA QueueIsSent == TxAccounted /\ txQueue # <<>> => txSent > 0
<1> SUFFICES ASSUME TxAccounted, txQueue # <<>>
             PROVE  txSent > 0
  OBVIOUS
<1>1. txQueue \in Seq(Nat) /\ txSent \in Nat /\ Len(txQueue) <= txSent
  BY DEF TxAccounted, Accounted
<1>2. Len(txQueue) \in Nat \ {0}
  BY <1>1, EmptySeq, LenProperties
<1>3. QED
  BY <1>1, <1>2

\* A step of a receiver moves that receiver only.
LEMMA ReaderMoves ==
  ASSUME TxBlocks, NEW r \in TxReaders, NEW here, NEW there \in ReaderStates,
         At(r, here, there)
  PROVE  /\ txReader' \in [TxReaders -> ReaderStates]
         /\ (\E q \in TxReaders : txReader'[q] = "taking") => there = "taking" \/ txSent > 0
<1>1. \A q \in TxReaders : txReader'[q] = IF q = r THEN there ELSE txReader[q]
  BY DEF At, TxBlocks
<1>2. QED
  BY <1>1 DEF At, TxBlocks, BlocksUntilSent

LEMMA TxKeepsBlocks ==
  ASSUME TxAccounted, TxBlocks, TxNext \/ UNCHANGED txVars
  PROVE  TxBlocks'
<1>1. CASE UNCHANGED txVars
  BY <1>1 DEF txVars, TxBlocks, BlocksUntilSent
<1>2. CASE Push
  BY <1>2 DEF Push, TxBlocks, BlocksUntilSent
<1>3. CASE SetReady
  BY <1>3 DEF SetReady, TxBlocks, BlocksUntilSent
<1>4. CASE NotifyAll
  <2>1. txReader' \in [TxReaders -> ReaderStates]
    BY <1>4 DEF NotifyAll, TxBlocks, ReaderStates
  <2>2. \A q \in TxReaders : txReader'[q] = "taking" => txReader[q] = "taking"
    BY <1>4 DEF NotifyAll
  <2>3. QED
    BY <1>4, <2>1, <2>2 DEF NotifyAll, TxBlocks, BlocksUntilSent
\* Where a receiver moves, it takes a payload only after one was sent.
<1>5. ASSUME NEW r \in TxReaders, NEW here, NEW there \in ReaderStates, At(r, here, there),
             there = "taking" => txSent > 0, UNCHANGED <<txSent, txReady, txWriter>>
      PROVE  TxBlocks'
  BY <1>5, ReaderMoves DEF TxBlocks, BlocksUntilSent
<1>6. ASSUME NEW r \in TxReaders, NEW call, TxCall(r, call)
      PROVE  TxBlocks'
  <2>1. CASE txQueue = <<>>
    <3>1. At(r, "idle", "locking") /\ UNCHANGED <<txSent, txReady, txWriter>>
      BY <1>6, <2>1 DEF TxCall, txCond
    <3>2. QED
      BY <1>5, <3>1 DEF ReaderStates
  <2>2. CASE txQueue # <<>>
    <3>1. At(r, "idle", "taking") /\ UNCHANGED <<txSent, txReady, txWriter>>
      BY <1>6, <2>2 DEF TxCall, txCond
    <3>2. QED
      BY <1>5, <2>2, <3>1, QueueIsSent DEF ReaderStates
  <2>3. QED
    BY <2>1, <2>2
<1>7. ASSUME NEW r \in TxReaders, CheckReady(r)
      PROVE  TxBlocks'
  <2>1. CASE txReady
    <3>1. At(r, "checking", "taking") /\ UNCHANGED <<txSent, txReady, txWriter>>
      BY <1>7, <2>1 DEF CheckReady
    <3>2. QED
      BY <1>5, <2>1, <3>1 DEF ReaderStates, TxBlocks
  <2>2. CASE ~txReady
    <3>1. At(r, "checking", "unready") /\ UNCHANGED <<txSent, txReady, txWriter>>
      BY <1>7, <2>2 DEF CheckReady
    <3>2. QED
      BY <1>5, <3>1 DEF ReaderStates
  <2>3. QED
    BY <2>1, <2>2
<1>8. ASSUME NEW r \in TxReaders,
             \/ LockCondition(r) \/ FallAsleep(r) \/ Relock(r) \/ SpuriousWakeup(r)
             \/ Take(r) \/ BeginDrop(r) \/ Drop(r)
      PROVE  TxBlocks'
  <2> DEFINE still == UNCHANGED <<txSent, txReady, txWriter>>
  <2>1. CASE LockCondition(r)
    <3>1. At(r, "locking", "checking") /\ still
      BY <2>1 DEF LockCondition
    <3>2. QED
      BY <1>5, <3>1 DEF ReaderStates
  <2>2. CASE FallAsleep(r)
    <3>1. At(r, "unready", "asleep") /\ still
      BY <2>2 DEF FallAsleep
    <3>2. QED
      BY <1>5, <3>1 DEF ReaderStates
  <2>3. CASE Relock(r)
    <3>1. At(r, "woken", "checking") /\ still
      BY <2>3 DEF Relock
    <3>2. QED
      BY <1>5, <3>1 DEF ReaderStates
  <2>4. CASE SpuriousWakeup(r)
    <3>1. At(r, "asleep", "woken") /\ still
      BY <2>4 DEF SpuriousWakeup, txCond
    <3>2. QED
      BY <1>5, <3>1 DEF ReaderStates
  <2>5. CASE Take(r)
    <3>1. At(r, "taking", "idle") /\ still
      BY <2>5 DEF Take, txCond
    <3>2. QED
      BY <1>5, <3>1 DEF ReaderStates
  <2>6. CASE BeginDrop(r)
    <3>1. At(r, "idle", "dropping") /\ still
      BY <2>6 DEF BeginDrop, txCond
    <3>2. QED
      BY <1>5, <3>1 DEF ReaderStates
  <2>7. CASE Drop(r)
    <3>1. At(r, "dropping", "idle") /\ still
      BY <2>7 DEF Drop, txCond
    <3>2. QED
      BY <1>5, <3>1 DEF ReaderStates
  <2>8. QED
    BY <1>8, <2>1, <2>2, <2>3, <2>4, <2>5, <2>6, <2>7
<1>9. ASSUME NEW r, NEW call, NonBlocking(r, call)
      PROVE  TxBlocks'
  BY <1>9 DEF NonBlocking, txCond, TxBlocks, BlocksUntilSent
<1>10. QED
  BY <1>1, <1>2, <1>3, <1>4, <1>6, <1>7, <1>8, <1>9 DEF TxNext

\* Nobody gets past the wait before the first payload is sent, for any number of
\* receivers and any spurious wakeups.
THEOREM BlocksUntilSentAlways == Spec => []BlocksUntilSent
<1>1. Init => TxBlocks
  BY DEF Init, TxInit, TxBlocks, BlocksUntilSent, ReaderStates
<1>2. TxAccounted /\ TxBlocks /\ [Next]_vars => TxBlocks'
  BY StepOfPart, TxKeepsBlocks
<1>3. TxBlocks => BlocksUntilSent
  BY DEF TxBlocks
<1>4. QED
  BY <1>1, <1>2, <1>3, AccountedAlways, PTL DEF Spec

-----------------------------------------------------------------------------
(* Types of all parts *)

LEMMA SizesAreNumbers == Sizes \cup {0} \subseteq Nat
  BY PortAssumption

\* What processes drive one pin.
DrivesTyped(driven) ==
  driven \in [DOMAIN driven -> {"Z", "0", "1"}] /\ DOMAIN driven \subseteq Drivers

LEMMA DriveKeepsTypes ==
  ASSUME NEW driven, DrivesTyped(driven), NEW d \in Drivers, NEW v \in {"Z", "0", "1"}
  PROVE  DrivesTyped(Drive(driven, d, v))
<1>1. DOMAIN Drive(driven, d, v) = DOMAIN driven \cup {d}
  BY DEF Drive
<1>2. \A x \in DOMAIN driven \cup {d} : (IF x = d THEN v ELSE driven[x]) \in {"Z", "0", "1"}
  BY DEF DrivesTyped
<1>3. Drive(driven, d, v) \in [DOMAIN driven \cup {d} -> {"Z", "0", "1"}]
  BY <1>2 DEF Drive
<1>4. QED
  BY <1>1, <1>3 DEF DrivesTyped

LEMMA ResolvedIsLogic ==
  ASSUME NEW driven, DrivesTyped(driven)
  PROVE  Resolve(driven) \in Logic
<1> DEFINE values == {driven[d] : d \in DOMAIN driven} \ {"Z"}
<1>1. values \subseteq {"0", "1"}
  BY DEF DrivesTyped
<1>2. values # {} => (CHOOSE v \in values : TRUE) \in values
  OBVIOUS
<1>3. Resolve(driven) = IF values = {} THEN "Z"
                        ELSE IF Cardinality(values) = 1 THEN CHOOSE v \in values : TRUE ELSE "X"
  BY DEF Resolve
<1> HIDE DEF values
<1>4. QED
  BY <1>1, <1>2, <1>3 DEF Logic

\* The variables of the pins without registers and overlay, which are in PinsInv.
PinTypes ==
  /\ gpioSize \in Nat
  /\ out \in {"Z", "0", "1"}
  /\ \A p \in Pins : DrivesTyped(drive[p])
  /\ pin \in [Pins -> Logic]
  /\ gpioThread \in {"waiting", "ready", "posedge"}
  /\ synced \in BOOLEAN /\ notified \in BOOLEAN /\ rewritten \in BOOLEAN
  /\ gpioResponse \in Responses
  /\ accesses \in 0 .. MaxAccesses /\ pushes \in 0 .. MaxOutside

LEMMA GpioWriteKeepsTypes ==
  ASSUME PinTypes, NEW r, NEW v, GpioWriteActions(r, v)
  PROVE  out' \in {"Z", "0", "1"} /\ \A p \in Pins : DrivesTyped(drive'[p])
<1>1. \A b : Level(b) \in {"Z", "0", "1"}
  BY DEF Level
<1>2. out' \in {"Z", "0", "1"}
  BY <1>1 DEF GpioWriteActions, PinTypes
<1>3. ASSUME NEW p \in Pins
      PROVE  DrivesTyped(drive'[p])
  <2>1. \/ drive'[p] = drive[p]
        \/ \E x \in {"Z", "0", "1"} : drive'[p] = Drive(drive[p], "software", x)
    BY <1>1 DEF GpioWriteActions, Driven
  <2>2. DrivesTyped(drive[p]) /\ "software" \in Drivers
    BY DEF PinTypes, Drivers
  <2>3. QED
    BY <2>1, <2>2, DriveKeepsTypes
<1>4. QED
  BY <1>2, <1>3

LEMMA GpioAccessKeepsTypes ==
  ASSUME PinTypes, GpioAccess, gpioSize' \in Nat, synced' \in BOOLEAN,
         gpioResponse' \in Responses, rewritten' \in BOOLEAN,
         \/ UNCHANGED <<out, drive>>
         \/ out' \in {"Z", "0", "1"} /\ \A p \in Pins : DrivesTyped(drive'[p])
  PROVE  PinTypes'
<1>1. accesses' \in 0 .. MaxAccesses
  BY GpioAssumption DEF PinTypes, GpioAccess
<1>2. out' \in {"Z", "0", "1"} /\ \A p \in Pins : DrivesTyped(drive'[p])
  BY DEF PinTypes
<1>3. QED
  BY <1>1, <1>2 DEF PinTypes, GpioAccess

LEMMA GpioKeepsTypes ==
  ASSUME PinTypes, PinsInv, GpioNext \/ UNCHANGED gpioVars
  PROVE  PinTypes'
<1>1. CASE UNCHANGED gpioVars
  BY <1>1 DEF gpioVars, PinTypes
<1>2. ASSUME NEW t \in Payloads, GpioBTransport(t)
      PROVE  PinTypes'
  <2>1. /\ GpioAccess /\ gpioSize' \in Nat /\ synced' \in BOOLEAN
        /\ gpioResponse' \in Responses /\ rewritten' \in BOOLEAN
    BY <1>2, ResponseIsOne DEF GpioBTransport, PinTypes
  <2>2. CASE UNCHANGED <<out, drive>>
    BY <2>1, <2>2, GpioAccessKeepsTypes
  <2>3. CASE GpioTransport(t)
    <3>1. \/ \E r, v : GpioWriteActions(r, v)
          \/ UNCHANGED <<out, drive>>
      BY <2>3 DEF GpioTransport, GpioReadActions
    <3>2. QED
      BY <2>1, <2>2, <3>1, GpioWriteKeepsTypes, GpioAccessKeepsTypes
  <2>4. QED
    BY <1>2, <2>2, <2>3 DEF GpioBTransport
<1>3. ASSUME NEW t \in Payloads, GpioTransportDbg(t)
      PROVE  PinTypes'
  <2>1. GpioAccess /\ UNCHANGED <<gpioSize, out, drive, synced, rewritten>>
    BY <1>3 DEF GpioTransportDbg
  <2>2. gpioResponse' \in Responses
    BY <1>3, DebugResponseIsOne DEF GpioTransportDbg, PinTypes
  <2>3. QED
    BY <2>1, <2>2, GpioAccessKeepsTypes DEF PinTypes
<1>4. ASSUME NEW size \in Sizes \cup {0}, GpioConfigure(size)
      PROVE  PinTypes'
  BY <1>4, SizesAreNumbers, GpioAccessKeepsTypes DEF GpioConfigure, PinTypes, Responses
<1>5. CASE GpioUpdate
  <2>1. pin' \in [Pins -> Logic]
    BY <1>5, ResolvedIsLogic DEF GpioUpdate, PinTypes
  <2>2. gpioThread' \in {"waiting", "ready", "posedge"}
    BY <1>5 DEF GpioUpdate, PinTypes
  <2>3. QED
    BY <1>5, <2>1, <2>2 DEF GpioUpdate, PinTypes
<1>6. CASE PortChanged
  BY <1>6 DEF PortChanged, PinTypes
<1>7. CASE GpioThread
  <2>1. notified' \in BOOLEAN
    BY <1>7 DEF GpioThread, PinsInv, Register
  <2>2. QED
    BY <1>7, <2>1 DEF GpioThread, PinTypes
<1>8. CASE GpioTimePasses
  BY <1>8 DEF GpioTimePasses, PinTypes
<1>9. ASSUME NEW p \in Pins, NEW value \in {"0", "1", "Z"}, Outside(p, value)
      PROVE  PinTypes'
  <2>1. pushes' \in 0 .. MaxOutside
    BY <1>9, GpioAssumption DEF Outside, PinTypes
  <2>2. \A q \in Pins : drive'[q] = IF q = p THEN Drive(drive[p], "outside", value) ELSE drive[q]
    BY <1>9 DEF Outside, PinsInv
  <2>3. DrivesTyped(Drive(drive[p], "outside", value))
    BY DriveKeepsTypes DEF PinTypes, Drivers
  <2>4. \A q \in Pins : DrivesTyped(drive'[q])
    BY <2>2, <2>3 DEF PinTypes
  <2>5. QED
    BY <1>9, <2>1, <2>4 DEF Outside, PinTypes
<1>10. QED
  BY <1>1, <1>2, <1>3, <1>4, <1>5, <1>6, <1>7, <1>8, <1>9 DEF GpioNext

ControlWord == [configok : BOOLEAN, running : BOOLEAN, depthend : BOOLEAN]

LEMMA ControlIsTyped ==
  ASSUME NEW c \in ControlWord, NEW run \in BOOLEAN, NEW index
  PROVE  Control(c, run, index) \in ControlWord
<1>1. (index # "illegal" \/ ~run) \in BOOLEAN
  OBVIOUS
<1>2. \A b \in BOOLEAN : [c EXCEPT !.configok = b, !.running = run] \in ControlWord
  BY DEF ControlWord
<1>3. QED
  BY <1>1, <1>2 DEF Control

\* The types that a register access can disturb.
FifoTypes ==
  /\ tx \in ControlWord /\ rx \in ControlWord
  /\ txWord \in BOOLEAN /\ rxWord \in BOOLEAN
  /\ used \in Int /\ txcount \in Int /\ txdropped \in Nat /\ written \in Nat
  /\ interrupted \in BOOLEAN

LEMMA UartTransportKeepsTypes ==
  ASSUME FifoTypes, NEW t, UartTransport(t) \/ UNCHANGED <<control, fifo>>
  PROVE  FifoTypes'
<1>1. CASE UNCHANGED <<control, fifo>>
  BY <1>1 DEF control, fifo, FifoTypes
\* Sending changes the two counters.
<1>2. ASSUME NEW n \in Int, Send(n)
      PROVE  used' \in Int /\ txcount' \in Int
  <2>1. Popped(n) \in Int
    BY DEF Popped
  <2>2. QED
    BY <1>2, <2>1 DEF Send, FifoTypes
<1>3. CASE WriteTxctrl
  <2>1. tx' \in ControlWord /\ txWord' \in BOOLEAN /\ interrupted' \in BOOLEAN
    BY <1>3, ControlIsTyped, UartAssumption DEF WriteTxctrl, FifoTypes, Complains
  <2>2. used' \in Int /\ txcount' \in Int
    BY <1>2, <1>3 DEF WriteTxctrl, FifoTypes
  <2>3. UNCHANGED <<txdropped, written, rx, rxWord>>
    BY <1>3 DEF WriteTxctrl
  <2>4. QED
    BY <2>1, <2>2, <2>3 DEF FifoTypes
<1>4. CASE WriteRxctrl
  <2>1. rx' \in ControlWord /\ rxWord' \in BOOLEAN /\ interrupted' \in BOOLEAN
    BY <1>4, ControlIsTyped, UartAssumption DEF WriteRxctrl, FifoTypes, Complains
  <2>2. UNCHANGED <<tx, txWord, used, txcount, txdropped, written>>
    BY <1>4 DEF WriteRxctrl, fifo
  <2>3. QED
    BY <2>1, <2>2 DEF FifoTypes
<1>5. CASE WriteTxdata
  <2>1. used' \in Int /\ txcount' \in Int
    BY <1>2, <1>5 DEF WriteTxdata, FifoTypes
  <2>2. txdropped' \in Nat /\ written' \in Nat
    BY <1>5 DEF WriteTxdata, FifoTypes
  <2>3. QED
    BY <1>5, <2>1, <2>2 DEF WriteTxdata, control, FifoTypes
<1>6. CASE ReadTxctrl \/ ReadRxctrl
  <2>1. \A c \in ControlWord, b \in BOOLEAN : [c EXCEPT !.depthend = b] \in ControlWord
    BY DEF ControlWord
  <2>2. tx' \in ControlWord /\ rx' \in ControlWord
    BY <1>6, <2>1 DEF ReadTxctrl, ReadRxctrl, FifoTypes
  <2>3. UNCHANGED <<txWord, rxWord, interrupted, used, txcount, txdropped, written>>
    BY <1>6 DEF ReadTxctrl, ReadRxctrl, fifo
  <2>4. QED
    BY <2>2, <2>3 DEF FifoTypes
<1>7. QED
  BY <1>1, <1>3, <1>4, <1>5, <1>6 DEF UartTransport, UartWriteActions, UartReadActions

UartTypes ==
  /\ FifoTypes
  /\ uartSize \in Nat /\ txspeed \in Speed /\ hung \in BOOLEAN
  /\ uartResponse \in Responses

LEMMA UartKeepsTypes ==
  ASSUME UartTypes, UartNext \/ UNCHANGED uartVars
  PROVE  UartTypes'
<1>1. CASE UNCHANGED uartVars
  BY <1>1, UartTransportKeepsTypes DEF uartVars, UartTypes
<1>2. ASSUME NEW t \in Payloads, UartBTransport(t)
      PROVE  UartTypes'
  BY <1>2, UartTransportKeepsTypes, ResponseIsOne DEF UartBTransport, UartAccess, UartTypes
<1>3. ASSUME NEW t \in Payloads, UartTransportDbg(t)
      PROVE  UartTypes'
  <2>1. uartResponse' \in Responses
    BY <1>3, DebugResponseIsOne DEF UartTransportDbg, UartTypes
  <2>2. UNCHANGED <<control, fifo>> /\ UNCHANGED <<uartSize, txspeed, hung>>
    BY <1>3 DEF UartTransportDbg, UartAccess
  <2>3. QED
    BY <2>1, <2>2, UartTransportKeepsTypes DEF UartTypes
<1>4. ASSUME NEW size \in Sizes \cup {0}, UartConfigure(size)
      PROVE  UartTypes'
  BY <1>4, UartTransportKeepsTypes, SizesAreNumbers
     DEF UartConfigure, UartAccess, UartTypes, Responses
<1>5. CASE TxThread \/ RxThread
  BY <1>5, UartTransportKeepsTypes DEF TxThread, RxThread, UartTypes
<1>6. QED
  BY <1>1, <1>2, <1>3, <1>4, <1>5 DEF UartNext

StubTypes == StubInv /\ StubTypeOK

\* Only config_key adds functions.
LEMMA FunctionsAreTypes ==
  ASSUME StubNext, functions \subseteq STRING
  PROVE  functions' \subseteq STRING
<1>1. ASSUME ConfigKey
      PROVE  functions' \subseteq STRING
  <2>1. PICK k \in NewKeys : functions' = functions \cup {k[2].type}
    BY <1>1 DEF ConfigKey
  <2>2. k[2].type \in STRING
    BY StubAssumption
  <2>3. QED
    BY <2>1, <2>2
<1>2. ~ConfigKey => functions' = functions
  BY DEF StubNext, BuildSet, BuildErase, BuildClear, BuildAddKey, BuildDelKey,
         BuildClearKeys, CloneExtension, StubTransportDbg, ProxyTransportDbg, StubBTransport
<1>3. QED
  BY <1>1, <1>2

LEMMA StubKeepsTypes ==
  ASSUME StubTypes, StubNext \/ UNCHANGED stubVars
  PROVE  StubTypes'
<1>0. StubInv' /\ StubInv /\ StubTypeOK
  BY StubKeepsKeys DEF StubTypes
<1>1. CASE UNCHANGED stubVars
  BY <1>0, <1>1 DEF stubVars, StubTypes, StubTypeOK
\* A step that leaves the target alone.
<1>2. ASSUME StubNext, UNCHANGED <<stub, local>>, crashed' \in BOOLEAN,
             builds' \in 0 .. MaxBuilds
      PROVE  StubTypes'
  BY <1>0, <1>2, FunctionsAreTypes DEF StubTypes, StubTypeOK
<1>3. ASSUME StubNext, NEW c, Build(c)
      PROVE  StubTypes'
  <2>1. builds' \in 0 .. MaxBuilds
    <3>1. builds \in 0 .. MaxBuilds
      BY <1>0 DEF StubTypeOK
    <3>2. builds < MaxBuilds /\ builds' = builds + 1
      BY <1>3 DEF Build
    <3>3. MaxBuilds \in Nat
      BY StubAssumption
    <3>4. QED
      BY <3>1, <3>2, <3>3
  <2>2. QED
    BY <1>0, <1>2, <1>3, <2>1 DEF Build, StubTypeOK
<1>4. CASE CloneExtension
  BY <1>0, <1>2, <1>4 DEF CloneExtension, StubTypeOK, StubNext
<1>5. CASE \E ignore \in BOOLEAN : StubTransportDbg(ignore) \/ ProxyTransportDbg(ignore)
  <2>1. \A c, d : IsConfiguration(c) => Update(c, d).dflt = c.dflt
    BY DEF Update, IsConfiguration
  <2>2. stub'.dflt = stub.dflt
    BY <1>0, <1>5, <2>1, ConfigurationsOf DEF StubInv
  <2>3. DOMAIN local' = Local
    BY <1>0, <1>5 DEF StubTransportDbg, ProxyTransportDbg, Configure, StubTypeOK
  <2>4. crashed' \in BOOLEAN
    BY <1>0, <1>5 DEF StubTransportDbg, ProxyTransportDbg, Configure, StubTypeOK
  <2>5. UNCHANGED <<functions, builds>>
    BY <1>5 DEF StubTransportDbg, ProxyTransportDbg
  <2>6. QED
    BY <1>0, <2>2, <2>3, <2>4, <2>5 DEF StubTypes, StubTypeOK
<1>6. ASSUME NEW t \in StubPayloads, StubBTransport(t)
      PROVE  StubTypes'
  BY <1>0, <1>2, <1>6 DEF StubBTransport, StubTypeOK, StubNext
<1>7. QED
  BY <1>1, <1>3, <1>4, <1>5, <1>6
     DEF StubNext, BuildSet, BuildErase, BuildClear, BuildAddKey, ConfigKey, BuildDelKey,
         BuildClearKeys

LEMMA TailsAndHeads ==
  ASSUME NEW S, NEW s \in Seq(S), s # <<>>
  PROVE  Head(s) \in S /\ Tail(s) \in Seq(S)
  BY HeadTailProperties

LEMMA Lengthened ==
  ASSUME NEW S, NEW s \in Seq(S), NEW x \in S
  PROVE  Append(s, x) \in Seq(S)
  BY AppendProperties

\* The states of all receivers are those of TxBlocks.
TxTypes == TxAccounted /\ TxBlocks /\ TxTypeOK

\* Payloads that move stay payloads.
LEMMA MovesKeepTypes ==
  ASSUME NEW S, NEW queue \in Seq(S), NEW read \in Seq(S), NEW tossed \in SUBSET S,
         NEW queue2, NEW read2, NEW tossed2,
         Moves(queue, read, tossed, queue2, read2, tossed2)
  PROVE  queue2 \in Seq(S) /\ read2 \in Seq(S) /\ tossed2 \subseteq S
<1>1. CASE queue2 = queue /\ read2 = read /\ tossed2 = tossed
  BY <1>1
<1>2. CASE /\ queue # <<>> /\ queue2 = Tail(queue)
           /\ \/ read2 = Append(read, Head(queue)) /\ tossed2 = tossed
              \/ read2 = read /\ tossed2 = tossed \cup {Head(queue)}
  <2>1. Head(queue) \in S /\ Tail(queue) \in Seq(S)
    BY <1>2, TailsAndHeads
  <2>2. Append(read, Head(queue)) \in Seq(S)
    BY <2>1, Lengthened
  <2>3. QED
    BY <1>2, <2>1, <2>2
<1>3. QED
  BY <1>1, <1>2 DEF Moves

LEMMA TxKeepsTypes ==
  ASSUME TxTypes, TxNext \/ UNCHANGED txVars
  PROVE  TxTypes'
<1>0. TxAccounted' /\ TxBlocks' /\ TxTypeOK
  BY TxKeepsAccount, TxKeepsBlocks DEF TxTypes
<1>1. txReader' \in [TxReaders -> ReaderStates]
  BY <1>0 DEF TxBlocks
<1>2. CASE UNCHANGED txVars
  BY <1>0, <1>2 DEF txVars, txPast, TxTypes, TxTypeOK
<1>3. CASE Push
  <2>1. txSent + 1 \in 1 .. MaxSent /\ txSent' = txSent + 1
    BY <1>0, <1>3, TxAssumption DEF Push, TxTypeOK
  <2>2. txQueue' \in Seq(1 .. MaxSent)
    BY <1>0, <1>3, <2>1, AppendProperties DEF Push, TxTypeOK
  <2>3. txSent' \in 0 .. MaxSent
    BY <2>1, TxAssumption
  <2>4. QED
    BY <1>0, <1>3, <2>2, <2>3 DEF Push, txPast, TxTypes, TxTypeOK
<1>4. CASE SetReady \/ NotifyAll
  BY <1>0, <1>1, <1>4 DEF SetReady, NotifyAll, txPast, TxTypes, TxTypeOK, ReaderStates
\* A step of a receiver.
<1>5. ASSUME NEW r \in TxReaders, UNCHANGED txSent, txPeeked' \in BOOLEAN,
             TxMoves, UNCHANGED <<txReady, queueMutex, txWriter>>,
             condMutex' \in {condMutex, r, Free},
             \/ UNCHANGED txCall
             \/ \E c \in Calls : txCall' = [txCall EXCEPT ![r] = c]
      PROVE  TxTypes'
  <2>1. /\ txQueue' \in Seq(1 .. MaxSent) /\ txRead' \in Seq(1 .. MaxSent)
        /\ txTossed' \subseteq 1 .. MaxSent
    BY <1>0, <1>5, MovesKeepTypes DEF TxTypeOK, TxMoves
  <2>2. txCall' \in [TxReaders -> Calls]
    BY <1>0, <1>5 DEF TxTypeOK
  <2>3. condMutex' \in TxReaders \cup {Free}
    BY <1>0, <1>5 DEF TxTypeOK
  <2>4. QED
    BY <1>0, <1>1, <1>5, <2>1, <2>2, <2>3 DEF TxTypes, TxTypeOK, ReaderStates
<1>6. ASSUME NEW r \in TxReaders, NEW call \in {"read", "peek"}, TxCall(r, call)
      PROVE  TxTypes'
  BY <1>0, <1>5, <1>6 DEF TxCall, txCond, txPast, TxMoves, Moves, TxTypeOK, Calls
<1>7. ASSUME NEW r \in TxReaders,
             LockCondition(r) \/ CheckReady(r) \/ FallAsleep(r) \/ Relock(r) \/ SpuriousWakeup(r)
      PROVE  TxTypes'
  BY <1>0, <1>5, <1>7
     DEF LockCondition, CheckReady, FallAsleep, Relock, SpuriousWakeup, txCond, txPast,
         TxMoves, Moves, TxTypeOK
<1>8. ASSUME NEW r \in TxReaders, BeginDrop(r)
      PROVE  TxTypes'
  BY <1>0, <1>5, <1>8 DEF BeginDrop, txCond, txPast, TxMoves, Moves, TxTypeOK, Calls
<1>9. ASSUME NEW r \in TxReaders, NEW call, NonBlocking(r, call)
      PROVE  TxTypes'
  <2>1. txPeeked' \in BOOLEAN
    BY <1>0, <1>9 DEF NonBlocking, NbRead, NbPeek, TxTypeOK
  <2>2. QED
    BY <1>0, <1>5, <1>9, <2>1 DEF NonBlocking, NbRead, NbPeek, txCond, txPast, TxMoves, Moves
<1>10. ASSUME NEW r \in TxReaders, Take(r) \/ Drop(r)
       PROVE  TxTypes'
  <2>1. txPeeked' \in BOOLEAN
    BY <1>0, <1>10 DEF Take, Drop, NbRead, NbPeek, TxTypeOK
  <2>2. QED
    BY <1>0, <1>5, <1>10, <2>1 DEF Take, Drop, NbRead, NbPeek, txCond, txPast, TxMoves, Moves
<1>11. QED
  BY <1>2, <1>3, <1>4, <1>6, <1>7, <1>8, <1>9, <1>10 DEF TxNext

LEMMA RxQueueKeepsTypes ==
  ASSUME RxTypeOK, RxMoves
  PROVE  /\ rxQueue' \in Seq(1 .. MaxArrived) /\ rxRead' \in Seq(1 .. MaxArrived)
         /\ rxTossed' \subseteq 1 .. MaxArrived
  BY MovesKeepTypes DEF RxTypeOK, RxMoves

LEMMA RxTakeKeepsTypes ==
  ASSUME RxTypeOK, NEW call, RxTake(call)
  PROVE  /\ rxQueue' \in Seq(1 .. MaxArrived) /\ rxRead' \in Seq(1 .. MaxArrived)
         /\ rxTossed' \subseteq 1 .. MaxArrived /\ rxPeeked' \in BOOLEAN
<1>1. RxMoves
  BY DEF RxTake, RxNbRead, RxNbPeek, rxPast, RxMoves, Moves
<1>2. rxPeeked' \in BOOLEAN
  BY DEF RxTake, RxNbRead, RxNbPeek, rxPast, RxTypeOK
<1>3. QED
  BY <1>1, <1>2, RxQueueKeepsTypes

LEMMA RxKeepsTypes ==
  ASSUME RxTypeOK, RxNext \/ UNCHANGED rxVars
  PROVE  RxTypeOK'
<1>1. CASE UNCHANGED rxVars
  BY <1>1 DEF rxVars, rxPast, RxTypeOK
<1>2. CASE RxNotify
  <2>1. rxSent + 1 \in 1 .. MaxArrived /\ rxSent' = rxSent + 1
    BY <1>2, RxAssumption DEF RxNotify, RxTypeOK
  <2>2. rxQueue' \in Seq(1 .. MaxArrived)
    BY <1>2, <2>1, AppendProperties DEF RxNotify, RxTypeOK
  <2>3. rxSent' \in 0 .. MaxArrived
    BY <2>1, RxAssumption
  <2>4. QED
    BY <1>2, <2>2, <2>3 DEF RxNotify, rxPast, RxTypeOK
<1>3. CASE RxUpdate
  BY <1>3 DEF RxUpdate, rxPast, RxTypeOK
<1>4. ASSUME NEW p \in Processes, NEW call \in {"read", "peek"}, RxNonBlocking(p, call)
      PROVE  RxTypeOK'
  BY <1>4, RxTakeKeepsTypes DEF RxNonBlocking, RxTypeOK
<1>5. ASSUME NEW p \in Processes, NEW call \in {"read", "peek"}, RxCall(p, call)
      PROVE  RxTypeOK'
  <2>1. /\ rxQueue' \in Seq(1 .. MaxArrived) /\ rxRead' \in Seq(1 .. MaxArrived)
        /\ rxTossed' \subseteq 1 .. MaxArrived /\ rxPeeked' \in BOOLEAN
    BY <1>5, RxTakeKeepsTypes DEF RxCall, rxPast, RxTypeOK
  <2>2. /\ rxProcess' \in [Processes -> {"idle", "waiting", "woken"}]
        /\ kernel' \in {"running", "blocked", "error"}
    BY <1>5 DEF RxCall, RxTypeOK
  <2>3. rxCalled' \in [Processes -> {"read", "peek"}]
    BY <1>5 DEF RxCall, RxTypeOK
  <2>4. QED
    BY <1>5, <2>1, <2>2, <2>3 DEF RxCall, RxTypeOK
<1>6. ASSUME NEW p \in Processes, RxDrop(p)
      PROVE  RxTypeOK'
  <2>1. /\ rxQueue' \in Seq(1 .. MaxArrived) /\ rxRead' \in Seq(1 .. MaxArrived)
        /\ rxTossed' \subseteq 1 .. MaxArrived
    BY <1>6, RxQueueKeepsTypes DEF RxDrop, RxMoves, Moves
  <2>2. rxProcess' \in [Processes -> {"idle", "waiting", "woken"}]
    BY <1>6 DEF RxDrop, RxTypeOK
  <2>3. QED
    BY <1>6, <2>1, <2>2 DEF RxDrop, RxTypeOK
<1>7. ASSUME NEW p \in Processes, RxResume(p)
      PROVE  RxTypeOK'
  <2>1. /\ rxQueue' \in Seq(1 .. MaxArrived) /\ rxRead' \in Seq(1 .. MaxArrived)
        /\ rxTossed' \subseteq 1 .. MaxArrived /\ rxPeeked' \in BOOLEAN
    BY <1>7, RxTakeKeepsTypes DEF RxResume
  <2>2. QED
    BY <1>7, <2>1 DEF RxResume, RxTypeOK
<1>8. QED
  BY <1>1, <1>2, <1>3, <1>4, <1>5, <1>6, <1>7 DEF RxNext

PartsTyped ==
  PinsInv /\ PinTypes /\ PicInv /\ UartTypes /\ StubTypes /\ TxTypes /\ RxTypeOK

LEMMA PartsStartTyped == Init /\ PinsInv /\ PicInv /\ StubInv /\ TxAccounted /\ TxBlocks => PartsTyped
<1> SUFFICES ASSUME Init, PinsInv, PicInv, StubInv, TxAccounted, TxBlocks
             PROVE  PartsTyped
  OBVIOUS
<1>1. PinTypes
  <2>0. GpioInit
    BY DEF Init
  <2>1. \A p \in Pins : DrivesTyped(drive[p])
    BY <2>0 DEF GpioInit, DrivesTyped, Drivers
  <2>2. /\ pin \in [Pins -> Logic]
        /\ gpioSize \in Nat /\ gpioResponse \in Responses
    BY <2>0, PortAssumption DEF GpioInit, Logic, Responses
  <2>3. 0 \in 0 .. MaxAccesses /\ 0 \in 0 .. MaxOutside
    BY GpioAssumption
  <2>4. QED
    BY <2>0, <2>1, <2>2, <2>3, Zenon DEF GpioInit, PinTypes
<1>2. UartTypes
  <2>0. UartInit
    BY DEF Init
  <2>1. tx \in ControlWord /\ rx \in ControlWord
    BY <2>0 DEF UartInit, ControlWord
  <2>2. txspeed \in Speed
    BY <2>0 DEF UartInit, SpeedOf, Speed
  <2>3. uartSize \in Nat /\ uartResponse \in Responses
    BY <2>0, PortAssumption DEF UartInit, Responses
  <2>4. used \in Int /\ txcount \in Int /\ txdropped \in Nat /\ written \in Nat
    BY <2>0 DEF UartInit
  <2>5. QED
    BY <2>0, <2>1, <2>2, <2>3, <2>4, Zenon DEF UartInit, UartTypes, FifoTypes
<1>3. StubTypes
  <2>0. StubInit
    BY DEF Init
  <2>1. functions \subseteq STRING
    BY <2>0, StubAssumption DEF StubInit
  <2>2. stub.dflt = Defaults
    BY <2>0 DEF StubInit, Constructed, Empty
  <2>3. 0 \in 0 .. MaxBuilds
    BY StubAssumption
  <2>4. QED
    BY <2>0, <2>1, <2>2, <2>3 DEF StubInit, StubTypes, StubTypeOK
<1>4. TxTypes
  <2>0. TxInit
    BY DEF Init
  <2>1. <<>> \in Seq(1 .. MaxSent) /\ 0 \in 0 .. MaxSent
    BY TxAssumption
  <2>2. txCall \in [TxReaders -> Calls] /\ txReader \in [TxReaders -> ReaderStates]
    BY <2>0 DEF TxInit, Calls, ReaderStates
  <2>3. QED
    BY <2>0, <2>1, <2>2 DEF TxInit, TxTypes, TxTypeOK, ReaderStates
<1>5. RxTypeOK
  <2>0. RxInit
    BY DEF Init
  <2>1. <<>> \in Seq(1 .. MaxArrived) /\ 0 \in 0 .. MaxArrived
    BY RxAssumption
  <2>2. QED
    BY <2>0, <2>1 DEF RxInit, RxTypeOK
<1>6. QED
  BY <1>1, <1>2, <1>3, <1>4, <1>5 DEF PartsTyped

LEMMA PartsKeepTypes == PartsTyped /\ [Next]_vars => PartsTyped'
  BY StepOfPart, GpioKeepsPins, GpioKeepsTypes, PicKeepsTypes, UartKeepsTypes, StubKeepsTypes,
     TxKeepsTypes, RxKeepsTypes DEF PartsTyped

LEMMA TypedPartsAreTypeOK == PartsTyped => TypeOK
<1> SUFFICES ASSUME PartsTyped PROVE TypeOK
  OBVIOUS
<1>1. GpioTypeOK
  BY DEF PartsTyped, PinsInv, PinTypes, DrivesTyped, GpioTypeOK
<1>2. UartTypeOK
  BY DEF PartsTyped, UartTypes, FifoTypes, ControlWord, UartTypeOK
<1>3. QED
  BY <1>1, <1>2, PicInvTypes DEF PartsTyped, StubTypes, TxTypes, TypeOK

\* Every variable of every part keeps its type, for any number of pins, sources,
\* threads and payloads, any sizes and any defaults of a configuration.
THEOREM PeripheralTypesAlways == Spec => []TypeOK
<1>1. Init => PartsTyped
  <2>1. Init => StubInv
    BY Originals DEF Init, StubInit, StubInv
  <2>2. Init => TxBlocks
    BY DEF Init, TxInit, TxBlocks, BlocksUntilSent, ReaderStates
  <2>3. QED
    BY <2>1, <2>2, PinsStart, PicStarts, ChannelsStart, PartsStartTyped
<1>2. PartsTyped /\ [Next]_vars => PartsTyped'
  BY PartsKeepTypes
<1>3. PartsTyped => TypeOK
  BY TypedPartsAreTypeOK
<1>4. QED
  BY <1>1, <1>2, <1>3, PTL DEF Spec
===============================================================================
