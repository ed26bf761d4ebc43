----------------------------- MODULE MCPeripherals -----------------------------
(***************************************************************************)
(* Two pins, three interrupt sources, and a few payloads: every register   *)
(* with a handler, one address behind the registers, and one payload for   *)
(* each reason to refuse it.                                               *)
(***************************************************************************)
EXTENDS Peripherals

Words(command, addresses) ==
  [command : {command}, address : addresses, length : {4},
   byteEnables : {FALSE}, streaming : {FALSE}]

Refused == {[command |-> "write", address |-> a, length |-> l,
             byteEnables |-> b, streaming |-> s] :
              a \in {0, 2}, l \in {4, 6}, b \in BOOLEAN, s \in BOOLEAN}

MCPayloads ==
  Words("write", {8 * k : k \in 0 .. 13} \cup {4, 12, 20, 28}) \cup Words("read", {0, 8, 16, 24})
  \cup Words("ignore", {0})
  \cup {t \in Refused : Cardinality({x \in 1 .. 4 : <<t.address = 2, t.length = 6,
                                      t.byteEnables, t.streaming>>[x]}) = 1}

MCSizes == {128}
MCPins == 0 .. 1
MCPowerUp == {[r \in Register |-> on] : on \in BOOLEAN}

AnyOf(type, value) == [type |-> type, value |-> value]
MCDefaults == [target_size |-> AnyOf("Depth_t", 0), access |-> AnyOf("Access", "none"),
               dmi_allowed |-> AnyOf("Feature", "none")]
MCBuilt == [target_size |-> AnyOf("Depth_t", 8), access |-> AnyOf("Access", "RW"),
            dmi_allowed |-> AnyOf("Feature", "none")]
MCRequired == {"target_size"}
MCSettings == {<<"target_size", AnyOf("Depth_t", 4)>>, <<"target_size", AnyOf("int", 4)>>,
               <<"access", AnyOf("Access", "RO")>>, <<"dmi_allowed", AnyOf("Feature", "enabled")>>,
               <<"debug", AnyOf("bool", "true")>>}
MCNewKeys == {<<"debug", AnyOf("bool", "false")>>}

\* A device that is idle starts in one of its initial states.
IdleIsFixed ==
  /\ device # "gpio" => gpioReg = [r \in Register |-> FALSE] /\ ~overlay
  /\ device # "uart" => txspeed = "SLOW" /\ ~txWord /\ ~rxWord

MCInit == Init /\ IdleIsFixed
MCSpec == MCInit /\ [][Next]_vars

MCStubPayloads == Words("write", {0, 8}) \cup Words("read", {4})
===============================================================================
