------------------------------ MODULE TargetPort ------------------------------
(***************************************************************************)
(* What the accesses of software look like to a register target (gpio, pic,*)
(* uart): the fields of a generic payload that payload_is_ok tests, without*)
(* its data.  The three targets share this code line by line.              *)
(***************************************************************************)
EXTENDS Naturals

CONSTANTS Payloads,     \* the transactions that initiators send
          Sizes         \* what m_target_size holds, which no constructor sets

Payload == [command     : {"read", "write", "ignore"},
            address     : Nat,
            length      : Nat,
            byteEnables : BOOLEAN,   \* get_byte_enable_ptr() is not null
            streaming   : BOOLEAN]   \* get_streaming_width() is less than the length

ASSUME PortAssumption == Payloads \subseteq Payload /\ Sizes \subseteq Nat

Responses == {"none", "TLM_OK", "TLM_ADDRESS_ERROR", "TLM_BYTE_ENABLE_ERROR",
              "TLM_BURST_ERROR", "TLM_GENERIC_ERROR"}

Aligned(n) == n % 4 = 0

\* The response of a register file of "size" bytes to payload t of which "len"
\* bytes are asked for; the tests are made in this order.
RegisterResponse(t, len, size) ==
  IF t.address + len >= size \/ ~Aligned(t.address) THEN "TLM_ADDRESS_ERROR"
  ELSE IF t.byteEnables THEN "TLM_BYTE_ENABLE_ERROR"
  ELSE IF ~Aligned(len) THEN "TLM_BURST_ERROR"
  ELSE IF t.streaming THEN "TLM_GENERIC_ERROR"
  ELSE "TLM_OK"

\* transport_dbg cuts an access that ends behind the size of the target, one
\* byte too late; the unsigned length wraps for an access far behind it, which
\* is refused either way.
Truncated(t, size) ==
  LET end == t.address + t.length - 1
  IN IF end > size /\ end - size <= t.length THEN t.length - (end - size) ELSE t.length

\* transport_dbg does nothing but configure for the command "ignore", and leaves
\* the response "before" when it accepts the payload.
DebugResponse(t, size, before) ==
  LET response == RegisterResponse(t, Truncated(t, size), size)
  IN IF t.command = "ignore" THEN "TLM_OK"
     ELSE IF response = "TLM_OK" THEN before ELSE response
===============================================================================
