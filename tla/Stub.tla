--------------------------------- MODULE Stub ---------------------------------
(***************************************************************************)
(* A target that is configured through transactions: Stub_module           *)
(* (top/stub.cpp) behind a Config_proxy (config/config_proxy.cpp) or       *)
(* without one, and software that builds a configuration, sends it in the  *)
(* extension of a debug transaction, and accesses the target.              *)
(*                                                                         *)
(* Of the nine settings that the stub copies into variables of its own,    *)
(* three are kept: one that decides whether an access fits, one that       *)
(* decides whether it may write, and the one whose key is misspelt.        *)
(***************************************************************************)
EXTENDS Configuration

CONSTANTS Built,        \* the values the constructor sets: field -> value
          Settings,     \* values that software sets: <<field, value>>
          NewKeys,      \* keys that software adds: <<field, default>>
          StubPayloads, \* accesses: command, address, length, streaming
          MaxBuilds     \* bound: operations on the configuration

Local == {"target_size", "access", "dmi_allowed"}
TypeOf == [f \in Local |-> Defaults[f].type]

ASSUME StubAssumption == /\ Local \subseteq DOMAIN Defaults /\ Local \subseteq DOMAIN Built
                         /\ RequiredKeys \subseteq DOMAIN Defaults
                         /\ \A f \in DOMAIN Defaults : Defaults[f].type \in STRING
                         /\ \A k \in NewKeys : k[2].type \in STRING
                         /\ MaxBuilds \in Nat

VARIABLES stub,         \* m_configuration of the target
          local,        \* its own copies of the settings
          extn,         \* the configuration in the extension of the transaction
          functions,    \* the types in s_function
          crashed,      \* a function that is not stored was called
          stubResponse, \* response status of the last access
          builds        \* bound

stubVars == <<stub, local, extn, functions, crashed, stubResponse, builds>>

Constructed == [Empty EXCEPT !.data = Built]

\* The proxy sets the same fields, and nothing changes them.
Proxied == [Empty EXCEPT !.data = [f \in DOMAIN Built \ {"dmi_allowed"} |-> Built[f]]]

StubInit ==
  /\ stub = Constructed
  /\ local = [f \in Local |-> Built[f].value]
  /\ extn = Empty
  /\ functions = {Defaults[f].type : f \in DOMAIN Defaults}
  /\ crashed = FALSE
  /\ stubResponse = "none"
  /\ builds = 0

-----------------------------------------------------------------------------
(* Software builds a configuration *)

Build(c) ==
  /\ ~crashed
  /\ builds < MaxBuilds
  /\ builds' = builds + 1
  /\ extn' = c
  /\ UNCHANGED <<stub, local, crashed, stubResponse>>

BuildSet    == \E s \in Settings : Build(Set(extn, s[1], s[2])) /\ UNCHANGED functions
BuildErase  == \E f \in DOMAIN extn.data : Build(Erase(extn, f)) /\ UNCHANGED functions
BuildClear  == Build(ClearData(extn)) /\ UNCHANGED functions
BuildDelKey == \E f \in DOMAIN extn.dflt : Build(DelKey(extn, f)) /\ UNCHANGED functions
BuildClearKeys == Build(ClearKeys(extn)) /\ UNCHANGED functions
BuildAddKey ==
  \E k \in NewKeys, reqd \in BOOLEAN :
    Build(AddKey(extn, k[1], k[2], reqd)) /\ UNCHANGED functions

\* config_key adds a key and stores the functions of its type.
ConfigKey ==
  \E k \in NewKeys, reqd \in BOOLEAN :
    /\ Build(AddKey(extn, k[1], k[2], reqd))
    /\ functions' = functions \cup {k[2].type}

-----------------------------------------------------------------------------
(* The configuration travels *)

\* clone() or copy_from() of the extension, which is how a transaction is copied.
CloneExtension ==
  /\ ~crashed
  /\ crashed' = ~Copies(extn, functions)
  /\ UNCHANGED <<stub, local, extn, functions, stubResponse, builds>>

\* The key under which the stub asks for a setting: one has a blank at its end.
KeyOf(f) == IF f = "dmi_allowed" THEN "dmi_allowed " ELSE f

\* configure(): an empty configuration is filled with that of the target, and any
\* other updates it.  The copies are taken from the extension, not from the result.
Configure ==
  IF IsEmpty(extn)
    THEN /\ crashed' = ~Copies(stub, functions)
         /\ extn' = IF crashed' THEN extn ELSE stub
         /\ UNCHANGED <<stub, local>>
    ELSE /\ stub' = Update(stub, extn)
         /\ local' = [f \in Local |-> Get(extn, KeyOf(f), TypeOf[f], local[f])]
         /\ UNCHANGED <<extn, crashed>>

\* What is answered when configuring was all that was asked for.
ConfigOnly(ignore) == stubResponse' = IF ignore THEN "TLM_OK" ELSE stubResponse

\* transport_dbg of the stub configures and does nothing else, whatever the command.
StubTransportDbg(ignore) ==
  /\ ~crashed
  /\ Configure
  /\ ConfigOnly(ignore)
  /\ UNCHANGED <<functions, builds>>

\* The proxy answers an empty configuration with its own.  It forwards the
\* transaction unless its command is "ignore", which is that of a probe.
ProxyTransportDbg(ignore) ==
  /\ ~crashed
  /\ IF IsEmpty(extn)
       THEN /\ crashed' = ~Copies(Proxied, functions)
            /\ extn' = IF crashed' THEN extn ELSE Proxied
            /\ IF ignore \/ crashed' THEN UNCHANGED <<stub, local>>
               ELSE /\ stub' = Update(stub, extn')
                    /\ local' = [f \in Local |-> Get(extn', KeyOf(f), TypeOf[f], local[f])]
       ELSE IF ignore THEN UNCHANGED <<stub, local, extn, crashed>> ELSE Configure
  /\ ConfigOnly(ignore)
  /\ UNCHANGED <<functions, builds>>

-----------------------------------------------------------------------------
(* Accesses *)

\* payload_is_ok and transport, which answers without doing anything.
ResponseOf(t) ==
  IF t.address + t.length >= local["target_size"] THEN "TLM_ADDRESS_ERROR"
  ELSE IF t.byteEnables THEN "TLM_BYTE_ENABLE_ERROR"
  ELSE IF t.streaming THEN "TLM_GENERIC_ERROR"
  ELSE IF local["access"] = "RO" /\ t.command = "write" THEN "TLM_COMMAND_ERROR"
  ELSE "TLM_OK"

StubBTransport(t) ==
  /\ ~crashed
  /\ stubResponse' = ResponseOf(t)
  /\ UNCHANGED <<stub, local, extn, functions, crashed, builds>>

StubNext ==
  \/ BuildSet \/ BuildErase \/ BuildClear \/ BuildAddKey \/ ConfigKey
  \/ BuildDelKey \/ BuildClearKeys
  \/ CloneExtension
  \/ \E ignore \in BOOLEAN : StubTransportDbg(ignore) \/ ProxyTransportDbg(ignore)
  \/ \E t \in StubPayloads : StubBTransport(t)

-----------------------------------------------------------------------------
(* Properties *)

StubTypeOK ==
  /\ DOMAIN stub.dflt = DOMAIN Defaults
  /\ DOMAIN local = Local
  /\ functions \subseteq STRING
  /\ crashed \in BOOLEAN
  /\ builds \in 0 .. MaxBuilds

\* Through any sequence of keys added, removed and copied between software, proxy
\* and target, a field that is required is a key (configuration.cpp:159-197): what
\* has_reqd() asks for can be set.
RequiredAreKeys == \A c \in {extn, stub} : c.reqd \subseteq DOMAIN c.dflt

\* "Does not remove pre-existing data unless overwritten" (configuration.hpp:49):
\* no transaction, direct or through the proxy, makes the target forget a field,
\* and a field changes only to the value that was sent.
NothingForgotten ==
  [][\A f \in DOMAIN stub.data :
       /\ f \in DOMAIN stub'.data
       /\ stub'.data[f] # stub.data[f] =>
            f \in DOMAIN extn'.data /\ stub'.data[f] = extn'.data[f]]_stubVars
===============================================================================
