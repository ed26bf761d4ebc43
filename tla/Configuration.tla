----------------------------- MODULE Configuration -----------------------------
(***************************************************************************)
(* The configuration of a target (config/configuration.hpp and .cpp): the  *)
(* values that were set, the keys with their defaults, and the keys that   *)
(* are required.  A value is a boost::any: it knows its type, and is used  *)
(* through functions that are stored under that type once config_key has   *)
(* declared a key of it.                                                   *)
(***************************************************************************)
EXTENDS Naturals

CONSTANTS Defaults,     \* set_defaults: the value of each field
          RequiredKeys  \* set_defaults: the fields that are required

Value == [type : STRING, value : Nat \cup STRING]

Empty == [data |-> <<>>, dflt |-> Defaults, reqd |-> RequiredKeys]

\* The entries of map g, and those of map f whose key g does not have.
Overwritten(f, g) ==
  [k \in DOMAIN f \cup DOMAIN g |-> IF k \in DOMAIN g THEN g[k] ELSE f[k]]

\* Map f with one entry.
With(f, key, v) == Overwritten(f, [k \in {key} |-> v])

IsKey(c, field)  == field \in DOMAIN c.dflt
HasKey(c, field) == field \in DOMAIN c.data
IsEmpty(c) == DOMAIN c.data = {}

\* A key without a value takes a value of any type; one with a value keeps its
\* type.  Anything else is ignored with a warning.
Set(c, field, v) ==
  IF IsKey(c, field) /\ (~HasKey(c, field) \/ c.data[field].type = v.type)
    THEN [c EXCEPT !.data = With(@, field, v)] ELSE c

\* The value, else the default, whichever has the type asked for; else what the
\* caller had.
Get(c, field, type, old) ==
  IF HasKey(c, field) /\ c.data[field].type = type THEN c.data[field].value
  ELSE IF IsKey(c, field) /\ c.dflt[field].type = type THEN c.dflt[field].value
  ELSE old

UpdateReplaces(c, rhs) == [c EXCEPT !.data = rhs.data]
UpdateKeysToo(c, rhs)  == [c EXCEPT !.data = Overwritten(@, rhs.data), !.dflt = rhs.dflt]

\* "Does not remove pre-existing data unless overwritten"
Update(c, rhs) == [c EXCEPT !.data = Overwritten(@, rhs.data)]

Erase(c, field) ==
  [c EXCEPT !.data = [f \in DOMAIN @ \ {field} |-> @[f]]]

ClearData(c) == [c EXCEPT !.data = <<>>]

AddKey(c, field, v, reqd) ==
  IF IsKey(c, field) THEN c
  ELSE [c EXCEPT !.dflt = With(@, field, v),
                 !.reqd = IF reqd THEN @ \cup {field} ELSE @]

DelKeyKeepsRequired(c, field) ==
  [c EXCEPT !.dflt = [f \in DOMAIN @ \ {field} |-> @[f]]]

DelKey(c, field) ==
  [c EXCEPT !.dflt = [f \in DOMAIN @ \ {field} |-> @[f]], !.reqd = @ \ {field}]

ClearKeys(c) == [c EXCEPT !.dflt = <<>>, !.reqd = {}]

\* The copy constructor and the assignment call the function stored under the type
\* of each value, and there is none under the type of a key that only addkey knows.
TypesOf(c) == {c.data[f].type : f \in DOMAIN c.data} \cup {c.dflt[f].type : f \in DOMAIN c.dflt}

Copies(c, functions) == TypesOf(c) \subseteq functions
===============================================================================
