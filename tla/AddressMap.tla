------------------------------ MODULE AddressMap ------------------------------
(***************************************************************************)
(* The address map of a Bus_module (bus/bus.cpp), as operators on the set  *)
(* of its entries.  The code keeps a std::map that is ordered by falling   *)
(* addresses, so lower_bound( address ) is the entry with the largest base *)
(* that is not above the address.                                          *)
(*                                                                         *)
(* A line of the memory map file (bus/memory_map.cpp) gives a target its   *)
(* base and its size; an entry adds the last address and the port.  A port *)
(* is named by the target that is bound to it.                             *)
(*                                                                         *)
(* Addresses are unsigned 64-bit and sizes unsigned 32-bit integers: their *)
(* arithmetic is modulo AddrMod and SizeMod.                               *)
(***************************************************************************)
EXTENDS Integers

CONSTANTS AddrMod,      \* how many values an Addr_t has
          SizeMod,      \* how many values a Depth_t has
          Nodes,        \* names of buses and targets
          BadPort

ASSUME AddressMapAssumption ==
  /\ AddrMod \in Nat \ {0, 1}
  /\ SizeMod \in Nat \ {0}
  /\ BadPort \notin Nodes

Address == 0 .. AddrMod - 1
Size    == 0 .. SizeMod - 1
MaxAddr == AddrMod - 1
BadAddr == AddrMod - 2
NoSize  == -1           \* a configuration without a target_size

Line  == [name : Nodes, base : Address, size : Size]
Entry == [name : Nodes, base : Address, size : Size, last : Address,
          port : Nodes \cup {BadPort}]

Last(base, size) == (base + size - 1) % AddrMod

\* read_yaml and get_address_map: no port is known yet.
Unprobed(line) ==
  [name |-> line.name, base |-> line.base, size |-> line.size,
   last |-> IF line.size = 0 THEN 0 ELSE Last(line.base, line.size),
   port |-> BadPort]

\* Variant: the last address of the file is kept.
ProbedKeepsLast(e, size) ==
  IF size = NoSize THEN e
  ELSE [e EXCEPT !.port = e.name, !.size = IF size = 0 THEN e.size ELSE size]

\* The part of build_port_map for a port whose target reports the name of e
\* and this size.  A target without a size gets the one in the file.
Probed(e, size) ==
  IF size = NoSize THEN e
  ELSE LET s == IF size = 0 THEN e.size ELSE size
       IN [e EXCEPT !.port = e.name, !.size = s, !.last = Last(e.base, s)]

\* build_port_map: the map of a bus with these lines whose ports are bound to
\* the targets in bound; size is what each target reports.
Build(lines, bound, size) ==
  {IF line.name \in bound THEN Probed(Unprobed(line), size[line.name]) ELSE Unprobed(line)
     : line \in lines}

\* The errors that check_port_map_and_update_configuration looks for.
Faulty(e)      == e.base \in {BadAddr, MaxAddr} \/ e.last < e.base
Overlap(e, f)  == e.base < f.base /\ f.base <= e.last
MapErrors(map) == \E e \in map : Faulty(e) \/ \E f \in map : Overlap(e, f)

\* The errors that build_port_map looks for: a target without a size, and one
\* that is bound to the bus and has no line.
ProbeErrors(map, bound, size) ==
  \E n \in bound :
    /\ size[n] # NoSize
    /\ \A e \in map : e.name = n => e.size = 0

\* The target_size that a bus with this map reports.
BusSize(map) ==
  LET sound == {e \in map : ~Faulty(e)}
      Lower == CHOOSE x \in {e.base : e \in sound} \cup {MaxAddr} :
                 \A e \in sound : x <= e.base
      Upper == CHOOSE x \in {e.last : e \in sound} \cup {0} :
                 \A e \in sound : x >= e.last
  IN (Upper - Lower) % SizeMod

-----------------------------------------------------------------------------
(* decode_address *)

Below(map, a)   == {e \in map : e.base <= a}
Closest(map, a) == CHOOSE e \in Below(map, a) : \A f \in Below(map, a) : f.base <= e.base
Nowhere         == [port |-> BadPort, address |-> BadAddr]

Covered(map, a) ==
  /\ a # BadAddr
  /\ Below(map, a) # {}
  /\ Closest(map, a).base \notin {BadAddr, MaxAddr}
  /\ a <= Closest(map, a).last

Decode(map, a) ==
  IF Covered(map, a)
    THEN [port |-> Closest(map, a).port, address |-> a - Closest(map, a).base]
    ELSE Nowhere
=============================================================================
