----------------------------- MODULE MemorySystem -----------------------------
(***************************************************************************)
(* Memories behind two nested buses: bus/bus.cpp, bus/memory_map.cpp and   *)
(* memory/memory.cpp, put together as in top/top.cpp.                      *)
(*                                                                         *)
(* The processor is bound to the bus North and North to the bus South; on  *)
(* the smallest platform (Platform::TRIVIAL) it is bound to one memory and *)
(* there is no bus.  At the start of simulation each bus reads its lines   *)
(* of the memory map file and probes its ports with transport_dbg.  Then   *)
(* software reads and writes, with b_transport or with transport_dbg.      *)
(*                                                                         *)
(* top.cpp has peripherals on South, whose register files are bounded and  *)
(* addressed like a memory; here there are memories on both buses.         *)
(***************************************************************************)
EXTENDS AddressMap, Sequences

CONSTANTS North, South,
          Memories, ReadOnly,
          Bound,        \* the targets that are bound to each bus
          TargetSize,   \* the size each memory is constructed with
          StartOrder,   \* the buses, in the order of their construction
          Files,        \* memory map files
          Roots,        \* what the processor may be bound to
          KB,           \* by how much a memory expands
          Zero, Fill,   \* what the first byte and the others hold at first
          Values,
          MaxLength     \* the longest access software makes

Buses == {North, South}

LineOf(f, b, n) == CHOOSE l \in f.lines[b] : l.name = n

\* Names and bases are unique on a bus, South starts at its address zero, and
\* the file gives South the same address twice, as an entry and as a router.
ConsistentFile(f) ==
  /\ \A b \in Buses : \A k, l \in f.lines[b] :
       k.name = l.name \/ k.base = l.base => k = l
  /\ \A l \in f.lines[North] : l.name = South => l.base = f.addr[South]
  /\ \E l \in f.lines[South] : l.base = 0
  /\ f.addr[North] = 0

ASSUME MemorySystemAssumption ==
  /\ North # South /\ Buses \cup Memories \subseteq Nodes /\ Buses \cap Memories = {}
  /\ ReadOnly \subseteq Memories /\ Roots \subseteq {North} \cup Memories
  /\ Bound \in [Buses -> SUBSET Nodes]
  /\ TargetSize \in [Memories -> Size \ {0}]
  /\ Files \subseteq [lines : [Buses -> SUBSET Line], addr : [Buses -> Address]]
  /\ \A f \in Files : ConsistentFile(f)
  /\ {Zero, Fill} \subseteq Values /\ KB \in Nat /\ MaxLength \in Nat

VARIABLES file,         \* the memory map file
          root,         \* what the processor is bound to
          starting,     \* buses whose start_of_simulation is to come
          addrMap,      \* m_addr_map of each bus
          busSize,      \* target_size in m_configuration of each bus
          reported,     \* an error of the address maps has been reported
          store,        \* m_mem_vec of each memory
          answer        \* the last access and its response

platform == <<file, root, starting, addrMap, busSize, reported>>
vars == <<platform, store, answer>>

Accepted(op, a, data) == [op |-> op, address |-> a, data |-> data, done |-> TRUE]
Refused(op, a)        == [op |-> op, address |-> a, data |-> <<>>, done |-> FALSE]

Init ==
  /\ file \in Files
  /\ root \in Roots
  /\ root # North => file = CHOOSE f \in Files : TRUE     \* nobody reads it
  /\ starting = IF root = North THEN StartOrder ELSE <<>>
  /\ addrMap = [b \in Buses |-> {}]
  /\ busSize = [b \in Buses |-> NoSize]
  /\ reported = FALSE
  /\ store = [m \in Memories |-> <<Zero>>]
  /\ answer = Refused("none", 0)

-----------------------------------------------------------------------------
(* Elaboration *)

\* Variant: the content is filled anew.
ResizedAnew(mem, depth) == [i \in 1 .. depth |-> IF i = 1 THEN Zero ELSE Fill]

\* Memory_module::resize
Resized(mem, depth) ==
  [i \in 1 .. depth |-> IF i <= Len(mem) THEN mem[i] ELSE Fill]

\* A probe of a memory makes it as large as it was constructed.
Full(m) == Resized(store[m], TargetSize[m])

StartOfSimulation ==
  /\ starting # <<>>
  /\ LET b    == Head(starting)
         size == [n \in Bound[b] |-> IF n \in Memories THEN TargetSize[n] ELSE busSize[n]]
         map  == Build(file.lines[b], Bound[b], size)
     IN /\ addrMap' = [addrMap EXCEPT ![b] = map]
        /\ busSize' = [busSize EXCEPT ![b] = BusSize(map)]
        /\ reported' = (reported \/ MapErrors(map) \/ ProbeErrors(map, Bound[b], size))
        /\ store' = [m \in Memories |-> IF m \in Bound[b] THEN Full(m) ELSE store[m]]
  /\ starting' = Tail(starting)
  /\ UNCHANGED <<file, root, answer>>

-----------------------------------------------------------------------------
(* Accesses *)

\* The forward path of b_transport and of transport_dbg.
Route(a) ==
  IF root # North THEN [port |-> root, address |-> a]
  ELSE LET hop == Decode(addrMap[North], a)
       IN IF hop.port = South THEN Decode(addrMap[South], hop.address) ELSE hop

\* Variant: without the limit.
ExpandedNoLimit(m, mem, end) ==
  IF Len(mem) < end THEN Resized(mem, end + KB) ELSE mem

\* The part of Memory_module::transport that makes room for an access.
Expanded(m, mem, end) ==
  IF Len(mem) < end
    THEN Resized(mem, IF end + KB < TargetSize[m] THEN end + KB ELSE TargetSize[m])
    ELSE mem

\* transport_dbg resizes the memory first, even when it then refuses.
Content(m, debug) == IF debug THEN Full(m) ELSE store[m]

\* The first test of payload_is_ok.  The truncation in transport_dbg never
\* makes an access pass it.
InRange(at, n) ==
  /\ at.port \in Memories
  /\ at.address + n < TargetSize[at.port]

Read(a, n, debug) ==
  LET at  == Route(a)
      mem == Expanded(at.port, Content(at.port, debug), at.address + n)
  IN /\ InRange(at, n)
     /\ store' = [store EXCEPT ![at.port] = mem]
     /\ answer' = Accepted("read", a, SubSeq(mem, at.address + 1, at.address + n))
     /\ UNCHANGED platform

Write(a, data, debug) ==
  LET at  == Route(a)
      n   == Len(data)
      mem == Expanded(at.port, Content(at.port, debug), at.address + n)
  IN /\ InRange(at, n)
     /\ at.port \notin ReadOnly
     /\ store' = [store EXCEPT ![at.port] =
                    [i \in DOMAIN mem |->
                       IF i - at.address \in 1 .. n THEN data[i - at.address] ELSE mem[i]]]
     /\ answer' = Accepted("write", a, data)
     /\ UNCHANGED platform

Refuse(op, a, n, debug) ==
  LET at == Route(a)
  IN /\ ~InRange(at, n) \/ (op = "write" /\ at.port \in ReadOnly)
     /\ store' = IF at.port \in Memories
                   THEN [store EXCEPT ![at.port] = Content(at.port, debug)]
                   ELSE store
     /\ answer' = Refused(op, a)
     /\ UNCHANGED platform

\* No access runs over the last address: past it payload_is_ok wraps around.
Access(a, n, debug) ==
  /\ starting = <<>>
  /\ a + n <= MaxAddr
  /\ \/ Read(a, n, debug)
     \/ \E data \in [1 .. n -> Values] : Write(a, data, debug)
     \/ \E op \in {"read", "write"} : Refuse(op, a, n, debug)

Next ==
  \/ StartOfSimulation
  \/ \E a \in Address, n \in 1 .. MaxLength, debug \in BOOLEAN : Access(a, n, debug)

Spec == Init /\ [][Next]_vars

-----------------------------------------------------------------------------
(* Memory_map::find_address, called by software on the processor.  A target *)
(* that is found nowhere gets the address of the last router looked at.     *)

Listed(b, n) == \E l \in file.lines[b] : l.name = n
LineBase(b, n) == LineOf(file, b, n).base

\* Variant: the address of the router is not added.
FindAddressLocal(n) ==
  IF Listed(North, n) THEN LineBase(North, n)
  ELSE IF Listed(South, n) THEN LineBase(South, n) ELSE 0

FindAddress(n) ==
  IF Listed(North, n) THEN file.addr[North] + LineBase(North, n)
  ELSE file.addr[North] + file.addr[South]
         + (IF Listed(South, n) THEN LineBase(South, n) ELSE 0)

-----------------------------------------------------------------------------
(* Properties *)

\* The variables keep their types; no memory outgrows the size it was
\* constructed with (resize asserts it).
TypeOK ==
  /\ file \in Files /\ root \in Roots
  /\ \A b \in Buses : addrMap[b] \subseteq Entry
  /\ busSize \in [Buses -> Size \cup {NoSize}]
  /\ reported \in BOOLEAN
  /\ \A m \in Memories : Len(store[m]) \in 1 .. TargetSize[m]
  /\ \A m \in Memories : \A i \in DOMAIN store[m] : store[m][i] \in Values

\* Memories that the platform can reach, and the global address of each: its
\* base on its own bus, on top of that of South.
Reachable == (Bound[North] \cup Bound[South]) \cap Memories
Home(m) == IF m \in Bound[North] THEN LineBase(North, m)
           ELSE LineBase(North, South) + LineBase(South, m)

\* Every byte of a memory but the last, which payload_is_ok refuses.
Served(m) == 0 .. TargetSize[m] - 2

Running == root = North /\ starting = <<>> /\ ~reported

\* On a platform that reports no error every byte that a memory serves can be
\* addressed: the buses take exactly the bases off that the file put on, and
\* the size that South works out for itself is large enough.  This needs South
\* to have built its map before North probes it.
RoutesHome ==
  Running => \A m \in Reachable : \A offset \in Served(m) :
               Route(Home(m) + offset) = [port |-> m, address |-> offset]

\* The address that software looks up for a memory leads to its first byte:
\* find_address and the buses, which use different parts of the file, agree.
SoftwareFindsTargets ==
  Running => \A m \in Reachable :
               TargetSize[m] > 1 => Route(FindAddress(m)) = [port |-> m, address |-> 0]

\* The byte at an address, from the file and the memories alone.  The last byte
\* of a memory belongs to no address: payload_is_ok refuses it, and the size of
\* a bus leaves it out, so that another target may have its address unnoticed.
Byte(m, offset) == IF offset < Len(store[m]) THEN store[m][offset + 1] ELSE Fill
Placed(m)       == IF root # North THEN m = root
                   ELSE \/ m \in Bound[North] /\ Listed(North, m)
                        \/ m \in Bound[South] /\ Listed(South, m) /\ Listed(North, South)
Origin(m)       == IF root = North THEN Home(m) ELSE 0
Places(S)       == {[memory |-> m, base |-> Origin(m)] : m \in {m \in S : Placed(m)}}
Region(p)       == {p.base + offset : offset \in Served(p.memory)}

Flat == INSTANCE FlatMemory WITH
  cell   <- LET places == Places(Memories)
            IN [a \in UNION {Region(p) : p \in places} |->
                  LET p == CHOOSE p \in places : a \in Region(p)
                  IN Byte(p.memory, a - p.base)],
  locked <- UNION {Region(p) : p \in Places(ReadOnly)}

\* As long as no error has been reported, buses and memories together are one
\* flat memory: an access concerns the bytes at its addresses and no others, a
\* read returns what was last written, and a refused access and the growing of
\* a memory change nothing.
ActsAsFlatMemory == Flat!Init /\ [][~reported => [Flat!Next]_Flat!vars]_vars
=============================================================================
