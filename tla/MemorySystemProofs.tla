-------------------------- MODULE MemorySystemProofs --------------------------
(***************************************************************************)
(* For every memory map file and all sizes of memories: software reaches   *)
(* every byte that a memory serves, through both buses (RoutesHome and     *)
(* SoftwareFindsTargets of MemorySystem), and until an error is reported   *)
(* buses and memories together are one flat memory (ActsAsFlatMemory).     *)
(*                                                                         *)
(* DecodeInvertsMap says that a bus inverts its own map.  What remains for *)
(* the routes is that the map of North, when it was built, got a size from *)
(* South that is large enough for everything on South.  For the contents:  *)
(* an address that leads to a memory belongs to one place, and to make a   *)
(* memory larger shows at no address.                                      *)
(***************************************************************************)
EXTENDS MemorySystem, FiniteSetTheorems, TLAPS

-----------------------------------------------------------------------------
(* The map of a bus *)

\* The keys of a std::map are unique.
UniqueBases(map) == \A e, f \in map : e.base = f.base => e = f

\* An entry that covers an address is the closest one below it: one in between
\* would overlap it, and that is reported.
LEMMA CoveringEntryIsClosest ==
  ASSUME NEW map \in SUBSET Entry, UniqueBases(map), ~MapErrors(map),
         NEW e \in map, NEW a \in e.base .. e.last
  PROVE  Closest(map, a) = e
<1>1. \A g \in map : g.base \in Int /\ g.last \in Int
  BY AddressMapAssumption DEF Entry, Address
<1>2. e \in Below(map, a)
  BY <1>1 DEF Below
<1>3. \A f \in Below(map, a) : f.base <= e.base
  <2> SUFFICES ASSUME NEW f \in map, f.base <= a, ~(f.base <= e.base)
               PROVE  FALSE
    BY DEF Below
  <2>1. Overlap(e, f)
    BY <1>1 DEF Overlap
  <2> QED
    BY <2>1 DEF MapErrors
<1>4. \A g \in Below(map, a) : (\A f \in Below(map, a) : f.base <= g.base) => g = e
  <2> SUFFICES ASSUME NEW g \in map, g.base <= a, e.base <= g.base
               PROVE  g = e
    BY <1>2 DEF Below
  <2>1. g \in Below(map, a)
    BY DEF Below
  <2>2. g.base = e.base
    BY <1>1, <1>3, <2>1
  <2> QED
    BY <2>2 DEF UniqueBases
<1> QED
  BY <1>2, <1>3, <1>4 DEF Closest

\* decode_address sends every address that an entry covers to the port of that
\* entry, with the entry's base taken off.
THEOREM DecodeInvertsMap ==
  ASSUME NEW map \in SUBSET Entry, UniqueBases(map), ~MapErrors(map),
         NEW e \in map, NEW a \in e.base .. e.last, a # BadAddr
  PROVE  Decode(map, a) = [port |-> e.port, address |-> a - e.base]
<1>1. Closest(map, a) = e
  BY CoveringEntryIsClosest
<1>2. e \in Below(map, a) /\ a <= e.last
  BY AddressMapAssumption DEF Below, Entry, Address
<1>3. e.base \notin {BadAddr, MaxAddr}
  BY DEF MapErrors, Faulty
<1>4. Covered(map, a)
  BY <1>1, <1>2, <1>3 DEF Covered
<1> QED
  BY <1>1, <1>4 DEF Decode

\* No two entries share an address, so no target is reached at an address of
\* another one.
THEOREM EntriesAreDisjoint ==
  ASSUME NEW map \in SUBSET Entry, UniqueBases(map), ~MapErrors(map),
         NEW e \in map, NEW f \in map, e # f
  PROVE  (e.base .. e.last) \cap (f.base .. f.last) = {}
<1> SUFFICES ASSUME NEW a \in e.base .. e.last, a \in f.base .. f.last
             PROVE  FALSE
  OBVIOUS
<1>1. Closest(map, a) = e
  BY CoveringEntryIsClosest
<1>2. Closest(map, a) = f
  BY CoveringEntryIsClosest
<1> QED
  BY <1>1, <1>2

\* An address that decode_address refuses belongs to no entry, BAD_ADDR aside.
THEOREM NowhereIsUncovered ==
  ASSUME NEW map \in SUBSET Entry, UniqueBases(map), ~MapErrors(map),
         NEW a \in Address \ {BadAddr}, ~Covered(map, a)
  PROVE  \A e \in map : a \notin e.base .. e.last
<1> SUFFICES ASSUME NEW e \in map, a \in e.base .. e.last
             PROVE  FALSE
  OBVIOUS
<1>1. Closest(map, a) = e
  BY CoveringEntryIsClosest
<1>2. e \in Below(map, a) /\ a <= e.last
  BY AddressMapAssumption DEF Below, Entry, Address
<1>3. e.base \notin {BadAddr, MaxAddr}
  BY DEF MapErrors, Faulty
<1> QED
  BY <1>1, <1>2, <1>3 DEF Covered

-----------------------------------------------------------------------------
(* The platform *)

\* What top.cpp binds and in which order it constructs: South before North.
Platform ==
  /\ StartOrder = <<South, North>>
  /\ South \in Bound[North] /\ Bound[North] \subseteq Memories \cup {South}
  /\ Bound[South] \subseteq Memories /\ Bound[North] \cap Bound[South] = {}

\* A Depth_t holds no more than an Addr_t and is wide enough for South, no memory
\* that is bound reaches the reserved addresses, and what is bound to South is not
\* listed for North as well.
Room(f) ==
  /\ SizeMod <= AddrMod
  /\ \A l \in f.lines[South] :
       /\ l.base + l.size <= SizeMod
       /\ l.name \in Memories => l.base + TargetSize[l.name] <= SizeMod
  /\ \A l \in f.lines[North] :
       /\ l.name \notin Bound[South]
       /\ l.name \in Memories => l.base + TargetSize[l.name] # AddrMod
  /\ \A k \in f.lines[North], l \in f.lines[South] :
       k.name = South /\ l.name \in Memories
         => k.base + l.base + TargetSize[l.name] <= BadAddr

WideEnough == Platform /\ \A f \in Files : Room(f)

-----------------------------------------------------------------------------
(* Lemmas about one bus *)

LEMMA Widths ==
  /\ AddrMod \in Nat /\ AddrMod >= 2 /\ SizeMod \in Nat /\ SizeMod >= 1
  /\ Address \subseteq Nat /\ Size \subseteq Nat /\ MaxAddr \in Nat /\ BadAddr \in Nat
  /\ NoSize \notin Size /\ 0 \in Address /\ 0 \in Size
  BY AddressMapAssumption DEF Address, Size, MaxAddr, BadAddr, NoSize

LEMMA Numbers == \A x : x \in Address \/ x \in Size => x \in Int
  BY DEF Address, Size

\* A last address that has not wrapped below its base has not wrapped at all.
LEMMA LastDoesNotWrap ==
  ASSUME SizeMod <= AddrMod, NEW base \in Address, NEW size \in Size \ {0},
         Last(base, size) >= base
  PROVE  Last(base, size) = base + size - 1
<1>1. \A x \in 0 .. AddrMod - 1 : x % AddrMod = x
  BY Widths
<1>2. \A x \in AddrMod .. 2 * AddrMod - 1 : x % AddrMod = x - AddrMod
  BY Widths
<1>3. /\ base \in 0 .. AddrMod - 1 /\ size \in 1 .. SizeMod - 1
      /\ base + size - 1 \in 0 .. 2 * AddrMod - 1
  BY Widths DEF Address, Size
<1>4. CASE base + size - 1 < AddrMod
  <2>1. base + size - 1 \in 0 .. AddrMod - 1
    BY <1>3, <1>4, Widths
  <2>2. QED
    BY <1>1, <2>1 DEF Last
<1>5. CASE base + size - 1 >= AddrMod
  <2>1. base + size - 1 \in AddrMod .. 2 * AddrMod - 1
    BY <1>3, <1>5, Widths
  <2>2. Last(base, size) = (base + size - 1) - AddrMod
    BY <1>2, <2>1 DEF Last
  <2>3. QED
    BY <1>3, <2>2, Widths
<1>6. QED
  BY <1>3, <1>4, <1>5, Widths

LEMMA LastIsAddress ==
  ASSUME NEW base \in Int, NEW size \in Int
  PROVE  Last(base, size) \in Address
<1>1. \A x \in Int : x % AddrMod \in 0 .. AddrMod - 1
  BY Widths
<1>2. base + size - 1 \in Int
  OBVIOUS
<1>3. QED
  BY <1>1, <1>2 DEF Last, Address

\* A set of addresses that is not empty has a largest one.
LEMMA LargestAddress ==
  ASSUME NEW S \in SUBSET Address, S # {}
  PROVE  \E x \in S : \A y \in S : y <= x
<1> DEFINE Above(x) == {y \in S : y > x}
           Sets == {Above(x) : x \in S}
<1>1. IsFiniteSet(S)
  <2>1. IsFiniteSet(0 .. AddrMod - 1)
    BY FS_Interval, Widths
  <2>2. QED
    BY <2>1, FS_Subset DEF Address
<1>2. IsWellFoundedOn(StrictSubsetOrdering(S), FiniteSubsetsOf(S))
  BY <1>1, FS_StrictSubsetOrderingWellFounded
<1>3. Sets \subseteq FiniteSubsetsOf(S) /\ Sets # {}
  <2>1. \A T \in SUBSET S : IsFiniteSet(T)
    BY <1>1, FS_Subset
  <2>2. \A x \in S : Above(x) \in SUBSET S
    OBVIOUS
  <2>3. QED
    BY <2>1, <2>2 DEF FiniteSubsetsOf
<1>4. PICK A \in Sets : \A B \in Sets : ~ (<<B, A>> \in StrictSubsetOrdering(S))
  BY <1>2, <1>3, WFMin
<1>5. PICK x \in S : A = Above(x)
  BY <1>4
<1>6. Above(x) = {}
  <2> SUFFICES ASSUME NEW y \in S, y > x PROVE FALSE
    OBVIOUS
  <2>1. x \in Int /\ y \in Int /\ \A z \in S : z \in Int
    BY Widths
  <2>2. /\ \A z \in S : z > y => z > x
        /\ y \in Above(x) /\ y \notin Above(y)
    BY <2>1
  <2>3. <<Above(y), Above(x)>> \in StrictSubsetOrdering(S)
    <3>1. Above(y) \subseteq Above(x) /\ Above(y) # Above(x)
      BY <2>2
    <3> HIDE DEF Above
    <3>2. Above(y) \in SUBSET S /\ Above(x) \in SUBSET S
      BY DEF Above
    <3>3. QED
      BY <3>1, <3>2 DEF StrictSubsetOrdering
  <2>4. QED
    BY <1>4, <1>5, <2>3
<1>7. \A y \in S : y \in Int
  BY Widths
<1>8. QED
  BY <1>6, <1>7

-----------------------------------------------------------------------------
(* The map that a bus builds *)

\* Entries of lines with different bases have different bases.
LEMMA BuiltIsMap ==
  ASSUME NEW f \in Files, NEW b \in Buses,
         NEW size \in [Bound[b] -> Size \cup {NoSize}]
  PROVE  /\ Build(f.lines[b], Bound[b], size) \in SUBSET Entry
         /\ UniqueBases(Build(f.lines[b], Bound[b], size))
<1>1. /\ \A l \in f.lines[b] : l \in Line
      /\ \A k, l \in f.lines[b] : k.base = l.base => k = l
  BY MemorySystemAssumption DEF ConsistentFile
<1> DEFINE EntryOf(l) == IF l.name \in Bound[b] THEN Probed(Unprobed(l), size[l.name])
                                                ELSE Unprobed(l)
<1>2. \A l \in Line : Unprobed(l) \in Entry /\ Unprobed(l).base = l.base
  <2> SUFFICES ASSUME NEW l \in Line PROVE Unprobed(l) \in Entry /\ Unprobed(l).base = l.base
    OBVIOUS
  <2>1. l.name \in Nodes /\ l.base \in Address /\ l.size \in Size
    BY DEF Line
  <2>2. (IF l.size = 0 THEN 0 ELSE Last(l.base, l.size)) \in Address
    <3>1. l.base \in Int /\ l.size \in Int
      BY <2>1, Numbers
    <3>2. QED
      BY <3>1, LastIsAddress, Widths
  <2>3. QED
    BY <2>1, <2>2 DEF Unprobed, Entry
<1>3. \A e \in Entry, s \in Size \cup {NoSize} :
         Probed(e, s) \in Entry /\ Probed(e, s).base = e.base
  <2> SUFFICES ASSUME NEW e \in Entry, NEW s \in Size \cup {NoSize}
               PROVE  Probed(e, s) \in Entry /\ Probed(e, s).base = e.base
    OBVIOUS
  <2>1. CASE s = NoSize
    BY <2>1 DEF Probed
  <2>2. CASE s # NoSize
    <3> DEFINE new == IF s = 0 THEN e.size ELSE s
    <3>1. e.name \in Nodes /\ e.base \in Address /\ new \in Size
      BY <2>2 DEF Entry
    <3>2. Last(e.base, new) \in Address
      <4>1. e.base \in Int /\ new \in Int
        BY <3>1, Numbers
      <4>2. QED
        BY <4>1, LastIsAddress
    <3> HIDE DEF new
    <3>3. /\ [e EXCEPT !.port = e.name, !.size = new, !.last = Last(e.base, new)] \in Entry
          /\ [e EXCEPT !.port = e.name, !.size = new, !.last = Last(e.base, new)].base = e.base
      BY <3>1, <3>2 DEF Entry
    <3>4. Probed(e, s) = [e EXCEPT !.port = e.name, !.size = new, !.last = Last(e.base, new)]
      BY <2>2 DEF Probed, new
    <3>5. QED
      BY <3>3, <3>4
  <2>3. QED
    BY <2>1, <2>2
<1>4. \A l \in f.lines[b] : EntryOf(l) \in Entry /\ EntryOf(l).base = l.base
  <2> SUFFICES ASSUME NEW l \in f.lines[b]
               PROVE  EntryOf(l) \in Entry /\ EntryOf(l).base = l.base
    OBVIOUS
  <2>1. l.name \in Bound[b] => size[l.name] \in Size \cup {NoSize}
    OBVIOUS
  <2>2. QED
    BY <1>1, <1>2, <1>3, <2>1
<1>5. Build(f.lines[b], Bound[b], size) = {EntryOf(l) : l \in f.lines[b]}
  BY DEF Build
<1> HIDE DEF EntryOf
<1>6. QED
  BY <1>1, <1>4, <1>5 DEF UniqueBases

\* A target that is bound, listed and has a size gets an entry that ends where
\* the target ends.
LEMMA BuiltEntry ==
  ASSUME NEW lines \in SUBSET Line, NEW bound, NEW size,
         NEW l \in lines, l.name \in bound, size[l.name] \in Size \ {0}
  PROVE  \E e \in Build(lines, bound, size) :
           /\ e.name = l.name /\ e.port = l.name /\ e.base = l.base
           /\ e.last = Last(l.base, size[l.name])
<1> DEFINE e == Probed(Unprobed(l), size[l.name])
<1>1. size[l.name] # NoSize /\ size[l.name] # 0
  BY Widths
<1>2. /\ e.name = l.name /\ e.port = l.name /\ e.base = l.base
      /\ e.last = Last(l.base, size[l.name])
  BY <1>1 DEF Probed, Unprobed
<1>3. e \in Build(lines, bound, size)
  BY DEF Build
<1>4. QED
  BY <1>2, <1>3

\* If the probes report no error, every target they found has a line.
LEMMA ProbedIsListed ==
  ASSUME NEW lines \in SUBSET Line, NEW bound, NEW size, NEW n \in bound,
         size[n] # NoSize,
         ~ProbeErrors(Build(lines, bound, size), bound, size)
  PROVE  \E l \in lines : l.name = n
<1>1. PICK e \in Build(lines, bound, size) : e.name = n
  BY DEF ProbeErrors
<1>2. PICK l \in lines : e = IF l.name \in bound THEN Probed(Unprobed(l), size[l.name])
                                                 ELSE Unprobed(l)
  BY <1>1 DEF Build
<1>3. e.name = l.name
  BY <1>2 DEF Probed, Unprobed
<1>4. QED
  BY <1>1, <1>3

\* Two lines of a bus with one name are one line.
LEMMA LineIsUnique ==
  ASSUME NEW f \in Files, NEW b \in Buses, NEW l \in f.lines[b]
  PROVE  LineOf(f, b, l.name) = l
  BY MemorySystemAssumption DEF LineOf, ConsistentFile

\* A bus sends an address of a memory that is bound to it to the memory.
LEMMA MemoryIsDecoded ==
  ASSUME SizeMod <= AddrMod, NEW f \in Files, NEW b \in Buses,
         NEW size \in [Bound[b] -> Size \cup {NoSize}],
         ~MapErrors(Build(f.lines[b], Bound[b], size)),
         NEW l \in f.lines[b], l.name \in Bound[b] \cap Memories,
         size[l.name] = TargetSize[l.name],
         l.base + TargetSize[l.name] # AddrMod,
         NEW offset \in Served(l.name)
  PROVE  Decode(Build(f.lines[b], Bound[b], size), l.base + offset)
           = [port |-> l.name, address |-> offset]
<1> DEFINE map == Build(f.lines[b], Bound[b], size)
           room == TargetSize[l.name]
<1>1. f.lines[b] \in SUBSET Line /\ l.base \in Address /\ room \in Size \ {0}
  BY MemorySystemAssumption DEF Line
<1>2. map \in SUBSET Entry /\ UniqueBases(map)
  BY BuiltIsMap
<1>3. PICK e \in map : e.port = l.name /\ e.base = l.base /\ e.last = Last(l.base, room)
  BY <1>1, BuiltEntry
<1>4. ~(e.last < e.base)
  BY <1>3 DEF MapErrors, Faulty
<1>5. l.base \in Int /\ room \in Int /\ offset \in 0 .. room - 2
  BY <1>1, Numbers DEF Served
<1>6. Last(l.base, room) \in 0 .. AddrMod - 1
  BY <1>5, LastIsAddress DEF Address
<1>7. e.last = l.base + room - 1
  <2>1. Last(l.base, room) >= l.base
    BY <1>3, <1>4, <1>5, <1>6
  <2>2. QED
    BY <1>1, <1>3, <2>1, LastDoesNotWrap
<1> HIDE DEF map, room
<1>8. l.base + room # AddrMod
  BY DEF room
<1>9. /\ l.base + offset \in e.base .. e.last
      /\ l.base + offset # AddrMod - 2
      /\ (l.base + offset) - e.base = offset
  BY <1>3, <1>5, <1>6, <1>7, <1>8, Widths
<1>10. ~MapErrors(map)
  BY DEF map
<1>11. Decode(map, l.base + offset) = [port |-> e.port, address |-> (l.base + offset) - e.base]
  BY <1>2, <1>9, <1>10, DecodeInvertsMap DEF BadAddr
<1>12. QED
  BY <1>3, <1>9, <1>11 DEF map

-----------------------------------------------------------------------------
(* South *)

SouthSize   == [n \in Bound[South] |-> TargetSize[n]]
SouthMap(f) == Build(f.lines[South], Bound[South], SouthSize)

LEMMA SouthSizeType ==
  ASSUME Platform
  PROVE  /\ SouthSize \in [Bound[South] -> Size \cup {NoSize}]
         /\ \A n \in Bound[South] : SouthSize[n] = TargetSize[n] /\ SouthSize[n] \in Size \ {0}
  BY MemorySystemAssumption DEF Platform, SouthSize

\* Every entry of South ends below SizeMod.
LEMMA SouthFits ==
  ASSUME Platform, NEW f \in Files, Room(f), NEW e \in SouthMap(f)
  PROVE  e.last \in 0 .. SizeMod - 1 /\ e.base \in Nat
<1>1. PICK l \in f.lines[South] :
         e = IF l.name \in Bound[South] THEN Probed(Unprobed(l), SouthSize[l.name])
                                        ELSE Unprobed(l)
  BY DEF SouthMap, Build
<1>2. l.base \in Address /\ l.size \in Size
  BY MemorySystemAssumption DEF Line, Buses
<1>3. \A s \in Size \ {0} : l.base + s <= SizeMod => Last(l.base, s) \in 0 .. SizeMod - 1
  <2> SUFFICES ASSUME NEW s \in Size \ {0}, l.base + s <= SizeMod
               PROVE  Last(l.base, s) \in 0 .. SizeMod - 1
    OBVIOUS
  <2>1. \A x \in 0 .. AddrMod - 1 : x % AddrMod = x
    BY Widths
  <2>2. l.base \in Int /\ s \in Int /\ l.base >= 0 /\ s >= 1
    BY <1>2 DEF Address, Size
  <2>3. SizeMod <= AddrMod
    BY DEF Room
  <2>4. l.base + s - 1 \in 0 .. SizeMod - 1 /\ l.base + s - 1 \in 0 .. AddrMod - 1
    BY <2>2, <2>3, Widths
  <2>5. QED
    BY <2>1, <2>4 DEF Last
<1>4. CASE l.name \in Bound[South]
  <2>1. SouthSize[l.name] = TargetSize[l.name] /\ TargetSize[l.name] \in Size \ {0}
    BY <1>4, SouthSizeType
  <2>2. l.base + TargetSize[l.name] <= SizeMod
    BY <1>4 DEF Room, Platform
  <2>3. e.last = Last(l.base, TargetSize[l.name]) /\ e.base = l.base
    BY <1>1, <1>4, <2>1, Widths DEF Probed, Unprobed
  <2>4. Last(l.base, TargetSize[l.name]) \in 0 .. SizeMod - 1
    BY <1>3, <2>1, <2>2
  <2>5. l.base \in Nat
    BY <1>2 DEF Address
  <2>6. e.last \in 0 .. SizeMod - 1
    BY <2>3, <2>4, Zenon
  <2>7. e.base \in Nat
    BY <2>3, <2>5, Zenon
  <2>8. QED
    BY <2>6, <2>7
<1>5. CASE l.name \notin Bound[South]
  <2>1. e.base = l.base /\ e.last = IF l.size = 0 THEN 0 ELSE Last(l.base, l.size)
    BY <1>1, <1>5 DEF Unprobed
  <2>2. l.base + l.size <= SizeMod
    BY DEF Room
  <2>3. l.base \in Nat /\ 0 \in 0 .. SizeMod - 1
    BY <1>2, Widths DEF Address
  <2>4. CASE l.size = 0
    BY <2>1, <2>3, <2>4
  <2>5. CASE l.size # 0
    <3>1. Last(l.base, l.size) \in 0 .. SizeMod - 1
      BY <1>2, <1>3, <2>2, <2>5
    <3>2. e.last = Last(l.base, l.size)
      BY <2>1, <2>5
    <3>3. QED
      BY <2>1, <2>3, <3>1, <3>2, Zenon
  <2>6. QED
    BY <2>4, <2>5
<1>6. QED
  BY <1>4, <1>5

\* The size that South works out reaches to the last byte that is served on it.
LEMMA SouthIsLargeEnough ==
  ASSUME Platform, NEW f \in Files, Room(f), ~MapErrors(SouthMap(f))
  PROVE  /\ BusSize(SouthMap(f)) \in Size
         /\ \A e \in SouthMap(f) : BusSize(SouthMap(f)) >= e.last
<1> DEFINE map   == SouthMap(f)
           sound == {e \in map : ~Faulty(e)}
           Lower == CHOOSE x \in {e.base : e \in sound} \cup {MaxAddr} :
                      \A e \in sound : x <= e.base
           Upper == CHOOSE x \in {e.last : e \in sound} \cup {0} :
                      \A e \in sound : x >= e.last
<1>1. sound = map
  BY DEF MapErrors
<1>2. map \in SUBSET Entry
  BY BuiltIsMap, SouthSizeType DEF SouthMap, Buses
<1>3. \A e \in map : e.base \in Nat /\ e.last \in 0 .. SizeMod - 1
  BY SouthFits
<1>4. \E e \in map : e.base = 0
  <2>1. PICK l \in f.lines[South] : l.base = 0
    BY MemorySystemAssumption DEF ConsistentFile
  <2> DEFINE e == IF l.name \in Bound[South] THEN Probed(Unprobed(l), SouthSize[l.name])
                                             ELSE Unprobed(l)
  <2>2. e \in map
    BY DEF SouthMap, Build
  <2>3. e.base = 0
    BY <2>1 DEF Probed, Unprobed
  <2>4. QED
    BY <2>2, <2>3
<1>5. Lower = 0
  <2>1. 0 \in {e.base : e \in sound} \cup {MaxAddr} /\ \A e \in sound : 0 <= e.base
    BY <1>1, <1>3, <1>4
  <2>2. \A x \in {e.base : e \in sound} \cup {MaxAddr} :
           (\A e \in sound : x <= e.base) => x = 0
    <3> SUFFICES ASSUME NEW x \in {e.base : e \in sound} \cup {MaxAddr},
                        \A e \in sound : x <= e.base
                 PROVE  x = 0
      OBVIOUS
    <3>1. x \in Nat
      BY <1>3, Widths
    <3>2. x <= 0
      BY <1>1, <1>4
    <3>3. QED
      BY <3>1, <3>2
  <2>3. QED
    BY <2>1, <2>2
<1>6. /\ Upper \in {e.last : e \in sound} \cup {0}
      /\ \A e \in sound : Upper >= e.last
  <2>1. {e.last : e \in sound} \cup {0} \in SUBSET Address
    BY <1>2, Widths DEF Entry
  <2>2. \E x \in {e.last : e \in sound} \cup {0} : \A y \in {e.last : e \in sound} \cup {0} : y <= x
    BY <2>1, LargestAddress
  <2>3. \E x \in {e.last : e \in sound} \cup {0} : \A e \in sound : x >= e.last
    <3>1. \A y \in {e.last : e \in sound} \cup {0} : y \in Int
      BY <2>1, Numbers
    <3>2. QED
      BY <2>2, <3>1
  <2>4. QED
    BY <2>3
<1> HIDE DEF Lower, Upper
<1>7. Upper \in 0 .. SizeMod - 1
  BY <1>1, <1>3, <1>6, Widths
<1>8. BusSize(map) = (Upper - Lower) % SizeMod
  BY DEF BusSize, Upper, Lower
<1>9. \A x \in 0 .. SizeMod - 1 : x % SizeMod = x
  BY Widths
<1>10. (Upper - Lower) % SizeMod = Upper
  BY <1>5, <1>7, <1>9
<1>11. QED
  BY <1>1, <1>6, <1>7, <1>8, <1>10 DEF Size

-----------------------------------------------------------------------------
(* Both buses *)

NorthSize(f) == [n \in Bound[North] |->
                   IF n \in Memories THEN TargetSize[n] ELSE BusSize(SouthMap(f))]
NorthMap(f)  == Build(f.lines[North], Bound[North], NorthSize(f))

NoErrors(f) ==
  /\ ~MapErrors(SouthMap(f)) /\ ~ProbeErrors(SouthMap(f), Bound[South], SouthSize)
  /\ ~MapErrors(NorthMap(f)) /\ ~ProbeErrors(NorthMap(f), Bound[North], NorthSize(f))

LEMMA NorthSizeType ==
  ASSUME Platform, NEW f \in Files, Room(f), NoErrors(f)
  PROVE  /\ NorthSize(f) \in [Bound[North] -> Size \cup {NoSize}]
         /\ \A n \in Bound[North] : NorthSize(f)[n] \in Size
         /\ \A n \in Bound[North] \cap Memories : NorthSize(f)[n] = TargetSize[n]
         /\ NorthSize(f)[South] = BusSize(SouthMap(f))
<1>1. BusSize(SouthMap(f)) \in Size
  BY SouthIsLargeEnough DEF NoErrors
<1>2. South \in Bound[North] /\ South \notin Memories
  BY MemorySystemAssumption DEF Platform, Buses
<1>3. \A m \in Memories : TargetSize[m] \in Size
  BY MemorySystemAssumption
<1>4. QED
  BY <1>1, <1>2, <1>3 DEF NorthSize

\* The memories on North have a line of North, those on South one of South.
LEMMA AllAreListed ==
  ASSUME Platform, NEW f \in Files, Room(f), NoErrors(f)
  PROVE  /\ \A n \in Bound[North] : \E l \in f.lines[North] : l.name = n
         /\ \A n \in Bound[South] : \E l \in f.lines[South] : l.name = n
<1>1. f.lines[North] \in SUBSET Line /\ f.lines[South] \in SUBSET Line
  BY MemorySystemAssumption DEF Buses
<1>2. \A n \in Bound[North] : \E l \in f.lines[North] : l.name = n
  <2> SUFFICES ASSUME NEW n \in Bound[North]
               PROVE  \E l \in f.lines[North] : l.name = n
    OBVIOUS
  <2>1. NorthSize(f)[n] # NoSize
    BY NorthSizeType, Widths
  <2>2. QED
    BY <1>1, <2>1, ProbedIsListed DEF NoErrors, NorthMap
<1>3. \A n \in Bound[South] : \E l \in f.lines[South] : l.name = n
  <2> SUFFICES ASSUME NEW n \in Bound[South]
               PROVE  \E l \in f.lines[South] : l.name = n
    OBVIOUS
  <2>1. SouthSize[n] # NoSize
    BY SouthSizeType, Widths
  <2>2. QED
    BY <1>1, <2>1, ProbedIsListed DEF NoErrors, SouthMap
<1>4. QED
  BY <1>2, <1>3

\* The global address of a memory according to a memory map file.
HomeIn(f, m) == IF m \in Bound[North] THEN LineOf(f, North, m).base
                ELSE LineOf(f, North, South).base + LineOf(f, South, m).base

\* Where an access from the processor ends, with the maps built from the file.
RouteIn(f, a) ==
  LET hop == Decode(NorthMap(f), a)
  IN IF hop.port = South THEN Decode(SouthMap(f), hop.address) ELSE hop

LEMMA NorthMemoriesAreReached ==
  ASSUME Platform, NEW f \in Files, Room(f), NoErrors(f),
         NEW m \in Bound[North] \cap Memories, NEW offset \in Served(m)
  PROVE  RouteIn(f, HomeIn(f, m) + offset) = [port |-> m, address |-> offset]
<1>1. PICK l \in f.lines[North] : l.name = m
  BY AllAreListed
<1>2. HomeIn(f, m) = l.base
  BY <1>1, LineIsUnique DEF HomeIn, Buses
<1>3. SizeMod <= AddrMod /\ l.base + TargetSize[m] # AddrMod
  BY <1>1 DEF Room
<1>4. /\ NorthSize(f) \in [Bound[North] -> Size \cup {NoSize}]
      /\ NorthSize(f)[m] = TargetSize[m]
  BY NorthSizeType
<1>5. Decode(NorthMap(f), l.base + offset) = [port |-> m, address |-> offset]
  <2>1. North \in Buses /\ ~MapErrors(Build(f.lines[North], Bound[North], NorthSize(f)))
    BY DEF Buses, NoErrors, NorthMap
  <2>2. QED
    BY <1>1, <1>3, <1>4, <2>1, MemoryIsDecoded DEF NorthMap
<1>6. m # South
  BY MemorySystemAssumption DEF Buses
<1>7. QED
  BY <1>2, <1>5, <1>6 DEF RouteIn

LEMMA SouthMemoriesAreReached ==
  ASSUME Platform, NEW f \in Files, Room(f), NoErrors(f),
         NEW m \in Bound[South], NEW offset \in Served(m)
  PROVE  RouteIn(f, HomeIn(f, m) + offset) = [port |-> m, address |-> offset]
<1>1. m \in Memories /\ m \notin Bound[North] /\ South \in Bound[North]
  BY DEF Platform
<1>2. PICK l \in f.lines[South] : l.name = m
  BY AllAreListed
<1>3. PICK k \in f.lines[North] : k.name = South
  BY <1>1, AllAreListed
<1>4. HomeIn(f, m) = k.base + l.base
  BY <1>1, <1>2, <1>3, LineIsUnique DEF HomeIn, Buses
<1>5. /\ k \in Line /\ l \in Line /\ f.lines[North] \in SUBSET Line
      /\ f.lines[South] \in SUBSET Line /\ TargetSize[m] \in Size \ {0}
  BY <1>1, MemorySystemAssumption DEF Buses
<1>6. /\ k.base \in Nat /\ l.base \in Nat /\ k.base <= AddrMod - 1
      /\ TargetSize[m] \in Int /\ TargetSize[m] >= 1
      /\ offset \in 0 .. TargetSize[m] - 2
  BY <1>5 DEF Line, Address, Size, Served
<1>7. k.base + l.base + TargetSize[m] <= AddrMod - 2
  BY <1>1, <1>2, <1>3 DEF Room, BadAddr
<1>8. Decode(SouthMap(f), l.base + offset) = [port |-> m, address |-> offset]
  <2>1. South \in Buses /\ ~MapErrors(Build(f.lines[South], Bound[South], SouthSize))
    BY DEF Buses, NoErrors, SouthMap
  <2>2. /\ SouthSize \in [Bound[South] -> Size \cup {NoSize}]
        /\ SouthSize[m] = TargetSize[m]
    BY SouthSizeType
  <2>3. l.base + TargetSize[m] # AddrMod
    BY <1>6, <1>7, Widths
  <2>4. SizeMod <= AddrMod
    BY DEF Room
  <2>5. QED
    BY <1>1, <1>2, <2>1, <2>2, <2>3, <2>4, MemoryIsDecoded DEF SouthMap
<1> DEFINE size == BusSize(SouthMap(f))
<1>9. size \in Size /\ size >= l.base + TargetSize[m] - 1
  <2>1. size \in Size /\ \A e \in SouthMap(f) : size >= e.last
    BY SouthIsLargeEnough DEF NoErrors
  <2>2. PICK e \in SouthMap(f) : e.last = Last(l.base, TargetSize[m]) /\ e.base = l.base
    BY <1>2, <1>5, SouthSizeType, BuiltEntry DEF SouthMap
  <2>3. ~(e.last < e.base)
    BY <2>2 DEF NoErrors, MapErrors, Faulty
  <2>4. Last(l.base, TargetSize[m]) = l.base + TargetSize[m] - 1
    <3>1. Last(l.base, TargetSize[m]) \in Int
      <4>1. l.base \in Int /\ TargetSize[m] \in Int
        BY <1>6
      <4>2. Last(l.base, TargetSize[m]) \in Address
        BY <4>1, LastIsAddress
      <4>3. QED
        BY <4>2, Numbers
    <3>2. Last(l.base, TargetSize[m]) >= l.base /\ l.base \in Address
      BY <1>5, <1>6, <2>2, <2>3, <3>1 DEF Line
    <3>3. SizeMod <= AddrMod
      BY DEF Room
    <3>4. QED
      BY <1>5, <3>2, <3>3, LastDoesNotWrap
  <2>5. QED
    BY <2>1, <2>2, <2>4
<1> HIDE DEF size
<1>10. size \in Int /\ size >= offset + l.base + 1
  BY <1>6, <1>9, Numbers
<1>11. PICK e \in NorthMap(f) : e.port = South /\ e.base = k.base /\ e.last = Last(k.base, size)
  <2>1. NorthSize(f)[South] = size /\ size \in Size \ {0}
    BY <1>6, <1>9, <1>10, NorthSizeType DEF size
  <2>2. QED
    BY <1>1, <1>3, <1>5, <2>1, BuiltEntry DEF NorthMap
<1>12. e.last = k.base + size - 1
  <2>1. ~(e.last < e.base)
    BY <1>11 DEF NoErrors, MapErrors, Faulty
  <2>2. Last(k.base, size) \in Int
    <3>1. k.base \in Int
      BY <1>6
    <3>2. Last(k.base, size) \in Address
      BY <1>10, <3>1, LastIsAddress
    <3>3. QED
      BY <3>2, Numbers
  <2>3. Last(k.base, size) >= k.base /\ k.base \in Address /\ size \in Size \ {0}
    BY <1>5, <1>6, <1>9, <1>10, <1>11, <2>1, <2>2 DEF Line
  <2>4. SizeMod <= AddrMod
    BY DEF Room
  <2>5. QED
    BY <1>11, <2>3, <2>4, LastDoesNotWrap
<1> DEFINE a == k.base + l.base + offset
<1>13. /\ a \in e.base .. e.last /\ a # AddrMod - 2
       /\ a - e.base = l.base + offset
  BY <1>6, <1>7, <1>10, <1>11, <1>12, Widths
<1> HIDE DEF a
<1>14. Decode(NorthMap(f), a) = [port |-> South, address |-> l.base + offset]
  <2>1. NorthMap(f) \in SUBSET Entry /\ UniqueBases(NorthMap(f))
    BY NorthSizeType, BuiltIsMap DEF NorthMap, Buses
  <2>2. ~MapErrors(NorthMap(f))
    BY DEF NoErrors
  <2>3. QED
    BY <1>11, <1>13, <2>1, <2>2, DecodeInvertsMap DEF BadAddr
<1>15. RouteIn(f, a) = [port |-> m, address |-> offset]
  BY <1>8, <1>14 DEF RouteIn
<1>16. QED
  BY <1>4, <1>15 DEF a

-----------------------------------------------------------------------------
(* Elaboration *)

\* How far elaboration is, and what the buses that have started found.
StartedOK ==
  LET southErrors == \/ MapErrors(SouthMap(file))
                     \/ ProbeErrors(SouthMap(file), Bound[South], SouthSize)
      northErrors == \/ MapErrors(NorthMap(file))
                     \/ ProbeErrors(NorthMap(file), Bound[North], NorthSize(file))
      southDone   == /\ addrMap[South] = SouthMap(file)
                     /\ busSize[South] = BusSize(SouthMap(file))
  IN \/ starting = <<South, North>> /\ reported = FALSE
     \/ starting = <<North>> /\ southDone /\ reported = southErrors
     \/ /\ starting = <<>> /\ southDone /\ addrMap[North] = NorthMap(file)
        /\ reported = (southErrors \/ northErrors)

EInv ==
  /\ file \in Files
  /\ addrMap = [b \in Buses |-> addrMap[b]] /\ busSize = [b \in Buses |-> busSize[b]]
  /\ root = North => StartedOK
  /\ root # North => starting = <<>>

LEMMA InitEInv ==
  ASSUME Platform, Init PROVE EInv
<1>1. file \in Files /\ (root = North => starting = <<South, North>> /\ reported = FALSE)
  BY DEF Init, Platform
<1>2. root # North => starting = <<>>
  BY DEF Init
<1>3. /\ addrMap = [b \in Buses |-> addrMap[b]]
      /\ busSize = [b \in Buses |-> busSize[b]]
  BY DEF Init
<1>4. QED
  BY <1>1, <1>2, <1>3 DEF EInv, StartedOK

\* The map of South is built from the memories alone, that of North from the size
\* that South has worked out by then.
LEMMA StartEInv ==
  ASSUME Platform, EInv, StartOfSimulation PROVE EInv'
<1>1. starting # <<>> /\ root = North /\ StartedOK /\ North # South
  BY MemorySystemAssumption DEF EInv, StartOfSimulation
<1>2. file' = file /\ root' = root /\ starting' = Tail(starting) /\ file \in Files
  BY DEF StartOfSimulation, EInv
<1> DEFINE b       == Head(starting)
           size    == [n \in Bound[b] |-> IF n \in Memories THEN TargetSize[n] ELSE busSize[n]]
           map     == Build(file.lines[b], Bound[b], size)
<1>3. /\ addrMap' = [addrMap EXCEPT ![b] = map]
      /\ busSize' = [busSize EXCEPT ![b] = BusSize(map)]
      /\ reported' = (reported \/ MapErrors(map) \/ ProbeErrors(map, Bound[b], size))
  BY DEF StartOfSimulation
<1>4. /\ addrMap = [c \in Buses |-> addrMap[c]] /\ busSize = [c \in Buses |-> busSize[c]]
      /\ North \in Buses /\ South \in Buses
  BY DEF EInv, Buses
<1>5. /\ addrMap' = [c \in Buses |-> addrMap'[c]]
      /\ busSize' = [c \in Buses |-> busSize'[c]]
  BY <1>3, <1>4
<1>6. CASE starting = <<South, North>>
  <2>1. b = South /\ starting' = <<North>> /\ reported = FALSE
    BY <1>1, <1>2, <1>6 DEF StartedOK
  <2>2. size = SouthSize
    BY <2>1 DEF SouthSize, Platform
  <2>3. map = SouthMap(file)
    BY <2>1, <2>2 DEF SouthMap
  <2>4. /\ addrMap'[South] = SouthMap(file)
        /\ busSize'[South] = BusSize(SouthMap(file))
    BY <1>3, <1>4, <2>1, <2>3
  <2>5. reported' = (\/ MapErrors(SouthMap(file))
                     \/ ProbeErrors(SouthMap(file), Bound[South], SouthSize))
    BY <1>3, <2>1, <2>2, <2>3
  <2>6. StartedOK'
    BY <1>2, <2>1, <2>4, <2>5 DEF StartedOK
  <2>7. QED
    BY <1>1, <1>2, <1>5, <2>6 DEF EInv
<1>7. CASE starting = <<North>>
  <2>1. /\ b = North /\ starting' = <<>>
        /\ addrMap[South] = SouthMap(file) /\ busSize[South] = BusSize(SouthMap(file))
        /\ reported = (\/ MapErrors(SouthMap(file))
                       \/ ProbeErrors(SouthMap(file), Bound[South], SouthSize))
    BY <1>1, <1>2, <1>7 DEF StartedOK
  <2>2. size = NorthSize(file)
    <3>1. \A n \in Bound[North] : n \in Memories \/ n = South
      BY DEF Platform
    <3>2. South \notin Memories
      BY MemorySystemAssumption DEF Buses
    <3>3. QED
      BY <2>1, <3>1, <3>2 DEF NorthSize
  <2>3. map = NorthMap(file)
    BY <2>1, <2>2 DEF NorthMap
  <2>4. /\ addrMap'[South] = SouthMap(file) /\ addrMap'[North] = NorthMap(file)
        /\ busSize'[South] = BusSize(SouthMap(file))
    BY <1>1, <1>3, <1>4, <2>1, <2>3
  <2>5. reported' = (reported \/ MapErrors(NorthMap(file))
                       \/ ProbeErrors(NorthMap(file), Bound[North], NorthSize(file)))
    BY <1>3, <2>1, <2>2, <2>3
  <2>6. StartedOK'
    BY <1>2, <2>1, <2>4, <2>5 DEF StartedOK
  <2>7. QED
    BY <1>1, <1>2, <1>5, <2>6 DEF EInv
<1>8. QED
  BY <1>1, <1>6, <1>7 DEF StartedOK

LEMMA KeepEInv ==
  ASSUME EInv, UNCHANGED platform PROVE EInv'
  BY DEF EInv, StartedOK, platform

LEMMA SpecEInv ==
  ASSUME Platform PROVE Spec => []EInv
<1>1. Init => EInv
  BY InitEInv
<1>2. EInv /\ [Next]_vars => EInv'
  <2> SUFFICES ASSUME EInv, [Next]_vars PROVE EInv'
    OBVIOUS
  <2>1. StartOfSimulation \/ UNCHANGED platform
    BY DEF Next, Access, Read, Write, Refuse, vars
  <2>2. QED
    BY <2>1, StartEInv, KeepEInv
<1>3. QED
  BY <1>1, <1>2, PTL DEF Spec

-----------------------------------------------------------------------------
(* The theorems *)

LEMMA RunningHasNoErrors ==
  ASSUME Platform, EInv, Running
  PROVE  NoErrors(file) /\ file \in Files /\ \A a : Route(a) = RouteIn(file, a)
<1>1. root = North /\ starting = <<>> /\ ~reported /\ file \in Files
  BY DEF EInv, Running
<1>2. /\ addrMap[South] = SouthMap(file) /\ addrMap[North] = NorthMap(file)
      /\ NoErrors(file)
  BY <1>1 DEF EInv, StartedOK, NoErrors
<1>3. QED
  BY <1>1, <1>2 DEF Route, RouteIn

LEMMA HomeIsHomeIn ==
  ASSUME NEW m PROVE Home(m) = HomeIn(file, m)
  BY DEF Home, HomeIn, LineBase

\* On a platform that reports no error, every byte that a memory serves is reached
\* at its global address, whatever the memory map file and the sizes.
THEOREM RoutesHomeAlways ==
  ASSUME WideEnough PROVE Spec => []RoutesHome
<1>1. Platform
  BY DEF WideEnough
<1>2. EInv => RoutesHome
  <2> SUFFICES ASSUME EInv, Running, NEW m \in Reachable, NEW offset \in Served(m)
               PROVE  Route(Home(m) + offset) = [port |-> m, address |-> offset]
    BY DEF RoutesHome
  <2>1. NoErrors(file) /\ file \in Files /\ \A a : Route(a) = RouteIn(file, a)
    BY <1>1, RunningHasNoErrors
  <2>2. Room(file)
    BY <2>1 DEF WideEnough
  <2>3. m \in Bound[North] \cap Memories \/ m \in Bound[South]
    BY DEF Reachable
  <2>4. RouteIn(file, HomeIn(file, m) + offset) = [port |-> m, address |-> offset]
    BY <1>1, <2>1, <2>2, <2>3, NorthMemoriesAreReached, SouthMemoriesAreReached
  <2>5. QED
    BY <2>1, <2>4, HomeIsHomeIn
<1>3. QED
  BY <1>1, <1>2, SpecEInv, PTL

\* What Memory_map::find_address looks up leads to the first byte of the memory.
THEOREM SoftwareFindsTargetsAlways ==
  ASSUME WideEnough PROVE Spec => []SoftwareFindsTargets
<1>1. Platform
  BY DEF WideEnough
<1>2. EInv => SoftwareFindsTargets
  <2> SUFFICES ASSUME EInv, Running, NEW m \in Reachable, TargetSize[m] > 1
               PROVE  Route(FindAddress(m)) = [port |-> m, address |-> 0]
    BY DEF SoftwareFindsTargets
  <2>1. NoErrors(file) /\ file \in Files /\ \A a : Route(a) = RouteIn(file, a)
    BY <1>1, RunningHasNoErrors
  <2>2. Room(file) /\ ConsistentFile(file)
    BY <2>1, MemorySystemAssumption DEF WideEnough
  <2>3. m \in Bound[North] \cap Memories \/ m \in Bound[South]
    BY DEF Reachable
  <2>4. 0 \in Served(m)
    <3>1. m \in Memories /\ TargetSize[m] \in Size
      BY MemorySystemAssumption DEF Reachable
    <3>2. TargetSize[m] \in Int
      BY <3>1, Numbers
    <3>3. QED
      BY <3>2 DEF Served
  <2>5. RouteIn(file, HomeIn(file, m) + 0) = [port |-> m, address |-> 0]
    BY <1>1, <2>1, <2>2, <2>3, <2>4, NorthMemoriesAreReached, SouthMemoriesAreReached
  <2>6. FindAddress(m) = HomeIn(file, m) /\ HomeIn(file, m) \in Int
    <3>1. /\ \A b \in Buses : \A l \in file.lines[b] :
               LineOf(file, b, l.name) = l /\ l.base \in Int
          /\ file.addr[North] = 0
          /\ \A l \in file.lines[North] : l.name = South => l.base = file.addr[South]
      <4>1. \A b \in Buses : \A l \in file.lines[b] : l.base \in Int
        <5>1. \A b \in Buses : \A l \in file.lines[b] : l.base \in Address
          BY <2>1, MemorySystemAssumption DEF Line
        <5>2. QED
          BY <5>1, Numbers
      <4>2. QED
        BY <2>1, <2>2, <4>1, LineIsUnique DEF ConsistentFile
    <3>2. CASE m \in Bound[North]
      <4>1. PICK l \in file.lines[North] : l.name = m
        BY <1>1, <2>1, <2>2, <3>2, AllAreListed
      <4>2. LineOf(file, North, m) = l /\ l.base \in Int
        BY <3>1, <4>1 DEF Buses
      <4>3. FindAddress(m) = 0 + l.base /\ HomeIn(file, m) = l.base
        BY <3>1, <3>2, <4>1, <4>2 DEF FindAddress, Listed, LineBase, HomeIn
      <4>4. QED
        BY <4>2, <4>3
    <3>3. CASE m \in Bound[South]
      <4>1. m \notin Bound[North] /\ South \in Bound[North]
        BY <1>1, <3>3 DEF Platform
      <4>2. PICK l \in file.lines[South] : l.name = m
        BY <1>1, <2>1, <2>2, <3>3, AllAreListed
      <4>3. PICK k \in file.lines[North] : k.name = South
        BY <1>1, <2>1, <2>2, <4>1, AllAreListed
      <4>4. /\ LineOf(file, South, m) = l /\ LineOf(file, North, South) = k
            /\ l.base \in Int /\ k.base \in Int
        BY <3>1, <4>2, <4>3 DEF Buses
      <4>5. ~Listed(North, m) /\ Listed(South, m)
        BY <2>2, <3>3, <4>2 DEF Listed, Room
      <4>6. FindAddress(m) = 0 + k.base + l.base /\ HomeIn(file, m) = k.base + l.base
        BY <3>1, <4>1, <4>3, <4>4, <4>5 DEF FindAddress, LineBase, HomeIn
      <4>7. QED
        BY <4>4, <4>6
    <3>4. QED
      BY <2>3, <3>2, <3>3
  <2>7. QED
    BY <2>1, <2>5, <2>6
<1>3. QED
  BY <1>1, <1>2, SpecEInv, PTL

-----------------------------------------------------------------------------
(* The contents of the memories *)

\* What is read at an offset of a memory: bytes behind its end read as Fill.
ByteOf(mem, offset) == IF offset < Len(mem) THEN mem[offset + 1] ELSE Fill

\* new holds what mem held, and more of Fill.
Grown(mem, new) ==
  /\ new \in Seq(Values) /\ Len(new) >= Len(mem)
  /\ \A offset \in Nat : ByteOf(new, offset) = ByteOf(mem, offset)

Fits(m, mem) == mem \in Seq(Values) /\ Len(mem) \in 1 .. TargetSize[m]

SInv ==
  /\ store = [m \in Memories |-> store[m]]
  /\ \A m \in Memories : Fits(m, store[m])

LEMMA ResizedIs ==
  ASSUME NEW mem \in Seq(Values), NEW depth \in Nat
  PROVE  /\ Resized(mem, depth) \in Seq(Values) /\ Len(Resized(mem, depth)) = depth
         /\ \A i \in 1 .. depth :
              Resized(mem, depth)[i] = IF i <= Len(mem) THEN mem[i] ELSE Fill
<1>1. Fill \in Values /\ Len(mem) \in Nat
  BY MemorySystemAssumption
<1>2. \A i \in 1 .. depth : (IF i <= Len(mem) THEN mem[i] ELSE Fill) \in Values
  BY <1>1
<1>3. QED
  BY <1>2 DEF Resized

LEMMA ResizedGrows ==
  ASSUME NEW mem \in Seq(Values), NEW depth \in Nat, depth >= Len(mem)
  PROVE  Grown(mem, Resized(mem, depth))
<1> DEFINE new == Resized(mem, depth)
<1>1. /\ new \in Seq(Values) /\ Len(new) = depth
      /\ \A i \in 1 .. depth : new[i] = IF i <= Len(mem) THEN mem[i] ELSE Fill
  BY ResizedIs
<1> HIDE DEF new
<1>2. \A offset \in Nat : ByteOf(new, offset) = ByteOf(mem, offset)
  <2> SUFFICES ASSUME NEW offset \in Nat PROVE ByteOf(new, offset) = ByteOf(mem, offset)
    OBVIOUS
  <2>1. Len(mem) \in Nat
    OBVIOUS
  <2>2. CASE offset < Len(mem)
    BY <1>1, <2>1, <2>2 DEF ByteOf
  <2>3. CASE offset >= Len(mem) /\ offset < depth
    BY <1>1, <2>1, <2>3 DEF ByteOf
  <2>4. CASE offset >= depth
    BY <1>1, <2>1, <2>4 DEF ByteOf
  <2>5. QED
    BY <2>1, <2>2, <2>3, <2>4
<1>3. QED
  BY <1>1, <1>2 DEF Grown, new

LEMMA SizeIsNat == \A m \in Memories : TargetSize[m] \in Nat
<1>1. \A x \in Size : x \in Nat
  BY DEF Size
<1>2. QED
  BY <1>1, MemorySystemAssumption

LEMMA ContentFits ==
  ASSUME NEW m \in Memories, Fits(m, store[m]), NEW debug
  PROVE  Fits(m, Content(m, debug)) /\ Grown(store[m], Content(m, debug))
<1>1. store[m] \in Seq(Values) /\ Len(store[m]) \in 1 .. TargetSize[m] /\ TargetSize[m] \in Nat
  BY SizeIsNat DEF Fits
<1>2. Fits(m, Full(m)) /\ Grown(store[m], Full(m))
  <2>1. Grown(store[m], Full(m))
    BY <1>1, ResizedGrows DEF Full
  <2>2. Full(m) \in Seq(Values) /\ Len(Full(m)) = TargetSize[m]
    BY <1>1, ResizedIs DEF Full
  <2>3. QED
    BY <1>1, <2>1, <2>2 DEF Fits
<1>3. Grown(store[m], store[m])
  BY <1>1 DEF Grown
<1>4. QED
  BY <1>2, <1>3 DEF Content

\* An access that fits the target gets the room it needs, and no byte changes.
LEMMA ExpandedFits ==
  ASSUME NEW m \in Memories, NEW mem, Fits(m, mem), NEW end \in 1 .. TargetSize[m]
  PROVE  /\ Fits(m, Expanded(m, mem, end)) /\ Grown(mem, Expanded(m, mem, end))
         /\ Len(Expanded(m, mem, end)) >= end
<1>1. mem \in Seq(Values) /\ Len(mem) \in 1 .. TargetSize[m] /\ TargetSize[m] \in Nat /\ KB \in Nat
  BY SizeIsNat, MemorySystemAssumption DEF Fits
<1>2. CASE Len(mem) < end
  <2> DEFINE depth == IF end + KB < TargetSize[m] THEN end + KB ELSE TargetSize[m]
  <2>1. depth \in Nat /\ depth >= Len(mem) /\ depth >= end /\ depth \in 1 .. TargetSize[m]
    BY <1>1, <1>2
  <2>2. Expanded(m, mem, end) = Resized(mem, depth)
    BY <1>2 DEF Expanded
  <2> HIDE DEF depth
  <2>3. Grown(mem, Resized(mem, depth))
    BY <1>1, <2>1, ResizedGrows
  <2>4. Resized(mem, depth) \in Seq(Values) /\ Len(Resized(mem, depth)) = depth
    BY <1>1, <2>1, ResizedIs
  <2>5. QED
    BY <2>1, <2>2, <2>3, <2>4 DEF Fits
<1>3. CASE Len(mem) >= end
  <2>1. Expanded(m, mem, end) = mem
    BY <1>1, <1>3 DEF Expanded
  <2>2. Grown(mem, mem)
    BY <1>1 DEF Grown
  <2>3. QED
    BY <1>3, <2>1, <2>2
<1>4. QED
  BY <1>1, <1>2, <1>3

-----------------------------------------------------------------------------
(* Types, whether or not an error is reported *)

LEMMA SmallestAddress ==
  ASSUME NEW S \in SUBSET Address, S # {}
  PROVE  \E x \in S : \A y \in S : x <= y
<1> DEFINE Mirror == {MaxAddr - x : x \in S}
<1>1. \A x \in S : x \in Int /\ MaxAddr - x \in Address
  BY Widths DEF Address, MaxAddr
<1>2. Mirror \in SUBSET Address /\ Mirror # {}
  BY <1>1
<1> HIDE DEF Mirror
<1>3. PICK d \in Mirror : \A e \in Mirror : e <= d
  BY <1>2, LargestAddress
<1>4. PICK x \in S : d = MaxAddr - x
  BY DEF Mirror
<1>5. \A y \in S : MaxAddr - y <= MaxAddr - x
  BY <1>3, <1>4 DEF Mirror
<1>6. MaxAddr \in Int
  BY Widths
<1>7. QED
  BY <1>1, <1>5, <1>6

\* The size that a bus works out is one, whatever is wrong with its map.
LEMMA BusSizeType ==
  ASSUME NEW map \in SUBSET Entry
  PROVE  BusSize(map) \in Size
<1> DEFINE sound == {e \in map : ~Faulty(e)}
           Bases == {e.base : e \in sound} \cup {MaxAddr}
           Lasts == {e.last : e \in sound} \cup {0}
           Lower == CHOOSE x \in Bases : \A e \in sound : x <= e.base
           Upper == CHOOSE x \in Lasts : \A e \in sound : x >= e.last
<1>1. \A e \in sound : e.base \in Address /\ e.last \in Address
  BY DEF Entry
<1>2. MaxAddr \in Address /\ 0 \in Address
  BY Widths DEF Address, MaxAddr
<1>3. Lower \in Bases
  <2>1. Bases \in SUBSET Address /\ Bases # {}
    BY <1>1, <1>2
  <2>2. \E x \in Bases : \A y \in Bases : x <= y
    BY <2>1, SmallestAddress
  <2>3. \E x \in Bases : \A e \in sound : x <= e.base
    BY <2>2
  <2>4. QED
    BY <2>3
<1>4. Upper \in Lasts
  <2>1. Lasts \in SUBSET Address /\ Lasts # {}
    BY <1>1, <1>2
  <2>2. \E x \in Lasts : \A y \in Lasts : y <= x
    BY <2>1, LargestAddress
  <2>3. \A y \in Lasts : y \in Int
    BY <2>1, Numbers
  <2>4. \E x \in Lasts : \A e \in sound : x >= e.last
    BY <2>2, <2>3
  <2>5. QED
    BY <2>4
<1>5. BusSize(map) = (Upper - Lower) % SizeMod
  BY DEF BusSize
<1>6. Upper \in Address /\ Lower \in Address
  BY <1>1, <1>2, <1>3, <1>4
<1> HIDE DEF Upper, Lower
<1>7. Upper - Lower \in Int
  <2>1. Upper \in Int /\ Lower \in Int
    BY <1>6, Numbers
  <2>2. QED
    BY <2>1
<1>8. \A x \in Int : x % SizeMod \in 0 .. SizeMod - 1
  BY Widths
<1>9. QED
  BY <1>5, <1>7, <1>8 DEF Size

LEMMA MapTypes ==
  ASSUME Platform, NEW f \in Files
  PROVE  /\ SouthMap(f) \in SUBSET Entry /\ NorthMap(f) \in SUBSET Entry
         /\ BusSize(SouthMap(f)) \in Size
         /\ NorthSize(f) \in [Bound[North] -> Size \cup {NoSize}]
<1>1. South \in Buses /\ North \in Buses
  BY DEF Buses
<1>2. SouthMap(f) \in SUBSET Entry
  BY <1>1, SouthSizeType, BuiltIsMap DEF SouthMap
<1>3. BusSize(SouthMap(f)) \in Size
  BY <1>2, BusSizeType
<1>4. NorthSize(f) \in [Bound[North] -> Size \cup {NoSize}]
  <2>1. \A m \in Memories : TargetSize[m] \in Size
    BY MemorySystemAssumption
  <2>2. QED
    BY <1>3, <2>1 DEF NorthSize
<1>5. NorthMap(f) \in SUBSET Entry
  BY <1>1, <1>4, BuiltIsMap DEF NorthMap
<1>6. QED
  BY <1>2, <1>3, <1>4, <1>5

\* The closest entry below an address is one of the map.
LEMMA ClosestIsBelow ==
  ASSUME NEW map \in SUBSET Entry, NEW a, Below(map, a) # {}
  PROVE  Closest(map, a) \in Below(map, a)
<1> DEFINE bases == {e.base : e \in Below(map, a)}
<1>1. bases \in SUBSET Address /\ bases # {}
  BY DEF Below, Entry
<1>2. PICK x \in bases : \A y \in bases : y <= x
  BY <1>1, LargestAddress
<1>3. \E e \in Below(map, a) : \A g \in Below(map, a) : g.base <= e.base
  BY <1>2
<1>4. QED
  BY <1>3 DEF Closest

LEMMA DecodedAddress ==
  ASSUME NEW map \in SUBSET Entry, NEW a \in Nat
  PROVE  Decode(map, a).address \in Nat
<1>1. CASE Covered(map, a)
  <2>1. Closest(map, a) \in Below(map, a)
    BY <1>1, ClosestIsBelow DEF Covered
  <2>2. Closest(map, a).base \in Address /\ Closest(map, a).base <= a
    BY <2>1 DEF Below, Entry
  <2>3. Closest(map, a).base \in Int
    BY <2>2, Numbers
  <2>4. Decode(map, a).address = a - Closest(map, a).base
    BY <1>1 DEF Decode
  <2>5. QED
    BY <2>2, <2>3, <2>4
<1>2. CASE ~Covered(map, a)
  BY <1>2, Widths DEF Decode, Nowhere
<1>3. QED
  BY <1>1, <1>2

LEMMA RouteAddress ==
  ASSUME Platform, EInv, starting = <<>>, NEW a \in Address
  PROVE  Route(a).address \in Nat
<1>1. a \in Nat
  BY DEF Address
<1>2. CASE root # North
  BY <1>1, <1>2 DEF Route
<1>3. CASE root = North
  <2>1. addrMap[South] = SouthMap(file) /\ addrMap[North] = NorthMap(file) /\ file \in Files
    BY <1>3 DEF EInv, StartedOK
  <2>2. addrMap[South] \in SUBSET Entry /\ addrMap[North] \in SUBSET Entry
    BY <2>1, MapTypes
  <2>3. Decode(addrMap[North], a).address \in Nat
    BY <1>1, <2>2, DecodedAddress
  <2>4. Decode(addrMap[South], Decode(addrMap[North], a).address).address \in Nat
    BY <2>2, <2>3, DecodedAddress
  <2>5. QED
    BY <1>3, <2>3, <2>4 DEF Route
<1>4. QED
  BY <1>2, <1>3

-----------------------------------------------------------------------------
(* The contents are kept *)

LEMMA InitSInv == Init => SInv
<1> SUFFICES ASSUME Init PROVE SInv
  OBVIOUS
<1>1. store = [m \in Memories |-> <<Zero>>]
  BY DEF Init
<1>2. \A m \in Memories : TargetSize[m] \in Nat /\ TargetSize[m] # 0
  BY SizeIsNat, MemorySystemAssumption
<1>3. Zero \in Values
  BY MemorySystemAssumption
<1>4. QED
  BY <1>1, <1>2, <1>3 DEF SInv, Fits

LEMMA StartSInv ==
  ASSUME SInv, StartOfSimulation
  PROVE  SInv' /\ \A m \in Memories : Grown(store[m], store'[m])
<1>1. \A m \in Memories : /\ Fits(m, Content(m, TRUE)) /\ Grown(store[m], Content(m, TRUE))
                          /\ Fits(m, Content(m, FALSE)) /\ Grown(store[m], Content(m, FALSE))
  BY ContentFits DEF SInv
<1>2. \A m \in Memories : Content(m, TRUE) = Full(m) /\ Content(m, FALSE) = store[m]
  BY DEF Content
<1>3. store' = [m \in Memories |-> IF m \in Bound[Head(starting)] THEN Full(m) ELSE store[m]]
  BY DEF StartOfSimulation
<1>4. QED
  BY <1>1, <1>2, <1>3 DEF SInv

\* The memory that an access within the range leaves before it writes.
LEMMA RoomForAccess ==
  ASSUME Platform, EInv, SInv, starting = <<>>, NEW a \in Address, NEW n \in 1 .. MaxLength,
         NEW debug, InRange(Route(a), n)
  PROVE  LET m == Route(a).port
             end == Route(a).address + n
             mem == Expanded(m, Content(m, debug), end)
         IN /\ m \in Memories /\ Fits(m, mem) /\ Len(mem) >= end
            /\ \A offset \in Nat : ByteOf(mem, offset) = ByteOf(store[m], offset)
<1> DEFINE m == Route(a).port
           end == Route(a).address + n
           old == Content(m, debug)
           mem == Expanded(m, old, end)
<1>1. m \in Memories /\ Route(a).address \in Nat /\ Route(a).address + n < TargetSize[m]
  BY RouteAddress DEF InRange
<1>2. TargetSize[m] \in Nat /\ MaxLength \in Nat
  BY <1>1, SizeIsNat, MemorySystemAssumption
<1>3. end \in 1 .. TargetSize[m]
  BY <1>1, <1>2
<1>4. Fits(m, old) /\ Grown(store[m], old)
  BY <1>1, ContentFits DEF SInv
<1> HIDE DEF old, end, m
<1>5. Fits(m, mem) /\ Grown(old, mem) /\ Len(mem) >= end
  BY <1>1, <1>3, <1>4, ExpandedFits
<1> HIDE DEF mem
<1>6. \A offset \in Nat : ByteOf(mem, offset) = ByteOf(store[m], offset)
  BY <1>4, <1>5 DEF Grown
<1>7. QED
  BY <1>1, <1>5, <1>6 DEF mem, m, end, old

-----------------------------------------------------------------------------
(* From addresses back to memories *)

\* An address that a bus decodes to a port belongs to a line of that target.
LEMMA DecodedFrom ==
  ASSUME NEW f \in Files, NEW b \in Buses,
         NEW size \in [Bound[b] -> Size \cup {NoSize}],
         NEW a \in Nat, NEW n \in Nodes,
         Decode(Build(f.lines[b], Bound[b], size), a).port = n
  PROVE  /\ n \in Bound[b]
         /\ \E l \in f.lines[b] :
              /\ l.name = n /\ l.base <= a
              /\ Decode(Build(f.lines[b], Bound[b], size), a).address = a - l.base
<1> DEFINE map == Build(f.lines[b], Bound[b], size)
<1>1. n # BadPort
  BY AddressMapAssumption
<1>2. map \in SUBSET Entry
  BY BuiltIsMap
<1>3. Covered(map, a)
  BY <1>1 DEF Decode, Nowhere
<1>4. PICK e \in map : /\ e = Closest(map, a) /\ e.base <= a
  BY <1>2, <1>3, ClosestIsBelow DEF Covered, Below
<1>5. e.port = n /\ Decode(map, a).address = a - e.base
  BY <1>3, <1>4 DEF Decode
<1>6. PICK l \in f.lines[b] : e = IF l.name \in Bound[b]
                                    THEN Probed(Unprobed(l), size[l.name]) ELSE Unprobed(l)
  BY <1>4 DEF Build
<1>7. e.base = l.base
  BY <1>6 DEF Probed, Unprobed
<1>8. l.name \in Bound[b] /\ l.name = n
  <2>1. Unprobed(l).port = BadPort
    BY DEF Unprobed
  <2>2. l.name \in Bound[b]
    BY <1>1, <1>5, <1>6, <2>1
  <2>3. size[l.name] # NoSize
    BY <1>1, <1>5, <1>6, <2>1, <2>2 DEF Probed
  <2>4. e.port = l.name
    BY <1>6, <2>2, <2>3 DEF Probed, Unprobed
  <2>5. QED
    BY <1>5, <2>2, <2>4
<1>9. QED
  BY <1>4, <1>5, <1>7, <1>8

\* An access that ends at a memory began at the address the file gives to it.
LEMMA RouteBack ==
  ASSUME WideEnough, EInv, root \in Roots, starting = <<>>, ~reported,
         NEW a \in Address, Route(a).port \in Memories
  PROVE  LET m == Route(a).port
         IN Placed(m) /\ Origin(m) \in Int /\ a = Origin(m) + Route(a).address
<1>1. /\ a \in Nat /\ Platform /\ South \in Buses /\ North \in Buses
      /\ South \notin Memories /\ \A m \in Memories : m \in Nodes
      /\ South \in Nodes /\ North \notin Memories
  BY MemorySystemAssumption DEF Address, WideEnough, Buses
<1>2. CASE root # North
  BY <1>1, <1>2 DEF Route, Placed, Origin
<1>3. CASE root = North
  <2>1. NoErrors(file) /\ file \in Files /\ \A x : Route(x) = RouteIn(file, x)
    BY <1>1, <1>3, RunningHasNoErrors DEF Running
  <2>2. Room(file)
    BY <2>1 DEF WideEnough
  <2> DEFINE hop == Decode(NorthMap(file), a)
  <2>3. NorthSize(file) \in [Bound[North] -> Size \cup {NoSize}]
        /\ SouthSize \in [Bound[South] -> Size \cup {NoSize}]
    BY <1>1, <2>1, MapTypes, SouthSizeType
  <2>4. \A b \in Buses : \A l \in file.lines[b] :
           /\ l.base \in Int /\ LineBase(b, l.name) = l.base /\ Listed(b, l.name)
    <3>1. \A b \in Buses : \A l \in file.lines[b] : l.base \in Address
      BY <2>1, MemorySystemAssumption DEF Line
    <3>2. QED
      BY <2>1, <3>1, Numbers, LineIsUnique DEF LineBase, Listed
  <2>5. CASE hop.port # South
    <3>1. Route(a) = hop
      BY <2>1, <2>5 DEF RouteIn
    <3>2. hop.port \in Nodes /\ hop.port \in Memories
      BY <1>1, <3>1
    <3>3. /\ hop.port \in Bound[North]
          /\ \E l \in file.lines[North] : l.name = hop.port /\ hop.address = a - l.base
      BY <1>1, <2>1, <2>3, <3>2, DecodedFrom DEF NorthMap
    <3> HIDE DEF hop
    <3>4. PICK l \in file.lines[North] : l.name = hop.port /\ hop.address = a - l.base
      BY <3>3
    <3>5. l.base \in Int /\ LineBase(North, hop.port) = l.base /\ Listed(North, hop.port)
      BY <1>1, <2>4, <3>4
    <3>6. Placed(hop.port) /\ Origin(hop.port) = l.base
      BY <1>3, <3>3, <3>5 DEF Placed, Origin, Home
    <3>7. QED
      BY <1>1, <3>1, <3>4, <3>5, <3>6
  <2>6. CASE hop.port = South
    <3>1. Route(a) = Decode(SouthMap(file), hop.address)
      BY <2>1, <2>6 DEF RouteIn
    <3>2. \E k \in file.lines[North] : k.name = South /\ k.base <= a /\ hop.address = a - k.base
      BY <1>1, <2>1, <2>3, <2>6, DecodedFrom DEF NorthMap
    <3> HIDE DEF hop
    <3>3. PICK k \in file.lines[North] : k.name = South /\ k.base <= a /\ hop.address = a - k.base
      BY <3>2
    <3>4. k.base \in Int /\ LineBase(North, South) = k.base /\ Listed(North, South)
      BY <1>1, <2>4, <3>3
    <3>5. hop.address \in Nat
      BY <1>1, <3>3, <3>4
    <3> DEFINE m == Route(a).port
    <3>6. m \in Nodes /\ m \in Memories
      BY <1>1
    <3>7. /\ m \in Bound[South]
          /\ \E l \in file.lines[South] : l.name = m /\ Route(a).address = hop.address - l.base
      BY <1>1, <2>1, <2>3, <3>1, <3>5, <3>6, DecodedFrom DEF SouthMap
    <3>8. PICK l \in file.lines[South] : l.name = m /\ Route(a).address = hop.address - l.base
      BY <3>7
    <3>9. l.base \in Int /\ LineBase(South, m) = l.base /\ Listed(South, m)
      BY <1>1, <2>4, <3>8
    <3>10. m \notin Bound[North]
      BY <1>1, <3>7 DEF Platform
    <3>11. Placed(m) /\ Origin(m) = k.base + l.base
      BY <1>3, <3>4, <3>6, <3>7, <3>9, <3>10 DEF Placed, Origin, Home
    <3>12. QED
      BY <1>1, <3>3, <3>4, <3>8, <3>9, <3>11
  <2>7. QED
    BY <2>5, <2>6
<1>4. QED
  BY <1>2, <1>3

LEMMA OriginIsInt ==
  ASSUME Platform, file \in Files, NEW m, Placed(m) PROVE Origin(m) \in Int
<1>1. CASE root # North
  BY <1>1 DEF Origin
<1>2. CASE root = North
  <2>1. \A b \in Buses : \A l \in file.lines[b] : LineBase(b, l.name) \in Int
    <3>1. \A b \in Buses : \A l \in file.lines[b] : l.base \in Address
      BY MemorySystemAssumption DEF Line
    <3>2. QED
      BY <3>1, Numbers, LineIsUnique DEF LineBase
  <2>2. \A b \in Buses : \A n : Listed(b, n) => LineBase(b, n) \in Int
    BY <2>1 DEF Listed
  <2>3. CASE m \in Bound[North] /\ Listed(North, m)
    BY <1>2, <2>2, <2>3 DEF Origin, Home, Buses
  <2>4. CASE m \in Bound[South] /\ Listed(South, m) /\ Listed(North, South)
    <3>1. LineBase(North, South) \in Int /\ LineBase(South, m) \in Int
      BY <2>2, <2>4 DEF Buses
    <3>2. m \notin Bound[North]
      BY <2>4 DEF Platform
    <3>3. QED
      BY <1>2, <3>1, <3>2 DEF Origin, Home
  <2>5. QED
    BY <1>2, <2>3, <2>4 DEF Placed
<1>3. QED
  BY <1>1, <1>2
-----------------------------------------------------------------------------
(* Memories as cells *)

\* What ActsAsFlatMemory puts for the cells and for the locked addresses.
Holder(x) == CHOOSE p \in Places(Memories) : x \in Region(p)
Mapped    == UNION {Region(p) : p \in Places(Memories)}
Cells     == [x \in Mapped |-> Byte(Holder(x).memory, x - Holder(x).base)]
Locked    == UNION {Region(p) : p \in Places(ReadOnly)}

\* The steps of the flat memory, in these words.
LEMMA FlatRead ==
  ASSUME NEW a, NEW data
  PROVE  Flat!Read(a, data) <=>
           /\ a .. a + Len(data) - 1 \subseteq DOMAIN Cells
           /\ \A i \in DOMAIN data : data[i] = Cells[a + i - 1]
           /\ Cells' = Cells /\ Locked' = Locked
  BY DEF Flat!Read, Flat!Span, Cells, Locked, Holder, Mapped

LEMMA FlatWrite ==
  ASSUME NEW a, NEW data
  PROVE  Flat!Write(a, data) <=>
           /\ a .. a + Len(data) - 1 \subseteq DOMAIN Cells \ Locked
           /\ Cells' = [x \in DOMAIN Cells |->
                          IF x \in a .. a + Len(data) - 1 THEN data[x - a + 1] ELSE Cells[x]]
           /\ Locked' = Locked
  BY DEF Flat!Write, Flat!Span, Cells, Locked, Holder, Mapped

LEMMA FlatRefuse ==
  Flat!Refuse <=> Cells' = Cells /\ Locked' = Locked
  BY DEF Flat!Refuse, Cells, Locked, Holder, Mapped

LEMMA FlatVars ==
  UNCHANGED Flat!vars <=> Cells' = Cells /\ Locked' = Locked /\ answer' = answer
  BY DEF Flat!vars, Cells, Locked, Holder, Mapped

LEMMA PlacesOf ==
  ASSUME NEW S
  PROVE  /\ \A p \in Places(S) : /\ p.memory \in S /\ Placed(p.memory)
                                 /\ p.base = Origin(p.memory)
         /\ \A m \in S : Placed(m) => [memory |-> m, base |-> Origin(m)] \in Places(S)
  BY DEF Places

\* Which addresses are mapped depends on the file alone; what they hold, on the
\* memories.
LEMMA CellsOf ==
  /\ DOMAIN Cells = Mapped
  /\ \A x \in Mapped : /\ Holder(x) \in Places(Memories) /\ x \in Region(Holder(x))
                       /\ Cells[x] = ByteOf(store[Holder(x).memory], x - Holder(x).base)
<1>1. \A x \in Mapped : Holder(x) \in Places(Memories) /\ x \in Region(Holder(x))
  BY DEF Mapped, Holder
<1>2. QED
  BY <1>1 DEF Cells, Byte, ByteOf

LEMMA CellsNext ==
  ASSUME file' = file, root' = root
  PROVE  /\ Locked' = Locked
         /\ Cells' = [x \in Mapped |->
                        ByteOf(store'[Holder(x).memory], x - Holder(x).base)]
<1>1. /\ \A m : Placed(m)' <=> Placed(m)
      /\ \A m : Origin(m)' = Origin(m)
  BY DEF Placed, Origin, Home, Listed, LineBase
<1>2. Places(Memories)' = Places(Memories) /\ Places(ReadOnly)' = Places(ReadOnly)
  BY <1>1 DEF Places
<1>3. /\ Locked' = Locked /\ Mapped' = Mapped
      /\ \A x : Holder(x)' = Holder(x)
  BY <1>2 DEF Locked, Mapped, Holder
<1>4. \A x : Byte(Holder(x).memory, x - Holder(x).base)'
               = ByteOf(store'[Holder(x).memory], x - Holder(x).base)
  BY <1>3 DEF Byte, ByteOf
<1>5. QED
  BY <1>3, <1>4 DEF Cells

FInv == EInv /\ SInv /\ root \in Roots

\* The platform is up and has reported no error.
Sound == FInv /\ starting = <<>> /\ ~reported

LEMMA NumbersOfPlaces ==
  ASSUME Platform, file \in Files, NEW p \in Places(Memories), NEW x \in Region(p)
  PROVE  /\ p.base \in Int /\ x \in Int /\ x - p.base \in Served(p.memory)
         /\ x - p.base \in Nat /\ p.memory \in Memories
         /\ TargetSize[p.memory] \in Nat /\ x - p.base < TargetSize[p.memory] - 1
<1>1. p.memory \in Memories /\ Placed(p.memory) /\ p.base = Origin(p.memory)
  BY PlacesOf
<1>2. p.base \in Int
  BY <1>1, OriginIsInt
<1>3. PICK offset \in Served(p.memory) : x = p.base + offset
  BY DEF Region
<1>4. TargetSize[p.memory] \in Nat
  BY <1>1, SizeIsNat
<1>5. /\ offset \in Nat /\ offset < TargetSize[p.memory] - 1
  BY <1>4 DEF Served
<1>6. x \in Int /\ x - p.base = offset
  BY <1>2, <1>3, <1>5
<1>7. QED
  BY <1>1, <1>2, <1>3, <1>4, <1>5, <1>6

\* Every address of a place leads to it: so no two places share an address.
LEMMA RegionRoutes ==
  ASSUME WideEnough, Sound, NEW p \in Places(Memories), NEW x \in Region(p)
  PROVE  Route(x) = [port |-> p.memory, address |-> x - p.base]
<1>1. Platform /\ file \in Files /\ root \in Roots /\ Roots \subseteq {North} \cup Memories
  BY MemorySystemAssumption DEF WideEnough, Sound, FInv, EInv
<1>2. p.memory \in Memories /\ Placed(p.memory) /\ p.base = Origin(p.memory)
  BY PlacesOf
<1>3. /\ p.base \in Int /\ x \in Int /\ x - p.base \in Served(p.memory)
  BY <1>1, NumbersOfPlaces
<1>4. CASE root # North
  <2>1. p.memory = root /\ p.base = 0
    BY <1>2, <1>4 DEF Placed, Origin
  <2>2. QED
    BY <1>3, <1>4, <2>1 DEF Route
<1>5. CASE root = North
  <2>1. NoErrors(file) /\ \A a : Route(a) = RouteIn(file, a)
    BY <1>1, <1>5, RunningHasNoErrors DEF Running, Sound, FInv
  <2>2. Room(file)
    BY <1>1 DEF WideEnough
  <2>3. p.memory \in Bound[North] \cap Memories \/ p.memory \in Bound[South]
    BY <1>2, <1>5 DEF Placed
  <2>4. RouteIn(file, HomeIn(file, p.memory) + (x - p.base))
          = [port |-> p.memory, address |-> x - p.base]
    BY <1>1, <1>3, <2>1, <2>2, <2>3, NorthMemoriesAreReached, SouthMemoriesAreReached
  <2>5. HomeIn(file, p.memory) = p.base
    BY <1>2, <1>5, HomeIsHomeIn DEF Origin
  <2>6. p.base + (x - p.base) = x
    BY <1>3
  <2>7. QED
    BY <2>1, <2>4, <2>5, <2>6
<1>6. QED
  BY <1>4, <1>5

\* What the cell at an address holds is the byte to which the address leads.
LEMMA CellIsByte ==
  ASSUME WideEnough, Sound, NEW x \in Mapped
  PROVE  /\ Route(x) = [port |-> Holder(x).memory, address |-> x - Holder(x).base]
         /\ Cells[x] = ByteOf(store[Route(x).port], Route(x).address)
         /\ Route(x).port \in Memories /\ Route(x).address \in Nat
<1>1. Platform /\ file \in Files
  BY DEF WideEnough, Sound, FInv, EInv
<1>2. /\ Holder(x) \in Places(Memories) /\ x \in Region(Holder(x))
      /\ Cells[x] = ByteOf(store[Holder(x).memory], x - Holder(x).base)
  BY CellsOf
<1>3. Route(x) = [port |-> Holder(x).memory, address |-> x - Holder(x).base]
  BY <1>2, RegionRoutes
<1>4. Holder(x).memory \in Memories /\ x - Holder(x).base \in Nat
  BY <1>1, <1>2, NumbersOfPlaces
<1>5. QED
  BY <1>2, <1>3, <1>4

LEMMA LockedAddresses ==
  ASSUME WideEnough, Sound, NEW x \in Locked
  PROVE  Route(x).port \in ReadOnly
<1>1. PICK p \in Places(ReadOnly) : x \in Region(p)
  BY DEF Locked
<1>2. p \in Places(Memories) /\ p.memory \in ReadOnly
  BY MemorySystemAssumption DEF Places
<1>3. Route(x) = [port |-> p.memory, address |-> x - p.base]
  BY <1>1, <1>2, RegionRoutes
<1>4. QED
  BY <1>2, <1>3

\* An access within the range concerns consecutive bytes of one memory.
LEMMA SpanOfAccess ==
  ASSUME WideEnough, Sound, NEW a \in Address, NEW n \in 1 .. MaxLength,
         InRange(Route(a), n)
  PROVE  /\ a \in Int /\ n \in Nat /\ n >= 1
         /\ Route(a).port \in Memories /\ Route(a).address \in Nat
         /\ \A x \in a .. a + n - 1 :
              /\ x \in Mapped
              /\ Route(x) = [port |-> Route(a).port, address |-> Route(a).address + (x - a)]
         /\ \A x \in Mapped :
              Route(x).port = Route(a).port => x - a = Route(x).address - Route(a).address
<1> DEFINE m == Route(a).port
           p == [memory |-> m, base |-> Origin(m)]
<1>1. /\ Platform /\ EInv /\ starting = <<>> /\ file \in Files /\ root \in Roots /\ ~reported
  BY DEF WideEnough, Sound, FInv, EInv
<1>2. /\ m \in Memories /\ Route(a).address \in Nat
      /\ Route(a).address + n < TargetSize[m] /\ TargetSize[m] \in Nat
  BY <1>1, RouteAddress, SizeIsNat DEF InRange
<1>3. n \in Nat /\ n >= 1 /\ a \in Int
  BY MemorySystemAssumption, Numbers
<1>4. Placed(m) /\ Origin(m) \in Int /\ a = Origin(m) + Route(a).address
  BY <1>1, <1>2, RouteBack
<1>5. p \in Places(Memories) /\ p.memory = m /\ p.base = Origin(m)
  BY <1>2, <1>4 DEF Places
<1> HIDE DEF p, m
<1>6. ASSUME NEW x \in a .. a + n - 1
      PROVE  /\ x \in Mapped
             /\ Route(x) = [port |-> m, address |-> Route(a).address + (x - a)]
  <2>1. x \in Int /\ x - p.base = Route(a).address + (x - a)
    BY <1>3, <1>4, <1>2, <1>5
  <2>2. Route(a).address + (x - a) \in Served(m)
    BY <1>2, <1>3, <2>1 DEF Served
  <2>3. x = p.base + (Route(a).address + (x - a))
    BY <1>2, <1>3, <1>4, <1>5, <2>1
  <2>4. x \in Region(p)
    BY <1>5, <2>2, <2>3 DEF Region
  <2>5. x \in Mapped
    BY <1>5, <2>4 DEF Mapped
  <2>6. QED
    BY <1>5, <2>1, <2>4, <2>5, RegionRoutes
<1>7. ASSUME NEW x \in Mapped, Route(x).port = m
      PROVE  x - a = Route(x).address - Route(a).address
  <2>1. /\ Route(x) = [port |-> Holder(x).memory, address |-> x - Holder(x).base]
        /\ Holder(x) \in Places(Memories) /\ x \in Region(Holder(x))
    BY CellIsByte, CellsOf
  <2>2. Holder(x).memory = m /\ Holder(x).base = Origin(m) /\ x \in Int
    BY <1>1, <1>7, <2>1, PlacesOf, NumbersOfPlaces
  <2>3. Route(x).address = x - Origin(m)
    BY <2>1, <2>2
  <2>4. QED
    BY <1>2, <1>3, <1>4, <2>2, <2>3
<1>8. QED
  BY <1>2, <1>3, <1>6, <1>7 DEF m

-----------------------------------------------------------------------------
(* Steps *)

\* Memories that keep their bytes, whatever their sizes, are the same cells.
LEMMA CellsAreKept ==
  ASSUME Platform, file \in Files, file' = file, root' = root,
         \A m \in Memories : \A offset \in Nat :
           ByteOf(store'[m], offset) = ByteOf(store[m], offset)
  PROVE  Cells' = Cells /\ Locked' = Locked
<1>1. \A x \in Mapped : Holder(x).memory \in Memories /\ x - Holder(x).base \in Nat
  BY CellsOf, NumbersOfPlaces
<1>2. \A x \in Mapped : ByteOf(store'[Holder(x).memory], x - Holder(x).base) = Cells[x]
  BY <1>1, CellsOf
<1>3. Cells' = [x \in Mapped |-> Cells[x]] /\ Locked' = Locked
  BY <1>2, CellsNext
<1>4. Cells = [x \in Mapped |-> Cells[x]]
  BY DEF Cells
<1>5. QED
  BY <1>3, <1>4

LEMMA StartStep ==
  ASSUME Platform, FInv, StartOfSimulation
  PROVE  FInv' /\ UNCHANGED Flat!vars
<1>1. EInv' /\ SInv' /\ file' = file /\ root' = root /\ answer' = answer /\ file \in Files
  BY StartEInv, StartSInv DEF FInv, EInv, StartOfSimulation
<1>2. \A m \in Memories : \A offset \in Nat : ByteOf(store'[m], offset) = ByteOf(store[m], offset)
  BY StartSInv DEF FInv, Grown
<1>3. Cells' = Cells /\ Locked' = Locked
  BY <1>1, <1>2, CellsAreKept
<1>4. QED
  BY <1>1, <1>3, FlatVars DEF FInv

LEMMA ReadStep ==
  ASSUME WideEnough, Sound, NEW a \in Address, NEW n \in 1 .. MaxLength, NEW debug,
         Read(a, n, debug)
  PROVE  Flat!Next
<1> DEFINE m   == Route(a).port
           at  == Route(a).address
           mem == Expanded(m, Content(m, debug), at + n)
<1>1. /\ Platform /\ EInv /\ SInv /\ starting = <<>> /\ file \in Files
      /\ file' = file /\ root' = root /\ InRange(Route(a), n)
      /\ store' = [store EXCEPT ![m] = mem]
      /\ answer' = Accepted("read", a, SubSeq(mem, at + 1, at + n))
  BY DEF WideEnough, Sound, FInv, EInv, Read, platform
<1>2. /\ m \in Memories /\ Fits(m, mem) /\ Len(mem) >= at + n
      /\ \A offset \in Nat : ByteOf(mem, offset) = ByteOf(store[m], offset)
  BY <1>1, RoomForAccess
<1>3. /\ a \in Int /\ n \in Nat /\ n >= 1 /\ at \in Nat
      /\ \A x \in a .. a + n - 1 :
           x \in Mapped /\ Route(x) = [port |-> m, address |-> at + (x - a)]
  BY <1>1, SpanOfAccess
<1> HIDE DEF m, at, mem
<1>4. \A k \in Memories : store'[k] = IF k = m THEN mem ELSE store[k]
  BY <1>1, <1>2 DEF SInv
<1>5. \A k \in Memories : \A offset \in Nat : ByteOf(store'[k], offset) = ByteOf(store[k], offset)
  BY <1>2, <1>4
<1>6. Cells' = Cells /\ Locked' = Locked
  BY <1>1, <1>5, CellsAreKept
<1> DEFINE data == SubSeq(mem, at + 1, at + n)
<1>7. mem \in Seq(Values) /\ Len(mem) \in Nat
  BY <1>2 DEF Fits
<1>8. /\ Len(data) = n /\ DOMAIN data = 1 .. n
      /\ \A i \in 1 .. n : data[i] = mem[at + i]
  BY <1>2, <1>3, <1>7
<1> HIDE DEF data
<1>9. ASSUME NEW i \in 1 .. n PROVE data[i] = Cells[a + i - 1]
  <2>1. /\ a + i - 1 \in a .. a + n - 1 /\ at + ((a + i - 1) - a) = at + i - 1
        /\ at + i - 1 \in Nat /\ at + i - 1 < Len(mem) /\ (at + i - 1) + 1 = at + i
    BY <1>2, <1>3, <1>7
  <2>2. a + i - 1 \in Mapped /\ Route(a + i - 1) = [port |-> m, address |-> at + i - 1]
    BY <1>3, <2>1
  <2>3. Cells[a + i - 1] = ByteOf(store[m], at + i - 1)
    BY <2>2, CellIsByte
  <2>4. ByteOf(store[m], at + i - 1) = mem[at + i]
    BY <1>2, <2>1 DEF ByteOf
  <2>5. QED
    BY <1>8, <2>3, <2>4
<1>10. a .. a + Len(data) - 1 \subseteq DOMAIN Cells
  BY <1>3, <1>8, CellsOf
<1>11. Flat!Read(a, data)
  BY <1>6, <1>8, <1>9, <1>10, FlatRead
<1>12. answer' = Accepted("read", a, data)
  BY <1>1 DEF data
<1>13. QED
  BY <1>11, <1>12 DEF Flat!Next, Accepted

LEMMA WriteStep ==
  ASSUME WideEnough, Sound, NEW a \in Address, NEW n \in 1 .. MaxLength, NEW debug,
         NEW data \in [1 .. n -> Values], Write(a, data, debug)
  PROVE  Flat!Next
<1> DEFINE m   == Route(a).port
           at  == Route(a).address
           mem == Expanded(m, Content(m, debug), at + n)
           new == [i \in DOMAIN mem |-> IF i - at \in 1 .. n THEN data[i - at] ELSE mem[i]]
<1>1. Len(data) = n
  BY MemorySystemAssumption
<1>2. /\ Platform /\ EInv /\ SInv /\ starting = <<>> /\ file \in Files
      /\ file' = file /\ root' = root /\ InRange(Route(a), n) /\ m \notin ReadOnly
      /\ store' = [store EXCEPT ![m] = new]
      /\ answer' = Accepted("write", a, data)
  BY <1>1 DEF WideEnough, Sound, FInv, EInv, Write, platform
<1>3. /\ m \in Memories /\ Fits(m, mem) /\ Len(mem) >= at + n
      /\ \A offset \in Nat : ByteOf(mem, offset) = ByteOf(store[m], offset)
  BY <1>2, RoomForAccess
<1>4. /\ a \in Int /\ n \in Nat /\ n >= 1 /\ at \in Nat
      /\ \A x \in a .. a + n - 1 :
           x \in Mapped /\ Route(x) = [port |-> m, address |-> at + (x - a)]
      /\ \A x \in Mapped : Route(x).port = m => x - a = Route(x).address - at
  BY <1>2, SpanOfAccess
<1>5. mem \in Seq(Values) /\ Len(mem) \in Nat /\ DOMAIN mem = 1 .. Len(mem)
  BY <1>3 DEF Fits
<1> HIDE DEF m, at, mem
<1>6. /\ new \in Seq(Values) /\ Len(new) = Len(mem)
      /\ \A i \in 1 .. Len(mem) : new[i] = IF i - at \in 1 .. n THEN data[i - at] ELSE mem[i]
  <2>1. \A i \in 1 .. Len(mem) : (IF i - at \in 1 .. n THEN data[i - at] ELSE mem[i]) \in Values
    BY <1>5
  <2>2. QED
    BY <1>5, <2>1
<1> HIDE DEF new
<1>7. \A k \in Memories : store'[k] = IF k = m THEN new ELSE store[k]
  BY <1>2, <1>3 DEF SInv
<1> DEFINE span == a .. a + Len(data) - 1
<1>8. span = a .. a + n - 1
  BY <1>1
<1> HIDE DEF span
<1>9. ASSUME NEW x \in Mapped
      PROVE  ByteOf(store'[Holder(x).memory], x - Holder(x).base)
               = IF x \in span THEN data[x - a + 1] ELSE Cells[x]
  <2> DEFINE k == Route(x).port
             offset == Route(x).address
  <2>1. /\ k = Holder(x).memory /\ offset = x - Holder(x).base
        /\ Cells[x] = ByteOf(store[k], offset) /\ k \in Memories /\ offset \in Nat
    BY CellIsByte
  <2>2. x \in Int
    BY <1>2, CellsOf, NumbersOfPlaces
  <2>3. /\ x \in span => k = m
        /\ k = m => x - a = offset - at
    BY <1>4, <1>8
  <2> HIDE DEF k, offset
  <2>4. CASE k # m
    BY <1>7, <2>1, <2>3, <2>4
  <2>5. CASE k = m
    <3>1. ByteOf(store'[k], offset) = ByteOf(new, offset) /\ x - a = offset - at
      BY <1>7, <2>1, <2>3, <2>5
    <3>2. Cells[x] = ByteOf(mem, offset)
      BY <1>3, <2>1, <2>5
    <3>3. CASE x \in span
      <4>1. /\ offset + 1 \in 1 .. Len(mem) /\ (offset + 1) - at = x - a + 1
            /\ x - a + 1 \in 1 .. n /\ offset < Len(mem)
        <5>1. /\ a \in Int /\ n \in Nat /\ at \in Nat /\ offset \in Nat /\ Len(mem) \in Nat
              /\ Len(mem) >= at + n /\ x - a = offset - at /\ x \in a .. a + n - 1
          BY <1>3, <1>4, <1>5, <1>8, <2>1, <3>1, <3>3
        <5>2. QED
          BY <5>1
      <4>2. ByteOf(new, offset) = data[x - a + 1]
        BY <1>6, <4>1 DEF ByteOf
      <4>3. QED
        BY <2>1, <3>1, <3>3, <4>2
    <3>4. CASE x \notin span
      <4>1. (offset + 1) - at \notin 1 .. n
        BY <1>4, <1>8, <2>1, <2>2, <3>1, <3>4
      <4>2. ByteOf(new, offset) = ByteOf(mem, offset)
        <5>1. CASE offset < Len(mem)
          <6>1. offset + 1 \in 1 .. Len(mem) /\ offset < Len(new)
            BY <1>5, <1>6, <2>1, <5>1
          <6>2. QED
            BY <1>6, <4>1, <5>1, <6>1 DEF ByteOf
        <5>2. CASE ~(offset < Len(mem))
          BY <1>6, <5>2 DEF ByteOf
        <5>3. QED
          BY <5>1, <5>2
      <4>3. QED
        BY <2>1, <3>1, <3>2, <3>4, <4>2
    <3>5. QED
      BY <3>3, <3>4
  <2>6. QED
    BY <2>4, <2>5
<1>10. /\ Locked' = Locked
       /\ Cells' = [x \in Mapped |-> IF x \in span THEN data[x - a + 1] ELSE Cells[x]]
  BY <1>2, <1>9, CellsNext
<1>11. span \subseteq DOMAIN Cells \ Locked
  <2>1. \A x \in span : Route(x).port \notin ReadOnly
    BY <1>2, <1>4, <1>8
  <2>2. QED
    BY <1>4, <1>8, <2>1, CellsOf, LockedAddresses
<1>12. Flat!Write(a, data)
  BY <1>10, <1>11, CellsOf, FlatWrite DEF span
<1>13. QED
  BY <1>2, <1>12 DEF Flat!Next, Accepted

LEMMA RefuseStep ==
  ASSUME Platform, FInv, NEW op, NEW a, NEW n, NEW debug, Refuse(op, a, n, debug)
  PROVE  SInv' /\ Flat!Next
<1> DEFINE m == Route(a).port
<1>1. /\ Platform /\ SInv /\ file \in Files /\ file' = file /\ root' = root
      /\ store' = IF m \in Memories THEN [store EXCEPT ![m] = Content(m, debug)] ELSE store
      /\ answer' = Refused(op, a)
  BY DEF FInv, EInv, Refuse, platform
<1> HIDE DEF m
<1>2. m \in Memories => Fits(m, Content(m, debug)) /\ Grown(store[m], Content(m, debug))
  BY <1>1, ContentFits DEF SInv
<1>3. SInv' /\ \A k \in Memories : store'[k] = IF k = m THEN Content(m, debug) ELSE store[k]
  BY <1>1, <1>2 DEF SInv
<1>4. \A k \in Memories : \A offset \in Nat : ByteOf(store'[k], offset) = ByteOf(store[k], offset)
  BY <1>2, <1>3 DEF Grown
<1>5. Cells' = Cells /\ Locked' = Locked
  BY <1>1, <1>4, CellsAreKept
<1>6. QED
  BY <1>1, <1>3, <1>5, FlatRefuse DEF Flat!Next, Refused

\* No access makes a memory larger than its target, whether or not there is an error.
LEMMA AccessSInv ==
  ASSUME Platform, FInv, NEW a \in Address, NEW n \in 1 .. MaxLength, NEW debug,
         Access(a, n, debug)
  PROVE  SInv'
<1> DEFINE m   == Route(a).port
           mem == Expanded(m, Content(m, debug), Route(a).address + n)
<1>1. EInv /\ SInv /\ starting = <<>>
  BY DEF FInv, Access
<1>2. ASSUME InRange(Route(a), n) PROVE m \in Memories /\ Fits(m, mem)
  BY <1>1, <1>2, RoomForAccess
<1> HIDE DEF mem
<1>3. CASE Read(a, n, debug)
  <2>1. InRange(Route(a), n) /\ store' = [store EXCEPT ![m] = mem]
    BY <1>3 DEF Read, mem
  <2>2. QED
    BY <1>1, <1>2, <2>1 DEF SInv
<1>4. CASE \E data \in [1 .. n -> Values] : Write(a, data, debug)
  <2>1. PICK data \in [1 .. n -> Values] : Write(a, data, debug)
    BY <1>4
  <2>2. Len(data) = n
    BY MemorySystemAssumption
  <2> DEFINE at  == Route(a).address
             new == [i \in DOMAIN mem |-> IF i - at \in 1 .. n THEN data[i - at] ELSE mem[i]]
  <2>3. InRange(Route(a), n) /\ store' = [store EXCEPT ![m] = new]
    BY <2>1, <2>2 DEF Write, mem
  <2>4. mem \in Seq(Values) /\ m \in Memories /\ Len(mem) \in 1 .. TargetSize[m]
    BY <1>2, <2>3 DEF Fits
  <2>5. \A i \in DOMAIN mem : (IF i - at \in 1 .. n THEN data[i - at] ELSE mem[i]) \in Values
    BY <2>4
  <2>6. new \in Seq(Values) /\ Len(new) = Len(mem)
    BY <2>4, <2>5
  <2>7. Fits(m, new)
    BY <2>4, <2>6 DEF Fits
  <2> HIDE DEF new
  <2>8. QED
    BY <1>1, <2>3, <2>4, <2>7 DEF SInv
<1>5. CASE \E op \in {"read", "write"} : Refuse(op, a, n, debug)
  BY <1>5, RefuseStep
<1>6. QED
  BY <1>3, <1>4, <1>5 DEF Access

LEMMA InitFInv ==
  ASSUME Platform, Init PROVE FInv /\ Flat!Init
<1>1. EInv /\ SInv /\ root \in Roots
  BY InitEInv, InitSInv DEF Init
<1>2. Flat!Init
  BY DEF Init, Flat!Init, Refused
<1>3. QED
  BY <1>1, <1>2 DEF FInv

LEMMA StepFInv ==
  ASSUME Platform, FInv, [Next]_vars PROVE FInv'
<1>1. CASE StartOfSimulation
  BY <1>1, StartStep
<1>2. CASE \E a \in Address, n \in 1 .. MaxLength, debug \in BOOLEAN : Access(a, n, debug)
  <2>1. PICK a \in Address, n \in 1 .. MaxLength, debug \in BOOLEAN : Access(a, n, debug)
    BY <1>2
  <2>2. SInv'
    BY <2>1, AccessSInv
  <2>3. UNCHANGED platform
    BY <2>1 DEF Access, Read, Write, Refuse
  <2>4. EInv' /\ root' = root
    BY <2>3, KeepEInv DEF FInv, platform
  <2>5. QED
    BY <2>2, <2>4 DEF FInv
<1>3. CASE UNCHANGED vars
  <2>1. UNCHANGED platform /\ store' = store
    BY <1>3 DEF vars
  <2>2. EInv' /\ root' = root
    BY <2>1, KeepEInv DEF FInv, platform
  <2>3. QED
    BY <2>1, <2>2 DEF FInv, SInv
<1>4. QED
  BY <1>1, <1>2, <1>3 DEF Next

\* A step before which no error has been reported is one of the flat memory.
LEMMA FlatStep ==
  ASSUME WideEnough, FInv, ~reported, [Next]_vars PROVE [Flat!Next]_Flat!vars
<1>1. Platform
  BY DEF WideEnough
<1>2. CASE StartOfSimulation
  BY <1>1, <1>2, StartStep
<1>3. CASE \E a \in Address, n \in 1 .. MaxLength, debug \in BOOLEAN : Access(a, n, debug)
  <2>1. PICK a \in Address, n \in 1 .. MaxLength, debug \in BOOLEAN : Access(a, n, debug)
    BY <1>3
  <2>2. Sound
    BY <2>1 DEF Access, Sound
  <2>3. QED
    BY <1>1, <2>1, <2>2, ReadStep, WriteStep, RefuseStep DEF Access
<1>4. CASE UNCHANGED vars
  <2>1. file' = file /\ root' = root /\ store' = store /\ answer' = answer /\ file \in Files
    BY <1>4 DEF vars, platform, FInv, EInv
  <2>2. Cells' = Cells /\ Locked' = Locked
    BY <1>1, <2>1, CellsAreKept
  <2>3. QED
    BY <2>1, <2>2, FlatVars
<1>5. QED
  BY <1>2, <1>3, <1>4 DEF Next

\* Until an error is reported the buses and the memories are one flat memory: what
\* software reads at an address is what it last wrote there, growing memories and
\* refused accesses show nowhere.
THEOREM FlatMemoryIsImplemented ==
  ASSUME WideEnough PROVE Spec => ActsAsFlatMemory
<1>1. Platform
  BY DEF WideEnough
<1>2. Init => FInv /\ Flat!Init
  BY <1>1, InitFInv
<1>3. FInv /\ [Next]_vars => FInv' /\ (~reported => [Flat!Next]_Flat!vars)
  BY <1>1, StepFInv, FlatStep
<1>4. QED
  BY <1>2, <1>3, PTL DEF Spec, ActsAsFlatMemory

-----------------------------------------------------------------------------
(* Types *)

MapsOK ==
  /\ \A b \in Buses : addrMap[b] \in SUBSET Entry
  /\ busSize \in [Buses -> Size \cup {NoSize}]
  /\ reported \in BOOLEAN

LEMMA StartMapsOK ==
  ASSUME Platform, EInv, MapsOK, StartOfSimulation PROVE MapsOK'
<1> DEFINE b    == Head(starting)
           size == [n \in Bound[b] |-> IF n \in Memories THEN TargetSize[n] ELSE busSize[n]]
           map  == Build(file.lines[b], Bound[b], size)
<1>1. /\ addrMap' = [addrMap EXCEPT ![b] = map]
      /\ busSize' = [busSize EXCEPT ![b] = BusSize(map)]
      /\ reported' = (reported \/ MapErrors(map) \/ ProbeErrors(map, Bound[b], size))
  BY DEF StartOfSimulation
<1>2. b \in Buses /\ file \in Files /\ addrMap = [c \in Buses |-> addrMap[c]]
  <2>1. starting # <<>>
    BY DEF StartOfSimulation
  <2>2. starting = <<South, North>> \/ starting = <<North>>
    BY <2>1 DEF EInv, StartedOK
  <2>3. QED
    BY <2>2 DEF EInv, Buses
<1>3. size \in [Bound[b] -> Size \cup {NoSize}]
  <2>1. \A n \in Bound[b] : n \in Memories \/ n = South
    BY <1>2 DEF Platform, Buses
  <2>2. \A n \in Memories : TargetSize[n] \in Size
    BY MemorySystemAssumption
  <2>3. busSize[South] \in Size \cup {NoSize}
    BY DEF MapsOK, Buses
  <2>4. QED
    BY <2>1, <2>2, <2>3
<1> HIDE DEF size, b
<1>4. map \in SUBSET Entry
  BY <1>2, <1>3, BuiltIsMap
<1>5. BusSize(map) \in Size
  BY <1>4, BusSizeType
<1>6. reported' \in BOOLEAN
  BY <1>1 DEF MapsOK
<1> HIDE DEF map
<1>7. QED
  BY <1>1, <1>2, <1>4, <1>5, <1>6 DEF MapsOK

\* Every variable keeps its type, and no memory outgrows its target, whatever the
\* memory map files and the sizes.
THEOREM TypesAlways ==
  ASSUME Platform PROVE Spec => []TypeOK
<1>1. Init => FInv /\ MapsOK
  <2>1. Init => MapsOK
    BY DEF Init, MapsOK
  <2>2. QED
    BY <2>1, InitFInv
<1>2. FInv /\ MapsOK /\ [Next]_vars => FInv' /\ MapsOK'
  <2> SUFFICES ASSUME FInv, MapsOK, [Next]_vars PROVE MapsOK'
    BY StepFInv
  <2>1. StartOfSimulation \/ UNCHANGED platform
    BY DEF Next, Access, Read, Write, Refuse, vars
  <2>2. QED
    BY <2>1, StartMapsOK DEF FInv, MapsOK, platform
<1>3. FInv /\ MapsOK => TypeOK
  <2> SUFFICES ASSUME FInv, MapsOK PROVE TypeOK
    OBVIOUS
  <2>1. \A m \in Memories : store[m] \in Seq(Values) /\ Len(store[m]) \in 1 .. TargetSize[m]
    BY DEF FInv, SInv, Fits
  <2>2. \A m \in Memories : \A i \in DOMAIN store[m] : store[m][i] \in Values
    BY <2>1
  <2>3. QED
    BY <2>1, <2>2 DEF FInv, EInv, MapsOK, TypeOK
<1>4. QED
  BY <1>1, <1>2, <1>3, PTL DEF Spec
=============================================================================
