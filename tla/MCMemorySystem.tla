---- MODULE MCMemorySystem ----
EXTENDS MemorySystem
(* A small north and south bus, memory map files of every kind the checks of *)
(* the bus tell apart, and a processor bound to North or straight to ram.    *)
McNodes    == {"nth", "sth", "rom", "ram", "dev", "spi"}
McMemories == {"rom", "ram", "dev"}
McBound == [b \in {"nth", "sth"} |->
              IF b = "nth" THEN {"rom", "ram", "sth"} ELSE {"dev"}]
McTargetSize == [m \in McMemories |-> IF m = "rom" THEN 2 ELSE 3]
McStartOrder == <<"sth", "nth">>

At(n, base, size) == [name |-> n, base |-> base, size |-> size]
Map(north, sthAddr, south) ==
  [lines |-> [b \in {"nth", "sth"} |-> IF b = "nth" THEN north ELSE south],
   addr  |-> [b \in {"nth", "sth"} |-> IF b = "nth" THEN 0 ELSE sthAddr]]

McFiles == {
  \* Sizes in the file that the probes replace, and a target nobody built.
  Map({At("rom", 0, 1), At("ram", 3, 0), At("sth", 8, 0)}, 8,
      {At("dev", 0, 1), At("spi", 5, 2)}),
  \* South below North's memories; the last one ends where addresses end.
  Map({At("sth", 0, 0), At("rom", 8, 4), At("ram", 15, 4)}, 0,
      {At("spi", 0, 2), At("dev", 4, 3)}),
  \* The smallest South: its one target starts at its address zero.
  Map({At("ram", 0, 0), At("sth", 4, 2), At("rom", 6, 1)}, 4,
      {At("dev", 0, 3)}),
  \* Overlapping entries, also of a target that nobody built.
  Map({At("rom", 0, 1), At("ram", 1, 0), At("sth", 8, 0)}, 8,
      {At("dev", 0, 0), At("spi", 2, 2)}),
  \* Entries at the reserved addresses and past the last one.
  Map({At("rom", 19, 0), At("ram", 16, 0), At("sth", 8, 0)}, 8,
      {At("dev", 0, 0)}),
  \* A bound memory that the file does not list.
  Map({At("rom", 0, 0), At("sth", 8, 0)}, 8, {At("dev", 0, 0)})}
====
