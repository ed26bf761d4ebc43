\* Two buses and three memories, or one memory alone, and six memory map files.
SPECIFICATION Spec
CONSTANTS
  AddrMod = 20
  SizeMod = 16
  Nodes <- McNodes
  BadPort = "none"
  North = "nth"
  South = "sth"
  Memories <- McMemories
  ReadOnly = {"rom"}
  Bound <- McBound
  TargetSize <- McTargetSize
  StartOrder <- McStartOrder
  Files <- McFiles
  Roots = {"nth", "ram"}
  KB = 2
  Zero = 0
  Fill = 234
  Values = {0, 234}
  MaxLength = 2
INVARIANTS TypeOK RoutesHome SoftwareFindsTargets
PROPERTIES ActsAsFlatMemory
CHECK_DEADLOCK FALSE
