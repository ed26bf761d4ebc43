\* A clock whose settings change twice while a process waits on its edges.
SPECIFICATION Spec
CONSTANTS
  Periods = {3, 4}
  Duties = {50}
  Offsets = {0, 2}
  Shifts = {0, 5}
  MaxTime = 9
  MaxChanges = 2
  MaxCycles = 1
INVARIANTS TypeOK WakesOnEdge ReadIsLevel NoCycleLost
PROPERTIES CyclesNeverRunBack
CHECK_DEADLOCK FALSE
