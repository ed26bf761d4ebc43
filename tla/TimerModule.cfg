\* Every register access at every moment.
SPECIFICATION Spec
CONSTANTS
  TimeMod = 8
  Quantity = 1
  MaxTime = 3
  WordMod = 2
  PulseDelay = 1
  Words <- MCWords
  Counts = {1}
  Delays = {1}
INVARIANTS TypeOK NoTimerForgotten
PROPERTIES RunningKeepsSchedule
CHECK_DEADLOCK FALSE
