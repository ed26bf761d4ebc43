\* Two timers driven by software that uses Timer_api in order.
SPECIFICATION ApiSpec
CONSTANTS
  TimeMod = 64
  Quantity = 2
  MaxTime = 22
  WordMod = 16
  PulseDelay = 0
  Words = {}
  Counts = {1, 2}
  Delays = {}
  AddrClocks = 1
  ReadClocks = 1
  WriteClocks = 1
INVARIANTS ApiNeverAborts StartedRuns StoppedIsSilent
PROPERTIES ImplementsCountdowns
CHECK_DEADLOCK FALSE
