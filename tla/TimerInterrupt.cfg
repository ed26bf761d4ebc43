\* Two enabled timers: the interrupt of a trigger is not always raised.
SPECIFICATION ApiSpec
CONSTANTS
  TimeMod = 64
  Quantity = 2
  MaxTime = 22
  WordMod = 16
  PulseDelay = 0
  Words = {}
  Counts = {1, 2}
  Delays = {}
  AddrClocks = 1
  ReadClocks = 1
  WriteClocks = 1
INVARIANTS EnabledTriggerInterrupts
CHECK_DEADLOCK FALSE
