\* Every call at every moment: what holds of the timer however it is used.
SPECIFICATION Spec
CONSTANTS
  TimeMod = 16
  MaxTime = 5
  Loads = {0, 2, 3}
  Pulses = {1}
  PulseReset = 1
  Delays = {0, 1}
  Horizon = 15
  Careless = {"start", "pause", "resume", "expiry"}
INVARIANTS TypeOK PausedIsSilent RunningHasWakeup NeverLate
CHECK_DEADLOCK FALSE
