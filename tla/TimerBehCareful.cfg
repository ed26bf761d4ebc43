\* A client that takes the precautions: the timer implements the countdown.
SPECIFICATION FairSpec
CONSTANTS
  TimeMod = 32
  MaxTime = 6
  Loads = {1, 3}
  Pulses = {1}
  PulseReset = 1
  Delays = {0, 1}
  Horizon = 11
  Careless = {}
INVARIANTS NoAbort
PROPERTIES ImplementsCountdown Expires
CHECK_DEADLOCK FALSE
