\* Every precaution but one: a timer restarted in the instant it expires.
SPECIFICATION Spec
CONSTANTS
  TimeMod = 16
  MaxTime = 5
  Loads = {1, 3}
  Pulses = {1}
  PulseReset = 1
  Delays = {0}
  Horizon = 15
  Careless = {"expiry"}
INVARIANTS WakesOnTime
CHECK_DEADLOCK FALSE
