\* A receiver asleep when a delayed interrupt becomes due.
SPECIFICATION Spec
CONSTANTS
  MaxTime = 4
  MaxSent = 3
  MaxCleared = 0
  Delays = {1, 2}
INVARIANTS NoSleepOnPending
CHECK_DEADLOCK FALSE
