\* Immediate and delayed senders, and clearall at any time.
SPECIFICATION FairSpec
CONSTANTS
  MaxTime = 4
  MaxSent = 4
  MaxCleared = 1
  Delays = {0, 1, 2}
INVARIANTS TypeOK NothingLost NoSleepOnUrgent WokenForSomething
PROPERTIES TakenInOrder ImplementsDelivery UrgentTaken
CHECK_DEADLOCK FALSE
