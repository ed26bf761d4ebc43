\* Each peripheral with bounded accesses.
SPECIFICATION MCSpec
CONSTANTS
  Payloads <- MCPayloads
  Sizes <- MCSizes
  Pins <- MCPins
  PowerUp <- MCPowerUp
  MaxAccesses = 3
  MaxOutside = 1
  MaxIrq = 2
  Priorities = {1, 2}
  Assertions = FALSE
  PicSends = 1
  MaxPicAccesses = 5
  MaxArrivals = 1
  Capacity = 2
  Connected = TRUE
  MaxUartAccesses = 5
  Defaults <- MCDefaults
  RequiredKeys <- MCRequired
  Built <- MCBuilt
  Settings <- MCSettings
  NewKeys <- MCNewKeys
  StubPayloads <- MCStubPayloads
  MaxBuilds = 4
  TxReaders = {r1, r2}
  MaxSent = 3
  Free = Free
  Processes = {p1, p2}
  MaxArrived = 4
INVARIANTS TypeOK FirstPinFollows  NotifiedForSomething FifoConserved RequiredAreKeys InOrder BlocksUntilSent
PROPERTIES NextIsHighest NothingForgotten
\* Accesses are bounded, and the threads of the serial port never return.
CHECK_DEADLOCK FALSE
