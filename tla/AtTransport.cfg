\* Two initiators that access targets in AT style.
SPECIFICATION Spec
CONSTANTS
  Initiators = {i1, i2}
  None = None
  Region <- MCRegion
  Addresses <- MCAddresses
PROPERTIES TransportReturns
CHECK_DEADLOCK FALSE
