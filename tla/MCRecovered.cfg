CONSTANTS
  NormalRate = 50
  MinRate = 10
  Required = 3
  Unhealthy = 3
  SafeTtl = 6
  ThrottleTtl = 3
  MaxFaults = 2
  NoderedFuse = TRUE
SPECIFICATION Spec
INVARIANT RecoveredDispatches
CHECK_DEADLOCK FALSE
