SPECIFICATION Spec
CONSTANTS
  Backlog = 2
  MaxFaults = 1
PROPERTIES InsufficientPowerShutsDown
CHECK_DEADLOCK FALSE
