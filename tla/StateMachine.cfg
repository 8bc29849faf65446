SPECIFICATION FairSpec
CONSTANTS
  Backlog = 3
  MaxFaults = 2
INVARIANTS TypeOK  ChargingIffDocked  PowerMatchesState
PROPERTIES TasksReachHindbrain ShutdownHeeded
CHECK_DEADLOCK FALSE
