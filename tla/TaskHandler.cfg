CONSTANTS
  Block = {b1, b2, b3, b4}
  Request <- MCRequest
  MAX_GUARD_COUNTER = 3
  MaxTasks = 4
  MaxStarved = 1
  Root = Root
  PNULL = PNULL
SPECIFICATION FairSpec
CHECK_DEADLOCK FALSE
INVARIANTS NothingLostOrRepeated  ListSound
PROPERTIES TasksAreDone
