SPECIFICATION FairSpec
CONSTANTS
  rio = rio
  o1 = o1
  Order <- TwoBatteries
  Rio = rio
  Capacity = {0, 2200}
  Temperature = {0, 70}
  MaxQ = 3
INVARIANTS QueueHasTimer RelayFollowsUnlessCrossed
PROPERTIES QueuePaced QuietQueueDrains
CHECK_DEADLOCK FALSE
