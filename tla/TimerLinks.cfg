\* Four entries: a new timer can pass three others in the sort, and ties occur.
CONSTANTS
  e1 = e1
  e2 = e2
  e3 = e3
  e4 = e4
  PNULL = PNULL
  Entry <- MCEntry
  Period <- MCPeriod
  MaxPeriod = 3
  MaxTick = 3
SPECIFICATION Spec
SYMMETRY Symmetry
INVARIANTS LinksSound
PROPERTIES ImplementsLists 
CHECK_DEADLOCK FALSE
