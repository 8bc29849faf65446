\* Two tick threads that may overlap; two entries for three requests, so the
\* table fills up, is emptied and fills again.
CONSTANTS
  Entry = {e1, e2}
  Ticker = {t1, t2}
  Port = {p1}
  Id = {i1}
  Period = {1, 2}
  Serial = {s1, s2, s3}
  Backlog = 1
  MaxTick = 1
  Horizon = 3
  PNULL = PNULL
SPECIFICATION Spec
SYMMETRY Symmetry
INVARIANTS TypeOK MemoryKept UsedSorted Accounted
PROPERTIES ExpiryOnlyWhenArmed ImplementsLists
CHECK_DEADLOCK FALSE
