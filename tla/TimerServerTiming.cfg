\* One tick handler at a time: what the service promises about time.
CONSTANTS
  Entry = {e1, e2}
  Ticker = {t1}
  Port = {p1}
  Id = {i1, i2}
  Period = {1, 2}
  Serial = {s1, s2}
  Backlog = 1
  MaxTick = 2
  Horizon = 4
  PNULL = PNULL
SPECIFICATION FairSpec
PROPERTIES EndsOnTime QuietTimersEnd
CHECK_DEADLOCK FALSE
