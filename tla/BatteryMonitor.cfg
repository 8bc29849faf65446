SPECIFICATION Spec
CONSTANTS
  NumBatteries = 2
  Level = {240}
  Epoch = 10
  MaxTime = 1
  MaxFaults = 1
INVARIANTS MeasuresUnlessTroubled
PROPERTIES LostOnlyIfTroubled SetUpRestores
CHECK_DEADLOCK FALSE
