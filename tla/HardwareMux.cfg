SPECIFICATION Spec
CONSTANTS
  Charger <- MCCharger
  Wired <- MCWired
  Light = {}
  TickRange = 16
  MaxFaults = 0
INVARIANTS TemperatureIsOwn
CHECK_DEADLOCK FALSE
