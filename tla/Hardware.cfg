SPECIFICATION Spec
CONSTANTS
  Charger <- MCCharger
  Wired <- MCWired
  Light = {l1}
  TickRange = 16
  MaxFaults = 2
INVARIANTS ReadingsTrue InputsUndriven
PROPERTIES OnlyNamedPins SuccessMeansDone MuxNeverSwitchesLive FlashingMovedTwice
CHECK_DEADLOCK FALSE
