------------------------- MODULE MCBatteryManager -------------------------
EXTENDS BatteryManager

CONSTANTS rio, o1

TwoBatteries == <<rio, o1>>
BothSigns == {-30, 0, 70}
=============================================================================
