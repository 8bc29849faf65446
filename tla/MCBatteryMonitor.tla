-------------------------- MODULE MCBatteryMonitor --------------------------
EXTENDS BatteryMonitor
=============================================================================
