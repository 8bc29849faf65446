----------------------------- MODULE MCHardware -----------------------------
EXTENDS Hardware

MCCharger == <<"RIO_CHARGER_OFF", "O1_CHARGER_OFF">>
MCWired ==
  {"RIO_PWR_BATT_OFF", "O_PWR_TOGGLE", "RIO_CHARGER_OFF", "O1_CHARGER_OFF",
   "RELAY_ENABLE_BAR", "RELAY_12V_DETECT", "MUX_A0", "MUX_A1", "MUX_ENABLE_BAR"}
=============================================================================
