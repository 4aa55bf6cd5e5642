SPECIFICATION Spec
CONSTANTS
  ApiEnabled = TRUE
  Signals = {"SIGHUP"}
  MaxSignals = 1
PROPERTIES
  ReloadTakesEffect
CHECK_DEADLOCK FALSE
