SPECIFICATION NotedSpec
CONSTANTS
  ApiEnabled = TRUE
  Signals = {"SIGTERM", "SIGHUP"}
  MaxSignals = 3
INVARIANTS
  TypeOK
  LockOwned
PROPERTIES
  TimelyStopEnds
  TimelyReloadTakesEffect
  TimelyCollectionGoesOn
CHECK_DEADLOCK FALSE
