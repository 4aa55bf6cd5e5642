SPECIFICATION ObserverSpec
CONSTANTS
  cpu = cpu
  disk = disk
  oom = oom
  trend = trend
  Severities <- SeveritiesHere
  Position <- PositionHere
  FP = {cpu, trend}
  Intelligence = {trend}
  BreachCycles = 2
  ClearCycles = 2
  Cooldown = 3
  Escalation = 3
  MaxPerDispatch = 1
  RecoveryNotifications = TRUE
  MaxCopies = 1
  Gaps = {1, 2}
INVARIANTS
  ObserverTypeOK
  NoStaleActive
  RouterInvariant
PROPERTIES
  DebouncedStart
  SustainedRecovery
  FlapSuppressed
  CooldownWhileActive
  RepeatsSpaced
