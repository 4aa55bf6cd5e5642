SPECIFICATION SteadySpec
CONSTANTS
  cpu = cpu
  disk = disk
  oom = oom
  trend = trend
  Severities <- SeveritiesHere
  Position <- PositionHere
  FP = {cpu, trend}
  Intelligence = {trend}
  BreachCycles = 2
  ClearCycles = 2
  Cooldown = 2
  Escalation = 3
  MaxPerDispatch = 6
  RecoveryNotifications = TRUE
  MaxCopies = 1
  Gaps = {1, 2}
PROPERTIES
  SustainedRecoveryOfAll
