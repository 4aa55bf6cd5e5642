SPECIFICATION SteadySpec
CONSTANTS
  cpu = cpu
  disk = disk
  oom = oom
  trend = trend
  Severities <- SeveritiesHere
  Position <- PositionHere
  FP = {cpu, disk}
  Intelligence = {}
  BreachCycles = 2
  ClearCycles = 2
  Cooldown = 2
  Escalation = 3
  MaxPerDispatch = 1
  RecoveryNotifications = TRUE
  MaxCopies = 1
  Gaps = {1}
PROPERTIES
  SustainedBreachNotified
