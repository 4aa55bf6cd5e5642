SPECIFICATION SteadySpec
CONSTANTS
  cpu = cpu
  disk = disk
  oom = oom
  trend = trend
  Severities <- SeveritiesHere
  Position <- PositionHere
  FP = {cpu, oom, trend}
  Intelligence = {trend}
  BreachCycles = 2
  ClearCycles = 2
  Cooldown = 1
  Escalation = 1
  MaxPerDispatch = 6
  RecoveryNotifications = TRUE
  MaxCopies = 1
  Gaps = {1}
INVARIANTS
  ReceiversKnow
PROPERTIES
  EmergencyAtOnce
  ImplementsLifecycle
