SPECIFICATION MonitorSpec
CONSTANTS
  FP <- CpuAlertsHere
  Intelligence = {}
  Severities <- SeveritiesHere
  Position <- PositionHere
  BreachCycles = 2
  ClearCycles = 2
  Cooldown = 2
  Escalation = 3
  MaxPerDispatch = 6
  RecoveryNotifications = TRUE
  MaxCopies = 1
  Gaps = {1}
  WarnAt <- WarnAtOne
  CriticalAt <- CriticalAtTwo
  MinOps = 1
  MinPps = 1
  HealthChecks <- NoHealthChecks
  None = "machine"
  Collections <- CpuCollectionsWithFailures
PROPERTIES
  SettledReadingTold
  SustainedBreachNotified
  EndedBreachClosed
