SPECIFICATION Spec
CONSTANTS
  WarnAt <- WarnAtOne
  CriticalAt <- CriticalAtTwo
  MinOps = 1
  MinPps = 1
  HealthChecks <- OneHealthCheck
  None = "machine"
INVARIANTS
  OneAlertPerSubject
PROPERTIES
  WorseIsNotBetter
