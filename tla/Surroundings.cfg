SPECIFICATION SurroundingsSpec
CONSTANTS
  SnapshotTicks = 1
  AlertTicks = 2
  BaselineTicks = 2
  MaxFaults = 1
  WindowSize = 3
  MinSamples = 2
  MaintenanceTicks = 2
  Readings = {1, 4}
  MaxClock = 4
  MaxCycles = 4
  MaxKills = 2
  Fingerprints = {"a", "b", "c"}
  Room = 3
  Rounds = 2
  Runs = 3
  Edits = 2
  Slips = 1
INVARIANTS
  SurroundingsTypeOK
  HistoryKept
  WarmStart
  AnswersTrue
  RunsWholeConfig
CHECK_DEADLOCK FALSE
