SPECIFICATION CycleSpec
CONSTANTS
  Lines = 3
  Ooms = {2, 3}
  RingSize = 2
  SeenLimit = 3
  OomLimit = 2
  OomKept = 1
  ClockSteps = 1
  MaxKills = 3
  MaxAge = 3
  CheckLists <- CheckListsHere
  MaxFailures = 3
  Longest = 2
  TokenTtl = 3
  TokenReuse = 2
  SpotCheck = TRUE
  Configs <- ConfigsHere
  Subjects = {"cpu", "memory", "disk", "network", "ec2", "system_events", "app_health"}
INVARIANTS
  CycleTypeOK
  EventsHeardOnce
  NoEventMissed
  KillsCountedOnce
  HealthShownIsOwn
  SpotNoticeShown
  SeriesOfOneConfig
PROPERTIES
  RatesSpanOneInterval
