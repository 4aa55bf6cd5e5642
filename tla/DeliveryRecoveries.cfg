SPECIFICATION DeliverySpec
CONSTANTS
  slack = slack
  telegram = telegram
  email = email
  cpu = cpu
  disk = disk
  Kind <- KindHere
  Channels = {slack, telegram, email}
  MinSeverity <- SeveritiesHere
  Batches <- RecoveryBatches
  AIEnabled = FALSE
  AIMinSeverity = 1
  Ttl = 0
  CacheLimit = 1
  Workers = 4
  Attempts = 3
INVARIANTS
  RecoveriesHeard
