SPECIFICATION DeliverySpec
CONSTANTS
  slack = slack
  telegram = telegram
  email = email
  cpu = cpu
  disk = disk
  Kind <- KindHere
  Channels = {slack, telegram, email}
  MinSeverity <- TelegramHearsAll
  Batches <- MixedBatches
  AIEnabled = TRUE
  AIMinSeverity = 1
  Ttl = 1
  CacheLimit = 1
  Workers = 1
  Attempts = 2
INVARIANTS
  DeliveryTypeOK
  HealthyChannelInformed
  NothingOvertakes
  TransientFaultsRiddenOut
PROPERTIES
  OneCallPerTtl
  DispatchEnds
