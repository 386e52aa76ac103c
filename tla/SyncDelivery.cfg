SPECIFICATION FairSpec
CONSTANTS
  Producers = {bridge}
  Bodies <- TextOnly
  SeedBody <- TextBody
  SeedCount = 1
  SupervisorMayRestart = TRUE
  MaxClock = 4
  MaxAppends = 3
  MaxPerStamp = 1
  k1 = k1
  k2 = k2
  Keys = {k1, k2}
  NoKey = NoKey
  CacheSize = 1
  StableCount = 3
  ConservativeCount = 2
  UpperCount = 4
  AppMayRestart = FALSE
  NetworkMayFail = TRUE
PROPERTIES
  ImplementsFairFeed
CHECK_DEADLOCK FALSE
