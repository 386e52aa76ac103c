SPECIFICATION FairSpec
CONSTANTS
  Producers = {bridge}
  Bodies <- TextOnly
  SeedBody <- TextBody
  SeedCount = 1
  SupervisorMayRestart = FALSE
  MaxClock = 3
  MaxAppends = 3
  MaxPerStamp = 3
  k1 = k1
  k2 = k2
  Keys = {k1, k2}
  NoKey = NoKey
  CacheSize = 1
  StableCount = 2
  ConservativeCount = 2
  UpperCount = 4
  AppMayRestart = FALSE
  NetworkMayFail = FALSE
PROPERTIES
  EventuallyReceived
CHECK_DEADLOCK FALSE
