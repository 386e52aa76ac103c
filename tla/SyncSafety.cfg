SPECIFICATION Spec
CONSTANTS
  Producers = {tailer, bridge}
  Bodies <- CommandOnly
  SeedBody <- Command
  SeedCount = 1
  SupervisorMayRestart = TRUE
  MaxClock = 3
  MaxAppends = 3
  MaxPerStamp = 3
  k1 = k1
  k2 = k2
  Keys = {k1}
  NoKey = NoKey
  CacheSize = 1
  StableCount = 3
  ConservativeCount = 1
  UpperCount = 4
  AppMayRestart = TRUE
  NetworkMayFail = TRUE
INVARIANTS
  OnlyOvertakenAreLost
  BatchFollowsConnection
  AnswerIsSortedPrefix
PROPERTIES
  OnlyCursorIsRepeated
  SettledAnswersStay
CHECK_DEADLOCK FALSE
