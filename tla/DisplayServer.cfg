SPECIFICATION DisplaySpec
CONSTANTS
  Producers = {tailer, mcp}
  Mcp = mcp
  Confirmer = TRUE
  Bodies <- DisplayBodies
  SeedBody <- TextBody
  SeedCount = 0
  SupervisorMayRestart = TRUE
  MaxClock = 2
  MaxAppends = 4
  MaxPerStamp = 2
  k1 = k1
  k2 = k2
  Keys = {k1, k2}
  NoKey = NoKey
  CacheSize = 1
  StableCount = 3
  ConservativeCount = 3
  UpperCount = 4
  AppMayRestart = TRUE
  NetworkMayFail = TRUE
SYMMETRY Interchangeable
INVARIANTS
  DisplayIsNewest
  BitmapComesFirst
  ScreenshotIsTrue
PROPERTIES
  ConfirmedWasShown
  AnswersBringNews
CHECK_DEADLOCK FALSE
