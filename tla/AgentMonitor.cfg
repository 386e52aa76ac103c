SPECIFICATION FairSpec
CONSTANTS
  MaxSize = 5
  MaxGenerations = 2
  MaxPanes = 1
  Inputs = {i1, i2}
  InjectorWired = TRUE
  Timeout = 2
  MaxNow = 3
  MaxRegistrations = 2
  MaxLoops = 2
  Deployments = {{"tailer"}, {"injector"}, {"watchdog"}}
INVARIANTS
  EachLineOnce
  AnswerFollowsInput
  TimeoutsAreSpaced
PROPERTIES
  LinesReachStore
  InputIsSettled
  SilenceIsReported
CHECK_DEADLOCK FALSE
