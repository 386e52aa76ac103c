SPECIFICATION FairShutdownSpec
CONSTANTS
  Calls = {c1, c2}
  Names = {a, b}
  NoCall = none
  MaxSlots = 2
  Workers = 1
  Rpcs = {"CreateInstance", "InstallApk", "ScreenshotInstance", "DhuCommand",
          "AdbShell"}
  Mortal = {"socat"}
  ClientsWait = TRUE
  ServiceMayRestart = FALSE
INVARIANTS
  NothingOutlives
PROPERTIES
  EveryCallAnswered
  DeadIsNoticed
CHECK_DEADLOCK FALSE
