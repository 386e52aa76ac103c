SPECIFICATION Spec
CONSTANTS
  Calls = {c1, c2, c3}
  Names = {a, b, c}
  NoCall = none
  MaxSlots = 2
  Workers = 3
  Rpcs = {"CreateInstance", "DestroyInstance", "InstallApk",
          "ScreenshotInstance", "DhuCommand", "AdbShell"}
  Mortal = {"emulator"}
  ClientsWait = TRUE
  ServiceMayRestart = TRUE
SYMMETRY Interchangeable
INVARIANTS
  ViewsAgree
  InstancesCoexist
PROPERTIES
  OnlyOwnKilled
  ImplementsPool
CHECK_DEADLOCK FALSE
