SPECIFICATION Spec
CONSTANTS
  Calls = {c1, c2, c3}
  Names = {a, b}
  NoCall = none
  MaxSlots = 2
  Workers = 3
  Rpcs = {"CreateInstance", "DestroyInstance"}
  Mortal = {}
  ClientsWait = FALSE
  ServiceMayRestart = FALSE
SYMMETRY Interchangeable
INVARIANTS
  InstancesCoexist
CHECK_DEADLOCK FALSE
