SPECIFICATION Spec
CONSTANTS
  a1 = a1 a2 = a2 a3 = a3
  k1 = k1 k2 = k2 k3 = k3
  Lead = Lead
  Agents = {a1, a2, a3}
  MaxSubTabs = 2
  MaxMessages = 4
  Keys = {k1, k2, k3}
  SizeOf <- Sizes
  CacheSize = 2
  CacheBytes = 2
  HistorySize = 3
  MaxRows = 2
  Scenes = {{"talk"}, {"pictures"}}
SYMMETRY AgentsAlike
INVARIANTS
  MessagesKept
  TemplateIsValid
  UpdatesAreShown
  PictureOfHistory
CHECK_DEADLOCK FALSE
