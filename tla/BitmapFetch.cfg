SPECIFICATION FairSpec
CONSTANTS
  Calls = {c1, c2, c3}
  Clients = {app1}
  Keys = {k1}
  Workers = 2
PROPERTIES
  StoredIsDelivered
  EveryCallAnswered
CHECK_DEADLOCK FALSE
