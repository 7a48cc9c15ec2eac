SPECIFICATION TasksSpec
CONSTANTS
  Jobs = {j1, j2}
  IdemKeys = {k1}
  Digests = {d1}
  NoTask = NoTask
  MaxID = 3
  ListCap = 1
  Capacity = 2
  Retention = 2
  TTL = 0
  MaxLost = 1
  j1 = j1
  j2 = j2
  k1 = k1
  d1 = d1
INVARIANT UnfinishedIsInFlight
