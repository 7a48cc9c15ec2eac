SPECIFICATION MCSpec
CONSTANTS
  \* Accounts
  Clients = {s1, s2}
  Users = {u1, u2}
  First = u1
  Names = {n1, n2}
  Passwords = {p1}
  Tokens = {t1, t2}
  ApiKeys = {k1}
  Nothing = Nothing
  Unused = Unused
  Deleted = Deleted
  MaxGen = 2
  MaxVersion = 2
  \* Playback
  Plays = {n1, n2}
  Titles = {t1, t2}
  Reports = {s1, s2}
  NoSession = NoSession
  EventsRetain = 1
  PruneEvery = 2
  MaxEvents = 5
  \* Views
  IndexWriters = {n1, n2}
  Readers = {s1, s2}
  NoEntry = NoEntry
  MaxWrites = 2
  \* ScanTasks
  Jobs = {s1, s2}
  IdemKeys = {k1}
  Digests = {d1}
  NoTask = NoTask
  MaxID = 3
  ListCap = 1
  Capacity = 2
  Retention = 2
  TTL = 0
  MaxLost = 0
  d1 = d1
  k1 = k1
  n1 = n1
  n2 = n2
  p1 = p1
  s1 = s1
  s2 = s2
  t1 = t1
  t2 = t2
  u1 = u1
  u2 = u2
SYMMETRY Alike
INVARIANTS
  ServicesTypeOK
  AccessIsControlled
  PlaysCounted
  ServedIsCurrent
PROPERTIES
  CredentialsDecide
  TasksAreKept
CHECK_DEADLOCK FALSE
