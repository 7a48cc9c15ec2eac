SPECIFICATION MCSpec
CONSTANTS
  \* AuthGuard
  Requests = {r1, r2}
  IPs = {i1, i2}
  Accounts = {a1}
  None = None
  IPLimit = 2
  AccountLimit = 2
  ComboLimit = 1
  IPWindow = 1
  AccountWindow = 2
  ComboWindow = 1
  Cooldown = 1
  MaxKeys = 4
  Slots = 1
  \* ProbeRun
  LastFile = 3
  PrimaryFiles = {1, 3}
  LibraryOf <- MCLibraryOf
  Probers = {"p1", "p2"}
  MaxStreak = 2
  ProbeLinks = {"a", "b"}
  Relinked = {1}
  a1 = a1
  i1 = i1
  i2 = i2
  r1 = r1
  r2 = r2
INVARIANTS
  ProbeTypeOK
  BudgetHolds
  ProbesAreKept
PROPERTIES
  GivingUpEnds
CHECK_DEADLOCK FALSE
