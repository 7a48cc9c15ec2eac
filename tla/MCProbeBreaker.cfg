SPECIFICATION MCProbeSpec
CONSTANTS
  LastFile = 3
  PrimaryFiles = {1, 3}
  LibraryOf <- MCLibraryOf
  Probers = {"p1", "p2"}
  MaxStreak = 2
  ProbeLinks = {"a", "b"}
  Relinked = {}
INVARIANTS BrokenOffIsAborted
CHECK_DEADLOCK FALSE
