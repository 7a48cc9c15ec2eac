SPECIFICATION Spec
CONSTANTS
  Paths = {"a1", "a2", "b"}
  GroupOf <- MCGroupOf
  Firsts = {"a1"}
  Urls = {u1}
  Metas = {m1}
  MaxEvents = 3
  None = None
  u1 = u1
  m1 = m1
INVARIANTS
  BaselineHonest
PROPERTIES
  CleanPassIsCurrent
  RemovalsAreSeen
  ManualSurvives
