SPECIFICATION FairSpec
CONSTANTS
  Tasks = {t1}
  Configs = {c1, c2}
  Valid = {c1}
  Admins = {a1, a2}
  Runners = {r1, r2}
  None = None
  t1 = t1
  c1 = c1
  c2 = c2
  a1 = a1
  a2 = a2
  r1 = r1
  r2 = r2
INVARIANTS
  NoReentry
PROPERTIES
  ConditionalEdit
  RunsEnd
