SPECIFICATION Spec
CONSTANTS
  Paths = {"b"}
  GroupOf <- MCGroupOf
  Firsts = {}
  Urls = {u1}
  Metas = {m1}
  MaxEvents = 3
  None = None
  u1 = u1
  m1 = m1
PROPERTY
  NoteCleared
