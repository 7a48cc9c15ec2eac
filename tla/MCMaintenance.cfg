SPECIFICATION MCSpec
CONSTANTS
  \* Maintenance
  j1 = j1
  j2 = j2
  Jobs = {j1, j2}
  Kinds = {"scan", "probe", "probe_item", "scrape", "scrape_one", "scrape_avatars", "translate", "artwork", "sprites", "edit", "subtitle_marks"}
  \* PathLock
  Callers = {c1, c2}
  Paths = {p1}
  Entries = {e1, e2}
  Texts = {t1, t2}
  NoPath = NoPath
  c1 = c1
  c2 = c2
  p1 = p1
  e1 = e1
  e2 = e2
  t1 = t1
  t2 = t2
INVARIANTS
  WritersApart
  DatabaseOutlivesTasks
PROPERTIES
  UnindexedIsReported
  LaneImplemented
  TasksAndShutdownEnd
  UpdatesKept
  TranslationOfSource
  CallersReturn
