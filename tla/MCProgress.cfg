SPECIFICATION MCSpec
CONSTANTS
  \* ScanTasks
  Jobs = {j1, j2}
  IdemKeys = {k1}
  Digests = {d1}
  NoTask = NoTask
  MaxID = 2
  ListCap = 1
  Capacity = 1
  Retention = 2
  TTL = 0
  MaxLost = 1
  \* ScrapeRun
  Candidates = {1, 2, 3, 4, 5}
  Scrapers = {w1, w2}
  BatchSize = 3
  RunLimit = 4
  MaxFailures = 2
  \* Thumbs
  Viewings = {v1, v2}
  ThumbKeys = {x1, x2}
  ThumbSlots = 1
  MaxFlights = 2
  Limits = {0, 5}
  VariantSize = 6
  MaxLosses = 1
  j1 = j1
  j2 = j2
  k1 = k1
  d1 = d1
  w1 = w1
  w2 = w2
  v1 = v1
  v2 = v2
  x1 = x1
  x2 = x2
INVARIANTS
  ProgressTypeOK
  BatchIsHonest
  MadeOnce
PROPERTIES
  WorkEnds
  ImagesAreAnswered
CHECK_DEADLOCK FALSE
