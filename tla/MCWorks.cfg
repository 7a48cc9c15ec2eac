SPECIFICATION MCSpec
CONSTANTS
  \* Sprites
  Makers = {s1, s2}
  Viewers = {v1}
  Sources = {c1, c2}
  Keep = 1
  Nobody = Nobody
  NoPreview = NoPreview
  NoDir = NoDir
  MaxMade = 5
  MaxTouched = 1
  \* Upgrade
  UpgradeAdmins = {s1, s2}
  LastVersion = 3
  Triples = {2, 3}
  NoRelease = NoRelease
  \* Backup
  Writers = {s1, s2}
  Retain = 1
  NoLock = NoLock
  Unwritten = Unwritten
  MaxSecond = 3
  \* Edits
  Clerks = {s1, s2}
  NoClerk = NoClerk
  MaxStamp = 3
  \* Marks
  Taggers = {s1, s2}
  Tags = {c1, c2}
  NoTagger = NoTagger
  MaxRetags = 2
  \* DiskLogs
  Chunk = 3
  ScanBytes = 4
  MaxPayload = 2
  PageLimit = 2
  LineLengths = {2, 3}
  MaxDay = 2
  MaxBytes = 5
  \* Posters
  Painters = {x1}
  MaxPrints = 5
  \* Webhooks
  Editors = {s1, s2}
  Notices = {x1}
  TargetIds = {x1, x2}
  LegacyId = x1
  Urls = {c1}
  NoUrl = NoUrl
  Missing = Missing
  NoEditor = NoEditor
  MaxSaves = 2
  c1 = c1
  c2 = c2
  s1 = s1
  s2 = s2
  v1 = v1
  x1 = x1
  x2 = x2
SYMMETRY Alike
INVARIANTS
  WorksTypeOK
  SpritesAreKept
  InstalledIsSound
  EditsAreAccounted
  EventsGoWhereAgreed
PROPERTIES
  ReadsAreStable
  MarksAreKept
  LastBackupSurvives
  PollIsExact
  NothingIsLost
CHECK_DEADLOCK FALSE
