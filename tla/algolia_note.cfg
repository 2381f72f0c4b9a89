SPECIFICATION CorpusSpec
CONSTANTS
  x = x
  y = y
  Actors = {p1, p2}
  Bodies = {x, y}
  Drafts <- LastDiffers
  NoBody = none
  MaxVersions = 4
  MinVersions = 2
  p = p
  q = q
  t = t
  u = u
  w = w
  Processes = {p, q}
  Tasks = {t, u, w}
  Host <- TasksOfTwo
  MaxPublished = 2
  DiskFails = TRUE
SYMMETRY NoteSymmetry
INVARIANTS
  TextNeverLost
  TornOnlyInCutover
  OvertakenIsArchived
  RetentionFloor
PROPERTIES
  CacheServesItsHead
