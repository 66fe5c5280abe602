SPECIFICATION ReloadSpec
CONSTANTS
  c1 = c1
  c2 = c2
  t1 = t1
  t2 = t2
  Components <- MCComponents
  Triggers <- MCTriggers
  FileWatched = TRUE
  HasManager = TRUE
  KeepEvents = 1
  MaxVersion = 3
INVARIANTS
  ReloadsAccounted
  NoTornConfiguration
PROPERTY
  ReloadEnds
CHECK_DEADLOCK FALSE
