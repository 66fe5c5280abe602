SPECIFICATION MibSpec
CONSTANTS
  f1 = f1
  f2 = f2
  v1 = v1
  bad = bad
  big = big
  Files <- MCFiles
  Sizes = {big}
  Nameless = {bad}
  Versions = {v1}
  Objects <- MCObjects
  Watched <- MCFiles
  Required <- MCFiles
  Oids <- MCOids
  CacheSize = 2
  CacheExpiry = 1
  MaxTime = 2
  MaxLookups = 4
  MaxWrites = 2
INVARIANTS
  CacheSound
PROPERTIES
  AnswersCurrent
  ChangeIsLoaded
CHECK_DEADLOCK FALSE
