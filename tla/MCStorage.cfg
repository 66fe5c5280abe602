SPECIFICATION Spec
CONSTANTS
  b1 = b1
  b2 = b2
  i1 = i1
  Batched <- MCBatched
  Immediate <- MCImmediate
  BatchSize = 2
  MaxCrashes = 1
INVARIANTS
  BatchAndRowsSound
  StoredOnce
  CloseLosesNothing
PROPERTIES
  BatchIsWritten
  KeepsEvents
CHECK_DEADLOCK FALSE
