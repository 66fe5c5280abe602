SPECIFICATION Spec
CONSTANTS
  q1 = q1
  q2 = q2
  d1 = d1
  v1 = v1
  Queued <- MCQueued
  Direct <- MCDirect
  Workers = {v1}
  Hash <- MCHash
  QueueSize = 1
  RetryAttempts = 1
INVARIANT NotItsOwnDuplicate
CHECK_DEADLOCK FALSE
