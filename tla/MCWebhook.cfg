SPECIFICATION Spec
CONSTANTS
  c1 = c1
  c2 = c2
  Callers <- MCCallers
  MaxAttempts = 2
  FailureThreshold = 2
  SuccessThreshold = 1
  HalfOpenMaxCalls = 1
  MaxCalls = 2
INVARIANTS
  CallsAccounted
  OpensAtThreshold
  HotAttemptsBounded
  NilMeansAnswered
PROPERTY
  EveryCallReturns
CHECK_DEADLOCK FALSE
