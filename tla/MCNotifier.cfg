SPECIFICATION Spec
CONSTANTS
  e1 = e1
  e2 = e2
  w1 = w1
  w2 = w2
  Events <- MCEvents
  Workers <- MCWorkers
  NumWebhooks = 3
  Enabled <- MCEnabled
  Filters <- MCFilters
  FilterRules <- MCFilterRules
  Field <- MCField
  Complete <- MCComplete
  RetryCount <- MCRetryCount
  QueueSize = 1
INVARIANTS
  TasksAccounted
  OnePlace
  ClosedIsQuiet
PROPERTIES
  EveryTaskEnds
  StopReturns
  KeepsPromise
CHECK_DEADLOCK FALSE
