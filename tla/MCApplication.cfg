SPECIFICATION Spec
CONSTANTS
  t1 = t1
  t2 = t2
  t3 = t3
  w1 = w1
  w2 = w2
  Traps <- MCTraps
  Workers <- MCWorkers
  QueueSize = 2
  MaxTicks = 1
INVARIANTS
  EveryTrapAccounted
  LivesRespected
PROPERTY
  ShutdownEnds
CHECK_DEADLOCK FALSE
