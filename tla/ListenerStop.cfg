SPECIFICATION Spec
CONSTANTS
  p1 = p1
  p2 = p2
  p3 = p3
  p4 = p4
  h1 = h1
  h2 = h2
  Packets <- MCPackets
  Malformed <- MCMalformed
  Invalid <- MCInvalid
  Workers <- MCWorkers
  QueueSize = 1
  MaxStarts = 1
INVARIANT GracefulStop
CHECK_DEADLOCK FALSE
