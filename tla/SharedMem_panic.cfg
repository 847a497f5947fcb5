CONSTANTS
  Points = 16
  Inc = 1
  PoolSize = 4
  NodePool = 16
  CacheSize = 2
  FlushAt = 3
  RingSize = 1
  ClientCore = c1
  ServerCore = c2
  ReceiveCore = c3
SPECIFICATION Spec
INVARIANT NoPanic
CHECK_DEADLOCK FALSE
