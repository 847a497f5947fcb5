CONSTANTS
  Programs = {"oneWayTreeTimed"}
  Receivers = {r1, r2}
  Increment = 1
  Final = 4
  Word = 16
  Entered = {}
  PoolSize = 8
  TreePool = 2
  ArrayPool = 2
  ElementSize = 2
  CacheSize = 2
  FlushAt = 3
  RingSize = 1
  MaxKills = 0
SPECIFICATION FairSpec
PROPERTY QuitsWhenAllSent
CHECK_DEADLOCK FALSE
