CONSTANTS
  Programs = {"oneWayTreeTimed", "oneWayArrayTimed", "oneWayTree", "oneWayArray"}
  Receivers = {r1, r2}
  Increment = 1
  Final = 3
  Word = 16
  Entered = {0, 2, 3, 15}
  PoolSize = 5
  TreePool = 2
  ArrayPool = 2
  ElementSize = 2
  CacheSize = 1
  FlushAt = 2
  RingSize = 1
  MaxKills = 1
SPECIFICATION FairSpec
INVARIANTS RowsPaired TreeBuiltAlone FailsOnlyWhenTight ReadyForNextRun
PROPERTY EndsUnlessMiscounted
CHECK_DEADLOCK FALSE
