CONSTANTS
  Writers = {w1, w2}
  Readers = {r1, r2}
  Destroyers = {d1}
  AnyOrder = FALSE
  Buckets = {1, 2, 3, 4, 5, 6, 7, 8}
  Word = 16
  MaxKills = 2
SPECIFICATION FairSpec
INVARIANTS OneTable CountedInOrder Delivered
PROPERTIES DestroyLeavesNothing BothEnd
CHECK_DEADLOCK FALSE
