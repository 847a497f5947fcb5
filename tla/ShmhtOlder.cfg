CONSTANTS
  k1 = k1
  k2 = k2
  k3 = k3
  Keys = {k1, k2, k3}
  NoKey = NoKey
  TooLong = {}
  Values = {1, 2, 3}
  MaxSize = 2
  N = 3
  Index <- MCIndex
  MaxClock = 1
  Percents = {34, 100}
SPECIFICATION OlderSpec
VIEW Live
INVARIANTS TypeOK BucketsOwned CountExact RoomForInsert ChainsPartitionEntries PositionsRight
PROPERTIES ImplementsKeyFifo AnOldestErased
