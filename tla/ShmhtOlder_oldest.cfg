CONSTANTS
  k1 = k1
  k2 = k2
  k3 = k3
  Keys = {k1, k2, k3}
  NoKey = NoKey
  TooLong = {}
  Values = {1}
  MaxSize = 1
  N = 3
  Index <- MCIndex
  MaxClock = 2
  Percents = {34, 67, 100}
SPECIFICATION OlderSpec
VIEW Live
PROPERTY ErasesTheOldest
