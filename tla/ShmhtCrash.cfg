CONSTANTS
  k1 = k1
  k2 = k2
  k3 = k3
  Keys = {k1, k2, k3}
  NoKey = NoKey
  TooLong = {}
  Values = {1}
  MaxSize = 1
  N = 2
  Index <- MCIndex
  MaxClock = 0
  Word = 8
SPECIFICATION CrashSpec
SYMMETRY Symmetry
VIEW Seen
INVARIANTS SoundUnlessKilled ChainsEnd KillCostsOneEntry
PROPERTY StoresMakeTheCall
