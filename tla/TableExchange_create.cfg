CONSTANTS
  Writers = {w1}
  Readers = {r1}
  Destroyers = {}
  AnyOrder = TRUE
  Buckets = {1, 2, 3, 4}
  Word = 8
  MaxKills = 0
SPECIFICATION Spec
PROPERTY CreateDisturbsNobody
CHECK_DEADLOCK FALSE
