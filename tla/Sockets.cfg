CONSTANTS
  Points = 4
  Inc = 2
  Limit = 17
  TimeSize = 2
  Buffer = 7
  MayDie = {"client", "server"}
SPECIFICATION FairSpec
INVARIANTS TypeOK OwnBytes MessageDecodes
PROPERTIES RefinesRoundTrip Completes ClientNotStuck
CHECK_DEADLOCK FALSE
