CONSTANTS
  Procs = {p1, p2, p3, p4, p5}
  Destroyers = {p4, p5}
SPECIFICATION FairSpec
INVARIANTS TypeOK ExclusiveWriter SemaphoresCountHolders UndoMatchesHolding
PROPERTIES ReadersOnlyDrain RefinesRWLock WriterProgress ReaderProgress
