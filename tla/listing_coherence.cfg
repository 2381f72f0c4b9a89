SPECIFICATION FairSpec
CONSTANTS
  Procs = {"p1", "p2"}
  Task <- OneEach
  MaxWrites = 2
  Faults = {"readSentinel", "bump", "request", "crash"}
INVARIANTS
  AnnouncedIsListed
  OwnWriteIsListed
PROPERTY EventuallyListed
