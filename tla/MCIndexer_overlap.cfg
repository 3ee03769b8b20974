SPECIFICATION FairSpec
CONSTANTS
  A = A
  B = B
  a1 = a1
  a2 = a2
  b1 = b1
  Absent = Absent
  RepoOrder <- OneRepo
  Paths <- OnePath
  RepoOf <- OneRepoOf
  Contents = {"c1", "c2"}
  Parse <- OneParse
  Indexers = {"i1", "i2"}
  Modes = {"full"}
  Scopes <- BothWhole
  Unparsable = {}
  Oversize = {}
  MaxRuns = 2
  MaxEdits = 1
  MaxFaults = 0
  InitDisk <- OneDisk
  MaxAttempts = 2
  Shas = {"s1"}
INVARIANTS
  NoOrphans
  HashVouches
PROPERTIES
  FullRefreshExact
  RunEnds
CHECK_DEADLOCK FALSE
