SPECIFICATION Spec
CONSTANTS
  A = A
  B = B
  a1 = a1
  a2 = a2
  b1 = b1
  Absent = Absent
  RepoOrder <- MCRepoOrder
  Paths <- MCPaths
  RepoOf <- MCRepoOf
  Contents <- MCContents
  Parse <- MCParse
  Indexers = {"i1"}
  Modes = {"full", "delta"}
  Scopes <- WholeScope
  Unparsable = {"bad"}
  Oversize = {"big"}
  MaxRuns = 2
  MaxEdits = 1
  MaxFaults = 1
  InitDisk <- MCInitDisk
  MaxAttempts = 2
  Shas = {"s1"}
PROPERTIES
  RerunRepairs
CHECK_DEADLOCK FALSE
