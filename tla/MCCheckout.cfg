SPECIFICATION Spec
CONSTANTS
  Runs = {r1, r2, r3}
  MaxCommits = 2
  MaxFaults = 1
INVARIANTS
  TypeOK
  ReadsItsCommit
  GitMeansWhole
PROPERTIES
  NotPulledAway
SYMMETRY Symmetry
