SPECIFICATION Spec
CONSTANTS
  Runs = {r1, r2}
  MaxCommits = 1
  MaxFaults = 0
INVARIANTS
  NeverCollide
SYMMETRY Symmetry
