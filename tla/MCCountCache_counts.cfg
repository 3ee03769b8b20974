SPECIFICATION Spec
CONSTANTS
  w1 = w1
  w2 = w2
  Workspaces = {w1}
  Global = Global
  Threads = {t1, t2}
  Writers = {x1}
  Asked <- OneKey
  Ttls <- MCTtls
  MaxTtl = 1
  MaxHold = 1
  MaxTime = 4
  MaxWrites = 1
INVARIANTS
  TypeOK
  Reflected
PROPERTIES
  BoundedStale
SYMMETRY Symmetry
