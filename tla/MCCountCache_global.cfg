SPECIFICATION Spec
CONSTANTS
  w1 = w1
  w2 = w2
  Workspaces = {w1, w2}
  Global = Global
  Threads = {t1, t2}
  Writers = {x1}
  Asked <- MCAsked
  Ttls <- MCTtls
  MaxTtl = 1
  MaxHold = 0
  MaxTime = 0
  MaxWrites = 1
INVARIANTS
  GlobalReflected
SYMMETRY Symmetry
