SPECIFICATION Spec
CONSTANTS
  c1 = c1
  c2 = c2
  c3 = c3
  c4 = c4
  Calls <- MCCalls
  Timed <- MCTimed
  Workers = {t1, t2}
  Nobody = Nobody
INVARIANTS
  TypeOK
  WorkConserved
PROPERTIES
  KeepsPromise
CHECK_DEADLOCK FALSE
