SPECIFICATION Spec
CONSTANTS
  Sizes <- MCSizes
  EmbedWorkers = 3
  SliceArg = 3
  BatchArg = 2
  NoVector = NoVector
  ZeroVector = ZeroVector
INVARIANTS
  TypeOK
  SliceInOrder
PROPERTIES
  KeepsPromise
CHECK_DEADLOCK FALSE
