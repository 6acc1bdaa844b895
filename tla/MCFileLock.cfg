\* Two live processes may find the lock of a dead one.
SPECIFICATION Spec
CONSTANTS
  a = a
  b = b
  c = c
  Procs <- ThreeProcs
  MayCrash <- OnlyC
  MaxTries <- OnlyARetries
  MaxUpdates = 1
INVARIANT
  TypeOK
PROPERTIES
  StoreUntilRaced
  EveryCallReturns
  DeadOwnerIsEvicted
CHECK_DEADLOCK FALSE
