\* The same processes, and the promise that a saved update is not overwritten.
SPECIFICATION Spec
CONSTANTS
  a = a
  b = b
  c = c
  Procs <- ThreeProcs
  MayCrash <- OnlyC
  MaxTries <- OnlyARetries
  MaxUpdates = 1
INVARIANT SavedIsKept
CHECK_DEADLOCK FALSE
