\* The application rotates to ids of its own choice, used ones included.
SPECIFICATION Spec
CONSTANTS
  Calls = {c, d}
  MaxKeyId = 6
  MaxAge = 2
  GracePeriod = 2
  AnyId = TRUE
  MaxTime = 5
  MaxRotations = 3
  MaxFailures = 1
  MaxCrashes = 1
INVARIANTS
  LatestIsStored
CHECK_DEADLOCK FALSE
