\* Rotation by age and on request, ids in order, a failing save and a crash.
SPECIFICATION Spec
CONSTANTS
  Calls = {c, d}
  MaxKeyId = 6
  MaxAge = 2
  GracePeriod = 2
  AnyId = FALSE
  MaxTime = 5
  MaxRotations = 3
  MaxFailures = 1
  MaxCrashes = 1
INVARIANTS
  TypeOK
  PublishedSignedPreKeysKept
CHECK_DEADLOCK FALSE
