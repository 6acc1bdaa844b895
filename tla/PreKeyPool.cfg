\* Two calls side by side, ids that wrap at three, a save that fails and a crash.
SPECIFICATION Spec
CONSTANTS
  Calls = {c, d}
  MaxKeyId = 3
  MinCount = 1
  ReplenishCount = 2
  ChosenIds = {1}
  MaxBundles = 2
  MaxFailures = 1
  MaxCrashes = 1
INVARIANTS
  TypeOK
  BundlesShareNoPreKey
  PublishedPreKeysKept
PROPERTY
  PoolRefills
