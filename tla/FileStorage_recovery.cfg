\* Two processes, and a snapshot that is damaged once.
SPECIFICATION Spec
CONSTANTS
  Procs = {a, b}
  BackupEnabled = TRUE
  MaxChanges = 3
  DamageAtRest = FALSE
  MaxRotations = 0
  MaxCorruptions = 1
INVARIANTS
  SavedIsKept
