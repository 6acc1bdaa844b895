\* Two processes that may die, file operations that may fail, and a snapshot
\* that is damaged while nobody has it open.
SPECIFICATION Spec
CONSTANTS
  Procs = {a, b}
  BackupEnabled = TRUE
  MaxChanges = 2
  DamageAtRest = TRUE
  MaxRotations = 1
  MaxCorruptions = 1
INVARIANTS
  TypeOK
  SavedIsKept
  RefusedIsForgotten
  UnsavedIsScheduled
