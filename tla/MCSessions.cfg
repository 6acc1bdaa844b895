\* Two devices that initiate at will, records of two sessions, and a fault.
SPECIFICATION Spec
CONSTANTS
  Devices = {p, q}
  MaxSessions = 2
  MaxInits = 3
  MaxSent = 2
  MaxMessages = 2
  MaxFaults = 1
INVARIANTS
  TypeOK
  OneOpenSession
  PlaintextOnce
  LossOnlyByLimits
CHECK_DEADLOCK FALSE
SYMMETRY Symmetry
