\* Sender and receiver process distributions, old and new; three key ids
\* compete for two states, and every limit on keys is met.
SPECIFICATION Spec
CONSTANTS
  Sender = s
  Receivers = {r}
  MaxStates = 2
  MaxMessageKeys = 1
  MaxJump = 1
  MaxRotations = 2
  MaxHandedOut = 2
  MaxSends = 4
INVARIANTS
  TypeOK
  NoReplay
  MessageKeysSealOnce
  ReadersWereInvited
  SkippedKeysAwaitMessages
  LossOnlyByLimits
