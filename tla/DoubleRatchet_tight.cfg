\* Every limit is reached: two receiving chains, two message keys held at a
\* time (one of them skipped), two keys ahead.
SPECIFICATION Spec
CONSTANTS
  Initiator = alice
  Responder = bob
  MaxReceiverChains = 2
  MaxMessageKeys = 2
  MaxFuture = 2
  MaxSends = 5
INVARIANTS
  TypeOK
  UsedKeysAreGone
  MessageKeysSealOnce
  SkippedKeysAwaitMessages
  SessionShape
  LossOnlyByLimits
PROPERTIES
  RatchetOnlyAdvances
  ImplementsChannel
CHECK_DEADLOCK FALSE
