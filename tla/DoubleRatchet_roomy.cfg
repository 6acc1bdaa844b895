\* No limit can be reached: order of arrival alone.
SPECIFICATION Spec
CONSTANTS
  Initiator = alice
  Responder = bob
  MaxReceiverChains = 5
  MaxMessageKeys = 5
  MaxFuture = 5
  MaxSends = 5
INVARIANTS
  NothingIsLost
  PreviousCounterIsLast
CHECK_DEADLOCK FALSE
