SPECIFICATION Spec
CONSTANTS
  Setups <- MCSetups
  LongSetups <- MCLongSetups
  MaxMessages = 3
  Empty = {1}
  Raw = {}
  SeqMod = 2
  MaxPending = 1
  MaxExpired = 1
  MaxRetries = 1
  HistorySize = 1
  MaxDeliveries = 3
INVARIANTS
  SuccessMeansReceived
  RetriesBounded
  DuplicateOnlyBeyondWindow
PROPERTIES
  FailedIsFinal
  TrackingEnds
CHECK_DEADLOCK FALSE
