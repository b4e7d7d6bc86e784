CONSTANTS
  Null = Null
  SameType = {"f", "g"}
  Setups <- MCSetups
  Objects = {"o"}
  Slots = {s1, s2, s3}
  Empty = Empty
  MaxList = 2
  MaxDepth = 2
  QueueSize = 1
SYMMETRY MCSymmetry
SPECIFICATION ContainersSpec
INVARIANTS
  ListFitsBroadcasts
  NoCallOnDeadObject
  GateOpens
PROPERTIES
  EntriesKeepTheirPlace
CHECK_DEADLOCK FALSE
