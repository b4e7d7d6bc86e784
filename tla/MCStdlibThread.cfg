SPECIFICATION Spec
CONSTANTS
  Producer = {p1, p2}
  Worker = w
  Message = {m1, m2, m3}
  HighPriority = {m1}
  SelfExiting = {m3}
  ExitMsg = exit
  None = none
  QueueSizes = {0, 1, 2}
  Policies = {"DROP", "FAULT", "TIMEOUT"}
INVARIANTS
  QueueBounded
  ExitDrains
  NoLostWakeup
PROPERTIES
  ImplementsChannel
  Delivered
  CallsReturn
