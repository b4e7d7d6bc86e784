SPECIFICATION Spec
CONSTANTS
  Machine = {"Engine", "Centrifuge", "Pressure"}
  Thread = {"SelfTestEngine", "Client"}
  TargetSpeed = 5
  Runs = 1
  ClientCalls = {"Start", "Cancel"}
  ClientBound = 2
  QueueBound = 2
INVARIANTS
  OwnTestsOnly
