SPECIFICATION Spec
CONSTANTS
  Machine = {"Engine", "Centrifuge", "Pressure"}
  Thread = {"SelfTestEngine", "Client"}
  TargetSpeed = 5
  Runs = 2
  ClientCalls = {}
  ClientBound = 0
  QueueBound = 2
PROPERTIES
  RunsComplete
