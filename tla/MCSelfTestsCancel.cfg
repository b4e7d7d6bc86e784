SPECIFICATION Spec
CONSTANTS
  Machine = {"Engine", "Centrifuge", "Pressure"}
  Thread = {"SelfTestEngine", "Client"}
  TargetSpeed = 5
  Runs = 1
  ClientCalls = {"CancelDirect"}
  ClientBound = 1
  QueueBound = 2
PROPERTIES
  CancelFails
