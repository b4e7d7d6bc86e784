SPECIFICATION Spec
CONSTANTS
  Machine = {"Engine", "Centrifuge", "Pressure"}
  Thread = {"SelfTestEngine", "Client"}
  TargetSpeed = 5
  Runs = 1
  ClientCalls = {"Start", "Cancel"}
  ClientBound = 4
  QueueBound = 2
INVARIANTS
  OneCallPerMachine
  PollTimerMatchesState
  PressureTestOnStoppedCentrifuge
PROPERTIES
  ImplementsSequence
  ProgramEnds
