SPECIFICATION Spec
CONSTANTS
  Ports = {"FreeRTOS", "ThreadX", "Zephyr", "CMSIS"}
  Producer = {p1}
  Worker = w
  Message = {m1, m2}
  HighPriority = {}
  SelfExiting = {}
  ExitMsg = exit
  None = none
  Constructions <- MCConstructions
  MaxLives = 1
PROPERTIES
  ExitReturns
CHECK_DEADLOCK FALSE
