SPECIFICATION Spec
CONSTANTS
  Ports = {"FreeRTOS", "ThreadX", "Zephyr", "CMSIS", "Win32"}
  Producer = {p1, p2}
  Worker = w
  Message = {m1, m2, m3}
  HighPriority = {m1}
  SelfExiting = {m3}
  ExitMsg = exit
  None = none
  Constructions <- MCConstructions
  MaxLives = 2
INVARIANTS
  DoorbellCounts
PROPERTIES
  ImplementsChannel
  Progress
CHECK_DEADLOCK FALSE
