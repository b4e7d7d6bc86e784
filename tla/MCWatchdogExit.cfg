SPECIFICATION WDSpec
CONSTANTS
  Timeout = 10
  Latency = 3
  MayExit = TRUE
INVARIANTS
  ExitRaisesNoAlarm
