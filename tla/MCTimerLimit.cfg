SPECIFICATION Spec
CONSTANTS
  Timers = {a, b}
  Processors = {p}
  Timeouts = {1, 2}
  Limits = {1}
  MaxTime = 3
INVARIANT FaultOnlyWhenExceeded
