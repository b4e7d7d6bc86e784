SPECIFICATION Spec
CONSTANTS
  Timers = {a, b}
  Processors = {p}
  Timeouts = {1, 2}
  Limits = {1, 2}
  MaxTime = 3
INVARIANTS ListConsistent RateBounded LateCallsBounded
PROPERTIES Serviced
