SPECIFICATION Spec
CONSTANTS
  Clients = {c}
  Workers = {v, w}
  Calls = {c1, c2, c3}
  Infinite = {}
  None = None
PROPERTIES CallsReturn ImplementsBlockingCall
\* All calls have returned, or the program has ended.
CHECK_DEADLOCK FALSE
