SPECIFICATION Spec
CONSTANTS
  Clients = {c}
  Workers = {v, w}
  Calls = {c1, c2}
  Infinite = {c2}
  None = None
PROPERTIES TimedCallsReturn
\* The threads wait for each other, which the property is about.
CHECK_DEADLOCK FALSE
