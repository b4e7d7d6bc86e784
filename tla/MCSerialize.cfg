SPECIFICATION Spec
CONSTANTS
  Base = 32
  SizeWidth = 1
  MAX_STRING_SIZE = 3
  MAX_CONTAINER_SIZE = 2
  MAX_PARSE_STACK_DEPTH = 2
  WCHAR_SIZE = 1
  TmpSize = 2
  null = null
  Null = null
  Hosts <- MCHosts
  Setups <- MCSetups
INVARIANTS
  NothingLost
  TruncationDetected
CHECK_DEADLOCK FALSE
