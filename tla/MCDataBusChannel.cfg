CONSTANTS
  Null = Null
  SameType = {}
  Setups <- MCRefusingSetups
  Values <- MCValues
  Threads = {"t1", "t2"}
  Subscribers = {"s1", "s2"}
  Parties = {"p", "q", "r"}
  RemoteIds = {1}
  Capacity = 2
  HistorySize = 2
  Width = 8
SPECIFICATION Spec
INVARIANT ChannelRecovers
CHECK_DEADLOCK FALSE
