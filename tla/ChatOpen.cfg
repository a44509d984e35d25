SPECIFICATION ChatSpec
CONSTANTS
  Kinds = {"other"}
  ReplaySize = 1
  WireCap = 2
  PageSize = 1
  MaxMessages = 6
  MaxBroadcasts = 5
  MaxStarts = 1
  MaxConnects = 2
  MaxUser = 0
  MaxFetches = 1
INVARIANTS
  CaughtUp
  InOrder
CHECK_DEADLOCK FALSE
