SPECIFICATION ChatSpec
CONSTANTS
  Kinds = {"delta", "text"}
  ReplaySize = 3
  WireCap = 3
  PageSize = 2
  MaxMessages = 6
  MaxBroadcasts = 3
  MaxStarts = 1
  MaxConnects = 2
  MaxUser = 0
  MaxFetches = 1
INVARIANTS
  OnceOnly
CHECK_DEADLOCK FALSE
