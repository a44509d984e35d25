SPECIFICATION ChatSpec
CONSTANTS
  Kinds = {"delta", "text", "ask a tool", "other"}
  ReplaySize = 2
  WireCap = 2
  PageSize = 2
  MaxMessages = 6
  MaxBroadcasts = 3
  MaxStarts = 2
  MaxConnects = 2
  MaxUser = 0
  MaxFetches = 1
INVARIANTS
  OwnTimeline
CHECK_DEADLOCK FALSE
