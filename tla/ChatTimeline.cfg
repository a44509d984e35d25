SPECIFICATION ChatSpec
CONSTANTS
  Kinds = {"delta", "text", "ask a tool"}
  ReplaySize = 2
  WireCap = 1
  PageSize = 1
  MaxMessages = 3
  MaxBroadcasts = 2
  MaxStarts = 2
  MaxConnects = 2
  MaxUser = 1
  MaxFetches = 1
INVARIANTS
  OneCard
  NothingForgotten
  WindowIsShown
PROPERTIES
  HistoryIsStable
CHECK_DEADLOCK FALSE
