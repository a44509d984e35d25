SPECIFICATION FairSpec
CONSTANTS
  OutCap = 2
  SaveCap = 2
  MaxSessions = 2
  MaxEvents = 3
  MaxBoots = 2
INVARIANTS
  OneOrder
  SeqIsTrue
  BroadcastIsSaved
PROPERTIES
  TakenIsBroadcast
CHECK_DEADLOCK FALSE
