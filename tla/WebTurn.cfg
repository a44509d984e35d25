SPECIFICATION Spec
CONSTANTS
  Tools = {"edit", "bash"}
  Kinds = {"ask", "start", "end"}
  MaxEvents = 2
  MaxSessions = 2
  MaxPresses = 2
  MaxDrops = 1
INVARIANTS
  ThinkingInTurn
PROPERTIES
  AllowedByUser
  BannerGoes
CHECK_DEADLOCK FALSE
