SPECIFICATION Spec
CONSTANTS
  Tools = {"edit", "bash"}
  Kinds = {"ask", "refused", "start", "end"}
  MaxEvents = 2
  MaxSessions = 2
  MaxPresses = 2
  MaxDrops = 1
INVARIANTS
  ButtonGoesBack
  AllowAllWithinTurn
  OnlyAsksAnswered
PROPERTIES
  ToolsWithinSession
  QuestionStays
CHECK_DEADLOCK FALSE
