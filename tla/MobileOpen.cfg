SPECIFICATION MobileSpec
CONSTANTS
  Types = {"text_delta", "text", "permission_ask", "turn_end", "bash_end"}
  Blocks = {1}
  Tools = {1}
  Holds = {"text", "thinking", "both"}
  HistoryLimit = 2
  MaxEvents = 2
  MaxRequests = 3
  MaxVisits = 1
  MaxTexts = 1
INVARIANTS
  TextIsOfItsDeltas
  NeverUndefined
  ThinkingKept
  SeenIsAnswered
  SendAfterTurnEnd
CHECK_DEADLOCK FALSE
