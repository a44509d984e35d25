SPECIFICATION MobileSpec
CONSTANTS
  Types = {"text_delta", "text", "permission_ask", "turn_end"}
  Blocks = {1, 2}
  Tools = {1}
  Holds = {"text"}
  HistoryLimit = 2
  MaxEvents = 3
  MaxRequests = 2
  MaxVisits = 2
  MaxTexts = 1
INVARIANTS
  TextsKept
  GroupsKeepAll
CHECK_DEADLOCK FALSE
