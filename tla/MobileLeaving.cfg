SPECIFICATION FairMobileSpec
CONSTANTS
  Types = {"text_delta", "text", "permission_ask", "turn_end", "bash_end"}
  Blocks = {1}
  Tools = {1}
  Holds = {"text"}
  HistoryLimit = 2
  MaxEvents = 0
  MaxRequests = 2
  MaxVisits = 1
  MaxTexts = 1
PROPERTIES
  LeavingEnds
CHECK_DEADLOCK FALSE
