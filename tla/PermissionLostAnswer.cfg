SPECIFICATION Spec
CONSTANTS
  None = None
  Requests = {q1}
  Foreign = {}
  Phones = {p1}
  DenyOnTimeout = TRUE
INVARIANTS
  AckedDecisionReachesClaude
CHECK_DEADLOCK FALSE
