SPECIFICATION Spec
CONSTANTS
  MaxRequests = 5
  MaxSockets = 3
  MaxConnects = 1
  MaxTexts = 3
  Repeating = TRUE
INVARIANTS
  TextAccounted
CHECK_DEADLOCK FALSE
