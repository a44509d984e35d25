SPECIFICATION Spec
CONSTANTS
  MaxRequests = 3
  MaxSockets = 3
  MaxConnects = 1
  MaxTexts = 3
  Repeating = FALSE
INVARIANTS
  RequestAccounted
  SentInOrder
  TextAccounted
  OutageInOrder
PROPERTIES
  EveryTextEnds
CHECK_DEADLOCK FALSE
