SPECIFICATION Spec
CONSTANTS
  HasToken = TRUE
  MaxConnections = 3
  MaxAgents = 2
  MaxSockets = 2
  MaxPages = 1
  MaxSaid = 2
  MaxTyped = 1
INVARIANTS
  SessionHolds
  TextsInOrder
CHECK_DEADLOCK FALSE
