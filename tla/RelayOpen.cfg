SPECIFICATION Spec
CONSTANTS
  HasToken = FALSE
  MaxConnections = 3
  MaxAgents = 2
  MaxSockets = 3
  MaxPages = 2
  MaxSaid = 2
  MaxTyped = 1
INVARIANTS
  StaysAttached
  OwnAgent
CHECK_DEADLOCK FALSE
