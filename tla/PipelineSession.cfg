SPECIFICATION Spec
CONSTANTS
  OutCap = 2
  SaveCap = 1
  MaxSessions = 2
  MaxEvents = 2
  MaxBoots = 1
INVARIANTS
  OwnSession
CHECK_DEADLOCK FALSE
