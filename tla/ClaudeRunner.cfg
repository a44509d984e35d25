SPECIFICATION FairSpec
CONSTANTS
  Callers = {c1}
  MaxProcesses = 2
INVARIANTS
  NeverPanics
  NothingLeft
PROPERTIES
  CurrentTurnEndReported
  CloseReturns
CHECK_DEADLOCK FALSE
