SPECIFICATION FairSpec
CONSTANTS
  Callers = {c1}
  MaxProcesses = 2
PROPERTIES
  EveryTurnEndReported
CHECK_DEADLOCK FALSE
