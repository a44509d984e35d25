SPECIFICATION Spec
CONSTANTS
  Callers = {c1, c2}
  MaxProcesses = 2
INVARIANTS
  TurnEndMeansIdle
  OneProcess
CHECK_DEADLOCK FALSE
