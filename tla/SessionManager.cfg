SPECIFICATION MCSpec
CONSTANTS
  None = None
  Callers = {c1, c2}
  Runners = {r1, r2, k1}
  ClaudeRunners = {k1}
INVARIANTS
  ClosedAtMostOnce
  CurrentRecordedActive
  OneRunsInTurn
  ReachableInTurn
  NoPanicInTurn
SYMMETRY Symmetry
CHECK_DEADLOCK FALSE
