SPECIFICATION MCSpec
CONSTANTS
  None = None
  Callers = {c1, c2}
  Runners = {r1, r2, r3, k1}
  ClaudeRunners = {k1}
INVARIANTS
  LiveRunnerReachable
  RestartKeepsSessionId
CHECK_DEADLOCK FALSE
