SPECIFICATION MCSpec
CONSTANTS
  None = None
  Callers = {c1}
  Runners = {r1, r2}
  ClaudeRunners = {}
INVARIANTS
  SessionSurvivesDisconnect

CHECK_DEADLOCK FALSE
