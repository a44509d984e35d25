SPECIFICATION FairSpec
CONSTANTS
  None = None
  Requests = {q1, q2, f1}
  Foreign = {f1}
  Phones = {p1, p2, p3}
  DenyOnTimeout = TRUE
INVARIANTS
  AckedOnce
  NeverPanics
PROPERTIES
  ImplementsDecision
  RespondReturns
CHECK_DEADLOCK FALSE
