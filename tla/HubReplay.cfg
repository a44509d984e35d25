SPECIFICATION Spec
CONSTANTS
  Conns = {a}
  ReplayBufferSize = 3
  SubCap = 2
  SendCap = 1
  MaxEvents = 3
INVARIANTS
  NewestIsReplayed
CHECK_DEADLOCK FALSE
