SPECIFICATION FairSpec
CONSTANTS
  Conns = {a}
  ReplayBufferSize = 2
  SubCap = 2
  SendCap = 2
  MaxEvents = 4
INVARIANTS
  InOrderOnce
  LossIsCounted
PROPERTIES
  QueuedIsShown
CHECK_DEADLOCK FALSE
