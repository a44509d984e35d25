SPECIFICATION FairSpec
CONSTANTS
  Kinds = {"codex", "pipe", "pty"}
  LongLines = FALSE
  EventCap = 1
  ErrorCap = 1
  StdinCap = 1
  StdoutCap = 1
  MaxWrites = 2
  MaxOutput = 3
PROPERTIES
  EndIsReported
  CallsReturn
CHECK_DEADLOCK FALSE
