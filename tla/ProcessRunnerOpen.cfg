SPECIFICATION FairSpec
CONSTANTS
  Kinds = {"codex", "pipe"}
  LongLines = TRUE
  EventCap = 2
  ErrorCap = 1
  StdinCap = 1
  StdoutCap = 1
  MaxWrites = 1
  MaxOutput = 2
INVARIANTS
  NoSendAfterClose
  OutputIsTaken
PROPERTIES
  CallsReturn
CHECK_DEADLOCK FALSE
