\* The rest of an old connection meets the first message of the next.
SPECIFICATION Spec
CONSTANTS
  Base = 2
  BindsPort = TRUE
  MaxTries = 2
  Contents <- OneByte
  MaxInputs = 1
  MaxReplies = 0
  FrameParts = 1
  MaxBreaks = 1
INVARIANTS AcceptedWereSent
CHECK_DEADLOCK FALSE
