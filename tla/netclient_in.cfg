\* What arrives: messages of two lengths, every way to cut the stream, one break.
SPECIFICATION Spec
CONSTANTS
  Base = 2
  BindsPort = TRUE
  MaxTries = 2
  Contents <- Lengths
  MaxInputs = 2
  MaxReplies = 0
  FrameParts = 1
  MaxBreaks = 1
INVARIANTS TypeOK ParsedAsSent OneWrongPerBreak ConnectsFromLocalPort
CHECK_DEADLOCK FALSE
