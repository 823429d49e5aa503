\* What is sent: three replies in two parts each, two breaks, every reconnection.
SPECIFICATION LiveSpec
CONSTANTS
  Base = 2
  BindsPort = TRUE
  MaxTries = 2
  Contents <- NoContents
  MaxInputs = 0
  MaxReplies = 3
  FrameParts = 2
  MaxBreaks = 2
PROPERTIES RepliesInOrder LostOnlyByBreaks Reconnects RepliesHeard
CHECK_DEADLOCK FALSE
