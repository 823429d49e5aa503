SPECIFICATION LiveSpec
CONSTANTS
  Workers = {w1, w2}
  Senders = {s1, s2}
  MaxRequests = 1
  Messages <- TwoPictures
  Finds = {0, 1}
  Run_OCR_on_handwrite_box = TRUE
  Run_OCR_on_unknown_tag = TRUE
  DistinctTicks = TRUE
  MaxFailures = 1
  MaxBreaks = 1
  NoTask = NoTask
INVARIANTS RepliesBounded
PROPERTIES EveryRequestAnswered QueueDrained
CHECK_DEADLOCK FALSE
