SPECIFICATION Spec
CONSTANTS
  Workers = {w1, w2}
  Senders = {s1}
  MaxRequests = 1
  Messages <- TwoPictures
  Finds = {0, 1}
  Run_OCR_on_handwrite_box = TRUE
  Run_OCR_on_unknown_tag = FALSE
  DistinctTicks = TRUE
  MaxFailures = 0
  MaxBreaks = 0
  NoTask = NoTask
INVARIANTS AnsweredOnce
SYMMETRY Symmetry
CHECK_DEADLOCK FALSE
