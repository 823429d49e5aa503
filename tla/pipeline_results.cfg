\* A request of three images or two images pushed by the operator: every mixture of tags
\* and postcodes.
SPECIFICATION Spec
CONSTANTS
  UseStrictMode = FALSE
  MaxRequests = 1
  MaxImages = 3
  MaxTasks = 3
  MaxDebug = 2
  Messages <- LongMessages
  Postcodes = {a, b}
  TagSets <- MergeTags
  Supported <- AllKinds
  Engines = {"std", "arb"}
  Loaders = {l1}
  Detectors = {d1}
  NoTask = NoTask
  NoRead = NoRead
INVARIANTS ReplyReportsReads DebugRepliesBounded
SYMMETRY Symmetry
CHECK_DEADLOCK FALSE
