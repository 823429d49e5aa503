\* Two requests, one and two images or one and one: every interleaving of the threads.
SPECIFICATION Spec
CONSTANTS
  UseStrictMode = FALSE
  MaxRequests = 2
  MaxImages = 2
  MaxTasks = 3
  MaxDebug = 0
  Messages <- AllMessages
  Postcodes = {a}
  TagSets <- FewTags
  Supported <- AllKinds
  Engines = {"std", "arb"}
  Loaders = {l1}
  Detectors = {d1, d2}
  NoTask = NoTask
  NoRead = NoRead
INVARIANTS TypeOK ExclusiveWork OwnedStaysInStage NoLostWakeup AtMostOneReply PackagedWhole
PROPERTIES ImplementsService
SYMMETRY Symmetry
CHECK_DEADLOCK FALSE
