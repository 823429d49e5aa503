\* Two requests, at most three images, under the fairness of the scheduler.
SPECIFICATION LiveSpec
CONSTANTS
  UseStrictMode = FALSE
  MaxRequests = 2
  MaxImages = 2
  MaxTasks = 3
  MaxDebug = 0
  Messages <- PlainMessages
  Postcodes = {a}
  TagSets <- LiveTags
  Supported <- AllKinds
  Engines = {"std", "arb"}
  Loaders = {l1}
  Detectors = {d1}
  NoTask = NoTask
  NoRead = NoRead
PROPERTIES EveryRequestAnswered
CHECK_DEADLOCK FALSE
