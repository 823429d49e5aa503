\* A window tag with WinTagSupport=1 and ArbTagSupport=0.
SPECIFICATION LiveSpec
CONSTANTS
  UseStrictMode = FALSE
  MaxRequests = 1
  MaxImages = 1
  MaxTasks = 1
  MaxDebug = 0
  Messages <- PlainMessages
  Postcodes = {a}
  TagSets <- WindowOnly
  Supported <- NoArb
  Engines = {"std", "arb"}
  Loaders = {l1}
  Detectors = {d1}
  NoTask = NoTask
  NoRead = NoRead
PROPERTIES EveryRequestAnswered
CHECK_DEADLOCK FALSE
