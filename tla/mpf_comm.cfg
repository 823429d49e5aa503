SPECIFICATION LiveSpec
CONSTANTS
  Base = 2
  Contents <- FourContents
  Addresses = {0, 1}
  Kinds = {2, 3}
  RECEIVE_BUFFER_LEN = 20
  RawLength = 18
  IADM_MES_MAX_LEN = 3
  IADM_REV_BUF_ROW = 3
  Chunks = {4, 9}
  MaxBreaks = 1
INVARIANTS TypeOK LengthInBounds AcceptedWereSent OneSwallowedPerBreak
PROPERTIES EveryMessageHandled RingsDrained ImplementsNewest
CHECK_DEADLOCK FALSE
