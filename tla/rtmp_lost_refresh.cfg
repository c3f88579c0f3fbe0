CONSTANTS
  ReconnectCount = 2
  MaxBuffered = 1
  MaxBlocks = 2
  LossDuringRefresh = TRUE

SPECIFICATION FairSpec

PROPERTIES
  OutageHandled

CHECK_DEADLOCK FALSE
