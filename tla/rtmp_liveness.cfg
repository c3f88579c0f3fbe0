CONSTANTS
  ReconnectCount = 2
  MaxBuffered = 1
  MaxBlocks = 2
  LossDuringRefresh = FALSE

SPECIFICATION FairSpec

PROPERTIES
  OutageHandled
  StopQuiesces

CHECK_DEADLOCK FALSE
