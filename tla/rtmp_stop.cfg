CONSTANTS
  ReconnectCount = 2
  MaxBuffered = 1
  MaxBlocks = 2
  LossDuringRefresh = TRUE

SPECIFICATION Spec

INVARIANTS
  StopIsFinal

CHECK_DEADLOCK FALSE
