CONSTANTS
  ReconnectCount = 3
  MaxBuffered = 2
  MaxBlocks = 3
  LossDuringRefresh = TRUE

SPECIFICATION Spec

INVARIANTS
  HandleSafe
  ReconnectOnItsWay
  RetryBudget
  HeadsMatchHandle
  IInv

PROPERTIES
  ErrorEndsScheduling
  LiveStatesSpec

CHECK_DEADLOCK FALSE
