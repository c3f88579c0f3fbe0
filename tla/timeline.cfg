CONSTANTS
  Wrap = 16
  MaxTime = 3
  MaxEncoding = 2
  MaxSessions = 2

SPECIFICATION Spec

INVARIANTS
  TypeOK
  FirstPictureIsKey
  OneLateFrame

PROPERTIES
  BaseSettles

CHECK_DEADLOCK FALSE
