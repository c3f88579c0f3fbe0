CONSTANTS
  SortMax = 1
  MaxCount = 2
  MaxFrames = 5
  MaxTs = 1

SPECIFICATION Spec

INVARIANTS
  ListBounded
  NoNilFrame
  FramesAccounted
  LateByWindow

PROPERTIES
  DropsWholeGops

CHECK_DEADLOCK FALSE
