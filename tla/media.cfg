SPECIFICATION Spec
CONSTANTS
  MaxNotes = 2
  CallBackInterval = 3
  MaxSample = 3
  BitRate = 8
  MinBitRate = 6
  MaxBitRate = 9
  Raise = 2
  Lower = 4
INVARIANTS
  TypeOK
  StoppedMeansOff
  NoDeallocOnQueue
  RateInBand
  RateIsSessions
PROPERTIES
  RateFollowsBuffer
  MicComesBack
CHECK_DEADLOCK FALSE
