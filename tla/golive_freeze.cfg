CONSTANTS
  Device = {phone}
  MaxStreams = 1
  MaxWrites = 2

SPECIFICATION FairSpec

PROPERTIES
  FailureGivesMainBack

CHECK_DEADLOCK FALSE
