CONSTANTS
  phone = phone
  tablet = tablet
  Device <- Devices
  MaxStreams = 2
  MaxWrites = 2

SPECIFICATION Spec

INVARIANTS
  TypeOK
  AirMatchesDoc
  QuietMeansUnpublished

SYMMETRY Symmetry
CHECK_DEADLOCK FALSE
