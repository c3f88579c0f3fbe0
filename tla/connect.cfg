SPECIFICATION Spec
CONSTANTS
  MaxInvokes = 6
INVARIANTS
  TypeOK
  RequestsInOrder
  Goodbye
  OnAir
PROPERTIES
  HandleSpec
  NegotiationEnds
CHECK_DEADLOCK FALSE
