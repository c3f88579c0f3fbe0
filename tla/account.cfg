CONSTANTS
  Genre = {house}
  Username = {ann, bea}
  MaxForms = 2
  MaxFinish = 2

SPECIFICATION Spec

INVARIANTS
  TypeOK
  TabsShowDocument
  OneDocument
