CONSTANTS
  Objects = {o1, o2}
  Values = {v1, v2}
  None = None
  MaxChan = 3
SPECIFICATION Spec
INVARIANTS
  TypeOK
  Mirrors
  ToldAll
PROPERTY
  Connects
