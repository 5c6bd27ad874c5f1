CONSTANTS
  s1 = s1
  c1 = c1
  d1 = d1
  Services = {s1}
  Characteristics = {c1}
  Descriptors = {d1}
  Parent <- OneService
  Unknown = Unknown
  Data = {x, y}
  None = None
  MaxIdle = 2
  MaxCalls = 1
SPECIFICATION Spec
SYMMETRY DataSymmetry
INVARIANTS
  TypeOK
  AttributesRooted
  DefaultAttrLive
  
  
  
