CONSTANTS
  Uuids = {u1, u2}
  Chrs = {u1}
  Data = {d1, d2}
  Names = {n1, n2}
  None = None
  MaxIdle = 2
  MaxTraffic = 4
SPECIFICATION Spec
SYMMETRY PeripheralSymmetry
INVARIANTS
  TypeOK
  ExportTracked
  AgreedWhenQuiet
  AdvertisesContent
  
