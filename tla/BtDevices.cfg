CONSTANTS
  Devices = {d1, d2}
  None = None
  Requests = {"connect", "disconnect", "disconnect_current", "remove", "pair", "unpair", "start", "cancel"}
  MaxWork = 2
SPECIFICATION Spec
SYMMETRY DeviceSymmetry
INVARIANTS
  TypeOK
  RegistryCurrent
  DefaultConnected
  
