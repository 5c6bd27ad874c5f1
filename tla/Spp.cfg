SPECIFICATION SppFairSpec
CONSTANTS
  Clients = {c1, c2}
  Sockets = 3
  SppFaults = {"socket", "bind", "connect"}
CHECK_DEADLOCK FALSE
INVARIANTS SppTypeOK ClosedIsClean
 
