SPECIFICATION FairSpec
CONSTANTS
  Inits = {i1, i2}
  Deinits = {d1, d2}
  MaxInits = 3
  Polite = TRUE
  Vendor = TRUE
  Faults = {"vendor", "bus", "agent"}
CHECK_DEADLOCK FALSE
INVARIANT TypeOK
PROPERTIES ClientNotLeaked 
