SPECIFICATION FairSpec
CONSTANTS
  Inits = {i1, i2}
  Deinits = {d1, d2}
  MaxInits = 2
  Polite = TRUE
  Vendor = TRUE
  Faults = {}
CHECK_DEADLOCK FALSE
PROPERTY InitAnswered
