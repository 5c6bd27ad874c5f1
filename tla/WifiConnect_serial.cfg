SPECIFICATION FairSpec
CONSTANTS
  Apps = {a1}
  Checkers = {c1, c2}
  Ids = {0, 1}
  Aps = {p1}
  Bssids = {}
  Calls = {"connect", "with_ssid", "forget", "reset"}
  ConnectRetry = 2
  CompleteBy = 0
  MaxEvents = 1
  None = None
INVARIANTS TypeOK  ChecksOwnNetwork
PROPERTIES SavedNetworkSurvives 
