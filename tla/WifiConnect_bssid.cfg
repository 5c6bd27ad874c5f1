SPECIFICATION Spec
CONSTANTS
  Apps = {a1}
  Checkers = {c1, c2}
  Ids = {0, 1}
  Aps = {p1}
  Bssids = {b1}
  Calls = {"connect", "with_bssid"}
  ConnectRetry = 2
  CompleteBy = 0
  MaxEvents = 1
  None = None
INVARIANT OnlyOneConnect
