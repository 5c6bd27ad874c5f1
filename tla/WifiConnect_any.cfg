SPECIFICATION Spec
CONSTANTS
  Apps = {a1}
  Checkers = {c1}
  Ids = {0}
  Aps = {p1}
  Bssids = {b1}
  Calls = {"wep", "with_bssid", "cancel", "disconnect", "power"}
  ConnectRetry = 1
  CompleteBy = 0
  MaxEvents = 1
  None = None
  EscapeBytes = {34, 92, 120, 52, 187}
  GbkBytes = {65, 161, 164, 183, 194}
  RowBytes = {97, 110, 121, 32}
  MaxName = 4
  mb_gb2uni_table <- Gb2uni
INVARIANTS  SavedRowRead ShownNameKept
