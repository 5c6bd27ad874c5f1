SPECIFICATION Spec
CONSTANTS
  Devices = {d1, d2}
  None = None
  Requests = {}
  MaxWork = 0
  Configs = {k1, k2}
  Other = Other
  Reported = {"playing", "paused"}
  Status = {"playing", "paused", "forward-seek"}
SYMMETRY SinkSymmetry
INVARIANTS TypeOK MediaFollowed PlayerFollowed
