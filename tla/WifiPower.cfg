SPECIFICATION FairSpec
CONSTANTS
  Apps = {a1, a2}
  Monitors = {m1, m2, m3}
  MaxStarts = 3
  WaitFor = "settled"
  Faults = {"crash", "start", "connect", "thread"}
INVARIANTS TypeOK 
PROPERTIES CallReturns MonitorStops
