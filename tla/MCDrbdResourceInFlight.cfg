CONSTANTS
  r1 = r1
  r2 = r2
  Reqs <- MCReqs
  Blocks = {1, 2}
  Intervals <- MCIntervals
  RWs = {"READ", "WRITE"}
  MaxEpochSize = 2
  NetTimeout = FALSE
  None = None
SPECIFICATION Spec
CONSTANTS
  Protocols = {"A", "B", "C"}
  MaxFaults = 1
  FaultKinds = {"ConnLoss"}
INVARIANT
  InFlightDrains
