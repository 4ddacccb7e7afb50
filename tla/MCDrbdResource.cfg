CONSTANTS
  r1 = r1
  r2 = r2
  Reqs <- MCReqs
  Blocks = {1, 2}
  Intervals <- MCIntervals
  RWs = {"READ", "WRITE"}
  Protocols = {"A", "B", "C"}
  MaxEpochSize = 2
  MaxFaults = 2
  FaultKinds = {"ConnLoss", "LocalWrite", "PeerRead"}
  NetTimeout = FALSE
  None = None
SPECIFICATION Spec
INVARIANTS
  TypeOK
  NoProtocolError
  ApPendingMatchesFlags
  CrashSafeCoverage
  NoUseAfterFree
  ConflictExclusion
  SyncedOrMarked
PROPERTIES
  LifecycleRefined
