\* One request under every fault kind, a peer whose receiver may hang,
\* and the request timer armed.
CONSTANTS
  r1 = r1
  r2 = r2
  Reqs <- MCOneReq
  Blocks = {1, 2}
  Intervals <- MCIntervals
  RWs = {"READ", "WRITE"}
  Protocols = {"A", "B", "C"}
  MaxEpochSize = 2
  MaxFaults = 2
  FaultKinds = {"ConnLoss", "LocalWrite", "LocalRead", "PeerWrite", "PeerRead", "PeerHang"}
  NetTimeout = TRUE
  None = None
SPECIFICATION Spec
\* A read whose local part failed stays on the transfer log for good
\* (MCDrbdResourceReadError.cfg), and a write acked by the peer waits on
\* it for its barrier ack, which a hung peer never sends: the timer only
\* looks at pending requests.  The device really stops there.
CHECK_DEADLOCK FALSE
INVARIANTS
  SingleCompletion
PROPERTIES
  MasterBiosComplete
