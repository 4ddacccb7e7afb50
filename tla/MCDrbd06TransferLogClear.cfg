\* A connection lost while the sender is between drbd_send and tl_add:
\* tl_clear runs first and the request enters the ring after it.
CONSTANTS
  r1 = r1
  r2 = r2
  r3 = r3
  r4 = r4
  None = None
  Reqs <- MCReqs3
  TlSize = 4
  MaxFaults = 1
SPECIFICATION Spec
INVARIANT TlClearLeavesNothing
