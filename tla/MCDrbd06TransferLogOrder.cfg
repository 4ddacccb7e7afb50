\* Writes submitted after another one completed: its ack and local write
\* can both end before the sender's tl_add, so no barrier separates them.
CONSTANTS
  r1 = r1
  r2 = r2
  r3 = r3
  r4 = r4
  None = None
  Reqs <- MCReqs3
  TlSize = 4
  MaxFaults = 0
SPECIFICATION Spec
INVARIANT WriteOrderBarrier
