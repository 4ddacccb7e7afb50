\* Four writes over a ring of five slots, with at most one lost connection
\* followed by tl_clear: tl_release's checks and the epoch-log refinement.
CONSTANTS
  r1 = r1
  r2 = r2
  r3 = r3
  r4 = r4
  None = None
  Reqs <- MCReqs4
  TlSize = 5
  MaxFaults = 1
SPECIFICATION Spec
INVARIANTS TypeOK TlReleaseConsistent
PROPERTIES EpochLogRefined
