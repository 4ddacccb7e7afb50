\* 4 KB blocks (one block per bit) on a device of eight blocks, whose bitmap
\* is two whole words; three failed writes and three connections, so a sync can
\* be cut short and resumed.
CONSTANTS
  None = None
  BitsPerByte = 2
  BytesPerLong = 2
  LN2_BPL = 2
  BlockSize = 4096
  DevBlocks = 8
  MaxConns = 3
  MaxFailures = 3
  MaxLog2Arg = 70
  ByteBits = 1
  LittleEndian = TRUE
  Magic = 11
  Nodes = {n1, n2}
  MaxIncs = 2
  MaxFaults = 2
SPECIFICATION MCSpec
SYMMETRY NodeSymmetry
INVARIANTS TypeOK BitmapCoversDirty ResyncComplete BmGetBnCorrect DrbdLog2Correct
\* The meta data of two nodes: counters bumped up to a sum of 2 per node,
\* two faults (crashes or failed md_writes).
INVARIANTS MdCompareLexicographic SyncDecisionAgrees MdPersistRoundTrip
