\* 2 KB blocks (two blocks per bit) on a device of eight blocks: a bit
\* cleared by a full sb_mask, set again by a failed write while
\* disconnected, is cleared by the first in-sync report of the next sync.
CONSTANTS
  None = None
  BitsPerByte = 2
  BytesPerLong = 2
  LN2_BPL = 2
  BlockSize = 2048
  DevBlocks = 8
  MaxConns = 2
  MaxFailures = 2
  MaxLog2Arg = 70
  ByteBits = 1
  LittleEndian = TRUE
  Magic = 11
  Nodes = {n1, n2}
  MaxIncs = 2
  MaxFaults = 2
SPECIFICATION MCBitmapSpec
INVARIANT BitmapCoversDirty
