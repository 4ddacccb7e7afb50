\* 2 KB blocks on a device of twelve blocks: the bitmap has three bytes,
\* one and a half words, and bm_get_blocknr scans only the whole word.
CONSTANTS
  None = None
  BitsPerByte = 2
  BytesPerLong = 2
  LN2_BPL = 2
  BlockSize = 2048
  DevBlocks = 12
  MaxConns = 1
  MaxFailures = 1
  MaxLog2Arg = 70
  ByteBits = 1
  LittleEndian = TRUE
  Magic = 11
  Nodes = {n1, n2}
  MaxIncs = 2
  MaxFaults = 2
SPECIFICATION MCBitmapSpec
INVARIANT ResyncComplete
