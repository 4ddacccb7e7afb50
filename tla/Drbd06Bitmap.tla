---------------------------- MODULE Drbd06Bitmap ----------------------------
(***************************************************************************)
(* The block bitmap of drbd 0.6 (src/drbd/drbd/drbd_main.c): one bit per *)
(* 4 KB chunk (BM_BLOCK_SIZE_B = 12), packed into unsigned longs.  A     *)
(* block whose write could not be sent is marked out of sync with         *)
(* bm_set_bit(..., 1); the syncer walks the set bits with bm_get_blocknr  *)
(* after bm_reset, and each block the peer confirms is marked in sync    *)
(* with bm_set_bit(..., 0).  With blocks smaller than 4 KB a bit covers   *)
(* 2^cb blocks and is only cleared once all of them were reported, which *)
(* sb_bitnr/sb_mask keep track of.                                        *)
(*                                                                         *)
(* The widths are scaled down: BitsPerByte and BytesPerLong replace 8    *)
(* and sizeof(long), LN2_BPL is the log2 of their product.  The device    *)
(* size and block size give the bitmap size exactly as bm_init and       *)
(* drbd_log2 compute them.  The syncer, the write path and the            *)
(* connection that call these functions are not under src/ and are       *)
(* modelled from spec.md: writes fail only while disconnected, the syncer *)
(* runs on a connection from bm_reset until MBDS_DONE or the loss.        *)
(***************************************************************************)
EXTENDS Integers, FiniteSets, Bitwise

CONSTANTS
  BitsPerByte,   \* 8 in the code
  BytesPerLong,  \* sizeof(unsigned long)
  LN2_BPL,       \* log2 of BITS_PER_LONG
  BlockSize,     \* 1 << blk_size_b, bytes per device block
  DevBlocks,     \* device size in blocks
  MaxConns,      \* bound on connections (sync rounds)
  MaxFailures,   \* bound on failed writes
  MaxLog2Arg,    \* largest argument drbd_log2 is checked for
  None           \* model value: no block in flight

BM_BLOCK_SIZE_B == 12
BPL == 2^LN2_BPL
MBDS_DONE == -1

ASSUME /\ BPL = BitsPerByte * BytesPerLong
       /\ BlockSize \in {512, 1024, 2048, 4096}
       /\ DevBlocks \in Nat \ {0}

(* drbd_log2: the number of halvings down to 1, plus one if a 1 bit was  *)
(* shifted out on the way (round up).                                     *)
RECURSIVE Log2Loop(_, _, _)
Log2Loop(i, bits, add_one) ==
  IF i = 1 THEN bits + add_one
  ELSE Log2Loop(i \div 2, bits + 1, IF i % 2 = 1 THEN 1 ELSE add_one)

(* Mutant: add_one taken from the last bit shifted out only. *)
RECURSIVE Log2LoopLast(_, _, _)
Log2LoopLast(i, bits, add_one) ==
  IF i = 1 THEN bits + add_one ELSE Log2LoopLast(i \div 2, bits + 1, i % 2)

DrbdLog2LastBit(i) == Log2LoopLast(i, 0, 0)

DrbdLog2(i) == Log2Loop(i, 0, 0)


(* bm_init: blk_size (in KB) >> (BM_BLOCK_SIZE_B - 7) bytes of bitmap,   *)
(* rounded down; the scaled form divides the device bytes by the bytes   *)
(* one bitmap byte covers.                                               *)
Size == (DevBlocks * BlockSize) \div (2^BM_BLOCK_SIZE_B * BitsPerByte)

ASSUME Size > 0

(* Word indices the code may touch: bm_set_bit's bound check compares a  *)
(* word index with Size, which counts bytes.                              *)
Words  == 0..(Size - 1)
Blocks == 0..(DevBlocks - 1)

(* drbd_init: the device's blk_size_b from drbd_log2 of the block size. *)
InitBlkSizeB == DrbdLog2(BlockSize)

VARIABLES
  blk_size_b,         \* mdev->blk_size_b, passed as ln2_block_size
  bm,                 \* unsigned long bm[], as integers
  sb_bitnr, sb_mask,  \* in-sync reports collected for one bit
  gb_bitnr, gb_snr,   \* syncer cursor: current bit, next block in it
  bm_msgs,            \* printk "BitMap too small!" logged
  conn,               \* "up" or "down"
  syncing,            \* "idle", "running" or "done"
  cur,                \* block handed to the syncer and not yet confirmed
  dirty,              \* blocks on which the peer may differ
  todo,               \* dirty blocks the current sync round must cover
  conns, failures

bmVars == <<bm, sb_bitnr, sb_mask, gb_bitnr, gb_snr, bm_msgs>>
vars == <<blk_size_b, bmVars, conn, syncing, cur, dirty, todo, conns, failures>>

(* cb of bm_set_bit and bm_get_blocknr: log2 of blocks per bit. *)
Cb == BM_BLOCK_SIZE_B - blk_size_b

Init ==
  /\ blk_size_b = InitBlkSizeB
  /\ bm = [w \in Words |-> 0]
  /\ sb_bitnr = 0 /\ sb_mask = 0 /\ gb_bitnr = 0 /\ gb_snr = 0
  /\ bm_msgs = {}
  /\ conn = "down" /\ syncing = "idle" /\ cur = None
  /\ dirty = {} /\ todo = {}
  /\ conns = 0 /\ failures = 0

-----------------------------------------------------------------------------
(* The bitmap operations as functions of the record B of the state under *)
(* bm_lock.                                                                *)

BmState ==
  [bm |-> bm, sb_bitnr |-> sb_bitnr, sb_mask |-> sb_mask,
   gb_bitnr |-> gb_bitnr, gb_snr |-> gb_snr, msgs |-> bm_msgs]

SetBm(B) ==
  /\ bm' = B.bm /\ sb_bitnr' = B.sb_bitnr /\ sb_mask' = B.sb_mask
  /\ gb_bitnr' = B.gb_bitnr /\ gb_snr' = B.gb_snr /\ bm_msgs' = B.msgs

(* The bit of bitnr, read from its word. *)
BitIsSet(B, bitnr) ==
  /\ bitnr \div BPL \in Words
  /\ (B.bm[bitnr \div BPL] \div 2^(bitnr % BPL)) % 2 = 1

(* The final store of bm_set_bit, behind its bound check. *)
BmWrite(B, bitnr, bit) ==
  LET w == bitnr \div BPL
      k == bitnr % BPL
  IN  IF w >= Size THEN [B EXCEPT !.msgs = @ \cup {"too_small"}]
      ELSE [B EXCEPT !.bm[w] = IF bit = 1 THEN @ | 2^k
                               ELSE @ & (2^BPL - 1 - 2^k)]

(* Mutant: the word index taken in bytes, as the bound check does. *)
BmSetBitByteIndex(B, blocknr, bit) ==
  LET bitnr == blocknr \div 2^Cb
      w == bitnr \div BitsPerByte
  IN  IF w >= Size THEN B
      ELSE [B EXCEPT !.bm[w] = IF bit = 1 THEN @ | 2^(bitnr % BPL)
                               ELSE @ & (2^BPL - 1 - 2^(bitnr % BPL))]

(* bm_set_bit: an in-sync report for a bit covering several blocks only  *)
(* clears it once sb_mask has collected all of them; a report for another *)
(* bit starts a new mask.  sb_mask is not reset when it fills.             *)
BmSetBit(B, blocknr, bit) ==
  LET bitnr == blocknr \div 2^Cb
      sub   == blocknr % 2^Cb
      full  == 2^(2^Cb) - 1
  IN  IF bit = 0 /\ Cb > 0
      THEN IF B.sb_bitnr = bitnr
           THEN LET X == [B EXCEPT !.sb_mask = @ | 2^sub]
                IN  IF X.sb_mask # full THEN X ELSE BmWrite(X, bitnr, bit)
           ELSE [B EXCEPT !.sb_bitnr = bitnr, !.sb_mask = 2^sub]
      ELSE BmWrite(B, bitnr, bit)

(* bm_get_bn: the next set bit of word after bit nr, or -1. *)
RECURSIVE GetBnLoop(_, _)
GetBnLoop(word, nr) ==
  IF word % 2 = 1 THEN nr
  ELSE IF nr + 1 = BPL THEN -1
  ELSE GetBnLoop(word \div 2, nr + 1)

(* Mutant: the last bit of a word never reported. *)
BmGetBnEarlyEnd(word, nr) ==
  IF nr >= BPL - 2 THEN -1 ELSE GetBnLoop(shiftR(word, nr + 1), nr + 1)

BmGetBn(word, nr) ==
  IF nr = BPL - 1 THEN -1 ELSE GetBnLoop(shiftR(word, nr + 1), nr + 1)

(* bm_get_blocknr's nw: whole words in the bitmap, rounded down. *)
NW == Size \div BytesPerLong

(* Mutant: the scan stops one word early. *)
RECURSIVE ScanWordsShort(_, _)
ScanWordsShort(B, wnr) ==
  IF wnr >= NW - 1 THEN -1
  ELSE LET bnr == BmGetBn(B.bm[wnr], IF wnr = B.gb_bitnr \div BPL
                                     THEN B.gb_bitnr % BPL ELSE -1)
       IN  IF B.bm[wnr] # 0 /\ bnr # -1 THEN wnr * BPL + bnr
           ELSE ScanWordsShort(B, wnr + 1)

(* The for loop of bm_get_blocknr: from the cursor's word up to nw, the  *)
(* first set bit after the cursor, as a bit number, or -1.                *)
RECURSIVE ScanWords(_, _)
ScanWords(B, wnr) ==
  IF wnr >= NW THEN -1
  ELSE LET bnr == BmGetBn(B.bm[wnr], IF wnr = B.gb_bitnr \div BPL
                                     THEN B.gb_bitnr % BPL ELSE -1)
       IN  IF B.bm[wnr] # 0 /\ bnr # -1 THEN wnr * BPL + bnr
           ELSE ScanWords(B, wnr + 1)

(* Mutant: the block number taken after incrementing gb_snr. *)
OutPreIncrement(B) ==
  [B |-> [B EXCEPT !.gb_snr = @ + 1],
   rv |-> B.gb_bitnr * 2^Cb + B.gb_snr + 1]

(* The out: label: the next block of the current bit. *)
Out(B) ==
  [B |-> [B EXCEPT !.gb_snr = @ + 1], rv |-> B.gb_bitnr * 2^Cb + B.gb_snr]

(* bm_get_blocknr: once every block of the current bit was handed out,   *)
(* move to the next set bit, or report MBDS_DONE.                        *)
BmGetBlocknr(B) ==
  IF B.gb_snr >= 2^Cb
  THEN LET hit == ScanWords(B, B.gb_bitnr \div BPL) IN
       IF hit = -1 THEN [B |-> B, rv |-> MBDS_DONE]
       ELSE Out([B EXCEPT !.gb_bitnr = hit, !.gb_snr = 0])
  ELSE Out(B)

(* bm_reset: back to bit 0, which is handed out first if set. *)
BmReset(B) ==
  [B EXCEPT !.gb_bitnr = 0,
            !.gb_snr = IF B.bm[0] % 2 = 1 THEN 0 ELSE 2^Cb]

-----------------------------------------------------------------------------
(* A write to block b cannot be sent while the connection is down:        *)
(* drbd_send_data (or tl_clear) marks the block out of sync.              *)
FailWrite(b) ==
  /\ conn = "down" /\ failures < MaxFailures /\ b \notin dirty
  /\ SetBm(BmSetBit(BmState, b, 1))
  /\ dirty' = dirty \cup {b}
  /\ failures' = failures + 1
  /\ UNCHANGED <<blk_size_b, conn, syncing, cur, todo, conns>>

(* A connection comes up and the syncer starts over with bm_reset. *)
Connect ==
  /\ conn = "down" /\ conns < MaxConns
  /\ SetBm(BmReset(BmState))
  /\ conn' = "up" /\ syncing' = "running" /\ todo' = dirty
  /\ conns' = conns + 1
  /\ UNCHANGED <<blk_size_b, cur, dirty, failures>>

(* The syncer asks bm_get_blocknr for the next block to send. *)
SyncNext ==
  /\ conn = "up" /\ syncing = "running" /\ cur = None
  /\ LET g == BmGetBlocknr(BmState) IN
     /\ SetBm(g.B)
     /\ IF g.rv = MBDS_DONE
        THEN syncing' = "done" /\ UNCHANGED cur
        ELSE cur' = g.rv /\ UNCHANGED syncing
  /\ UNCHANGED <<blk_size_b, conn, dirty, todo, conns, failures>>

(* The peer confirms the block: it is marked in sync. *)
SyncAck ==
  /\ conn = "up" /\ cur # None
  /\ SetBm(BmSetBit(BmState, cur, 0))
  /\ dirty' = dirty \ {cur} /\ todo' = todo \ {cur}
  /\ cur' = None
  /\ UNCHANGED <<blk_size_b, conn, syncing, conns, failures>>

(* The connection is lost; a sync in progress stops, its block unconfirmed. *)
Disconnect ==
  /\ conn = "up"
  /\ conn' = "down" /\ cur' = None
  /\ syncing' = IF syncing = "running" THEN "idle" ELSE syncing
  /\ UNCHANGED <<blk_size_b, bmVars, dirty, todo, conns, failures>>

(* A device with no sync running may stay as it is. *)
Idle ==
  /\ syncing # "running"
  /\ UNCHANGED vars

Next ==
  \/ \E b \in Blocks : FailWrite(b)
  \/ Connect \/ SyncNext \/ SyncAck \/ Disconnect
  \/ Idle

Spec == Init /\ [][Next]_vars

-----------------------------------------------------------------------------
(* Every variable holds a value of its kind; in particular the syncer is  *)
(* only ever handed blocks of the device.                                 *)
TypeOK ==
  /\ blk_size_b \in 9..BM_BLOCK_SIZE_B
  /\ bm \in [Words -> 0..(2^BPL - 1)]
  /\ sb_mask \in 0..(2^(2^Cb) - 1)
  /\ gb_snr \in 0..2^Cb
  /\ cur \in Blocks \cup {None}
  /\ dirty \subseteq Blocks /\ todo \subseteq dirty
  /\ conn \in {"up", "down"} /\ syncing \in {"idle", "running", "done"}

(* A block the peer may lack is either in flight to the syncer, still to *)
(* be handed out from the bit the syncer is on, or has its bit set, so   *)
(* the next sync round finds it: bm_set_bit never clears a bit that      *)
(* still stands for an unsynced block.                                    *)
Pending(b) ==
  /\ syncing = "running"
  /\ b \div 2^Cb = gb_bitnr /\ b % 2^Cb >= gb_snr

BitmapCoversDirty ==
  \A b \in dirty : b = cur \/ Pending(b) \/ BitIsSet(BmState, b \div 2^Cb)

(* When bm_get_blocknr reports MBDS_DONE, every block that was out of    *)
(* sync when the round started has been handed out and confirmed.        *)
ResyncComplete == syncing = "done" => todo = {}

(* bm_get_bn returns the lowest set bit above nr, or -1, for every word  *)
(* of the bitmap and every start bit the scan can pass it.                *)
BmGetBnCorrect ==
  \A word \in {bm[w] : w \in Words}, nr \in -1..(BPL - 1) :
    LET above == {j \in (nr + 1)..(BPL - 1) : (word \div 2^j) % 2 = 1}
    IN  BmGetBn(word, nr) =
          IF above = {} THEN -1 ELSE CHOOSE j \in above : \A k \in above : j <= k

(* drbd_log2 is the rounded-up binary logarithm: blk_size_b gives back   *)
(* the block size, and the result is right for every argument up to      *)
(* MaxLog2Arg (the loop never ends for 0).                                *)
CeilLog2(i) == CHOOSE k \in 0..i : 2^k >= i /\ (k = 0 \/ 2^(k - 1) < i)

DrbdLog2Correct ==
  /\ 2^blk_size_b = BlockSize
  /\ \A i \in 1..MaxLog2Arg : DrbdLog2(i) = CeilLog2(i)

=============================================================================
