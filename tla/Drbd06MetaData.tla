--------------------------- MODULE Drbd06MetaData ---------------------------
(***************************************************************************)
(* The generation counters of drbd 0.6 (src/drbd/drbd/drbd_main.c) and    *)
(* the functions that store, send and compare them:                        *)
(*                                                                         *)
(*   drbd_md_write   the state file: gen_cnt[0..PrimaryInd] and the magic  *)
(*                   word, big-endian, PrimaryInd set from the role;       *)
(*   drbd_md_read    reads it back, or falls back to counters of 1 and     *)
(*                   writes those when the file is short or the magic is  *)
(*                   wrong;                                                *)
(*   drbd_send_param the ReportParams packet, counters big-endian;         *)
(*   drbd_md_compare who has the good data, from the peer's packet;        *)
(*   drbd_md_syncq_ok whether a quick (bitmap) sync is enough;             *)
(*   drbd_md_inc     bumps one counter.                                    *)
(*                                                                         *)
(* They are operators on values, used by a state machine of two nodes:    *)
(* counters in memory, the state file on disk, md_write in two steps      *)
(* (open with O_TRUNC, then the write) with its error paths, a crash and  *)
(* a start (drbd_init, then drbd_md_read).  When the counters are bumped  *)
(* is decided by callers not under src/ (the receiver's handshake, the    *)
(* ioctls) and is left free within bounds.  Widths are scaled: a          *)
(* byte has ByteBits bits and a u32 four such bytes, so that               *)
(* cpu_to_be32 reorders bytes of small counters as it does on a            *)
(* little-endian host.                                                     *)
(***************************************************************************)
EXTENDS Integers, Sequences, FiniteSets

CONSTANTS
  ByteBits,      \* 8 in the code
  LittleEndian,  \* the host's byte order: cpu_to_be32 swaps bytes
  Magic,         \* DRBD_MAGIC, scaled to the u32 width
  Nodes,         \* the two nodes of a connection
  MaxIncs,       \* bound on the bitmap-gen counters of a node (their sum)
  MaxFaults      \* bound on crashes and failed md_writes

(* enum MetaDataIndex (drbd.h, not under src/): the loops run            *)
(* HumanCnt..ArbitraryCnt and 0..PrimaryInd, and buffer[6] holds the      *)
(* magic at MagicNr (spec.md: u32 gen_cnt[5]; u32 magic).                 *)
Consistent   == 0
HumanCnt     == 1
ConnectedCnt == 2
ArbitraryCnt == 3
PrimaryInd   == 4
MagicNr      == 5

U32 == 2^(4 * ByteBits)
Ind == 0..PrimaryInd
BmInd == HumanCnt..ArbitraryCnt

ASSUME /\ ByteBits \in Nat \ {0} /\ LittleEndian \in BOOLEAN
       /\ Magic \in 0..(U32 - 1) /\ Cardinality(Nodes) = 2
       /\ MaxIncs \in Nat /\ MaxFaults \in Nat

(* cpu_to_be32 and be32_to_cpu: the bytes of a u32 in reverse order on a *)
(* little-endian host, the identity on a big-endian one.                 *)
ByteOf(x, k) == (x \div 2^(k * ByteBits)) % 2^ByteBits

Be32(x) ==
  IF LittleEndian
  THEN ByteOf(x, 0) * 2^(3 * ByteBits) + ByteOf(x, 1) * 2^(2 * ByteBits)
       + ByteOf(x, 2) * 2^ByteBits + ByteOf(x, 3)
  ELSE x

(* drbd_md_inc: one counter up, as a u32. *)
DrbdMdInc(gen, order) == [gen EXCEPT ![order] = (@ + 1) % U32]

(* drbd_send_param: the counters as they go on the wire. *)
ParamGen(gen) == [i \in Ind |-> Be32(gen[i])]

(* Mutation of MdWrite: the magic word stored without cpu_to_be32. *)
MdWriteRawMagic(gen, primary) ==
  LET g == [gen EXCEPT ![PrimaryInd] = IF primary THEN 1 ELSE 0]
  IN  [gen  |-> g,
       file |-> [k \in 1..(MagicNr + 1) |->
                   IF k - 1 = MagicNr THEN Magic ELSE Be32(g[k - 1])]]

(* drbd_md_write: PrimaryInd is set from the role, then buffer[0..4] are  *)
(* the counters and buffer[MagicNr] the magic, all big-endian.  The file  *)
(* is the sequence of words written (buffer[i] at position i + 1).        *)
MdWrite(gen, primary) ==
  LET g == [gen EXCEPT ![PrimaryInd] = IF primary THEN 1 ELSE 0]
  IN  [gen  |-> g,
       file |-> [k \in 1..(MagicNr + 1) |->
                   IF k - 1 = MagicNr THEN Be32(Magic) ELSE Be32(g[k - 1])]]

(* drbd_md_read: a file of the full size whose magic matches gives the   *)
(* counters; anything else (no file, a short read, a wrong magic) gives  *)
(* counters of 1 with PrimaryInd from the role, which drbd_md_write then *)
(* stores.                                                                *)
MdReadOk(file) ==
  Len(file) = MagicNr + 1 /\ Be32(file[MagicNr + 1]) = Magic

MdRead(file, primary) ==
  IF MdReadOk(file)
  THEN [i \in Ind |-> Be32(file[i + 1])]
  ELSE [i \in Ind |-> IF i = PrimaryInd THEN IF primary THEN 1 ELSE 0 ELSE 1]

(* Mutation of CompareFrom: the partner's counter used without           *)
(* be32_to_cpu.                                                           *)
RECURSIVE CompareFromRaw(_, _, _)
CompareFromRaw(me, partner, i) ==
  IF i > PrimaryInd THEN 0
  ELSE IF me[i] > partner[i] THEN 1
  ELSE IF me[i] < partner[i] THEN -1
  ELSE CompareFromRaw(me, partner, i + 1)

(* The loop of drbd_md_compare from index i: the first counter that      *)
(* differs decides, 0 if none does.                                       *)
RECURSIVE CompareFrom(_, _, _)
CompareFrom(me, partner, i) ==
  IF i > PrimaryInd THEN 0
  ELSE LET other == Be32(partner[i]) IN
       IF me[i] > other THEN 1
       ELSE IF me[i] < other THEN -1
       ELSE CompareFrom(me, partner, i + 1)

(* drbd_md_compare: 1 if I have the good bits, -1 if the partner has,    *)
(* 0 if both are fine; partner is the packet's gen_cnt.                   *)
DrbdMdCompare(me, partner) == CompareFrom(me, partner, 0)

(* Mutation of DrbdMdSyncqOk: the partner's PrimaryInd read without     *)
(* be32_to_cpu.                                                           *)
DrbdMdSyncqOkRawPrimary(me, bmgen, partner, have_good) ==
  IF \/ have_good /\ Be32(partner[Consistent]) = 0
     \/ ~have_good /\ me[Consistent] = 0
  THEN 0
  ELSE IF \/ have_good /\ partner[PrimaryInd] = 1
          \/ ~have_good /\ me[PrimaryInd] = 1
  THEN 0
  ELSE IF have_good /\ \E i \in BmInd : bmgen[i] # Be32(partner[i])
  THEN 0
  ELSE 1

(* drbd_md_syncq_ok: 1 if SyncingQuick is enough, 0 if SyncAll is       *)
(* needed.  A crash during sync (Consistent = 0) or of a primary          *)
(* (PrimaryInd = 1) on the side that receives the sync forces SyncAll;   *)
(* the side with the good data also forces it when the bitmap's          *)
(* generation (bit_map_gen) is not the partner's.                         *)
DrbdMdSyncqOk(me, bmgen, partner, have_good) ==
  IF \/ have_good /\ Be32(partner[Consistent]) = 0
     \/ ~have_good /\ me[Consistent] = 0
  THEN 0
  ELSE IF \/ have_good /\ Be32(partner[PrimaryInd]) = 1
          \/ ~have_good /\ me[PrimaryInd] = 1
  THEN 0
  ELSE IF have_good /\ \E i \in BmInd : bmgen[i] # Be32(partner[i])
  THEN 0
  ELSE 1

-----------------------------------------------------------------------------
(* Two nodes: the counters in memory (drbd_conf[].gen_cnt), the state     *)
(* file, and whether md_write is between its open and its write.          *)
VARIABLES
  gen,       \* node -> gen_cnt[0..PrimaryInd]
  file,      \* node -> the words of the state file, as on disk
  wr,        \* node -> "idle", or "open" when the file is truncated
  alive,     \* node -> the module is loaded
  primary,   \* node -> drbd_conf[].state == Primary
  md_err,    \* node -> the last md_write logged "Error writing state file"
  faults     \* crashes and failed md_writes so far

mdVars == <<gen, file, wr, alive, primary, md_err, faults>>

SumBm(g) == g[HumanCnt] + g[ConnectedCnt] + g[ArbitraryCnt]

Zeros == [i \in Ind |-> 0]

(* State files a node may find at its first start: none, or one written *)
(* by drbd_md_write in an earlier life, under either role.               *)
PriorFiles ==
  {<<>>} \cup {MdWrite([Zeros EXCEPT ![Consistent] = c], p).file :
                 c \in {0, 1}, p \in BOOLEAN}

(* drbd_init: counters zeroed, the module not yet started. *)
MdInit ==
  /\ primary \in [Nodes -> BOOLEAN]
  /\ file \in [Nodes -> PriorFiles]
  /\ gen = [n \in Nodes |-> Zeros]
  /\ wr = [n \in Nodes |-> "idle"]
  /\ alive = [n \in Nodes |-> FALSE]
  /\ md_err = [n \in Nodes |-> FALSE]
  /\ faults = 0

(* The first half of drbd_md_write on node n with counters g: PrimaryInd *)
(* from the role, then filp_open with O_TRUNC, which either truncates the *)
(* file or fails (goto err: logged, nothing written).                     *)
BeginWrite(n, g) ==
  /\ gen' = [gen EXCEPT ![n] = MdWrite(g, primary[n]).gen]
  /\ \/ /\ file' = [file EXCEPT ![n] = <<>>]
        /\ wr' = [wr EXCEPT ![n] = "open"]
        /\ UNCHANGED <<md_err, faults>>
     \/ /\ faults < MaxFaults
        /\ md_err' = [md_err EXCEPT ![n] = TRUE]
        /\ faults' = faults + 1
        /\ UNCHANGED <<file, wr>>

(* A counter is bumped (drbd_md_inc) and the state written: spec.md has *)
(* the file written on every state transition.                           *)
Inc(n, order) ==
  /\ alive[n] /\ wr[n] = "idle" /\ SumBm(gen[n]) < MaxIncs
  /\ BeginWrite(n, DrbdMdInc(gen[n], order))
  /\ UNCHANGED <<alive, primary>>

(* The second half of drbd_md_write: f_op->write of the buffer, which    *)
(* either writes all of it or comes up short (logged, not retried).      *)
WriteData(n) ==
  /\ wr[n] = "open"
  /\ LET full == MdWrite(gen[n], primary[n]).file IN
     \/ /\ file' = [file EXCEPT ![n] = full]
        /\ md_err' = [md_err EXCEPT ![n] = FALSE]
        /\ UNCHANGED faults
     \/ /\ faults < MaxFaults
        /\ \E k \in 0..MagicNr : file' = [file EXCEPT ![n] = SubSeq(full, 1, k)]
        /\ md_err' = [md_err EXCEPT ![n] = TRUE]
        /\ faults' = faults + 1
  /\ wr' = [wr EXCEPT ![n] = "idle"]
  /\ UNCHANGED <<gen, alive, primary>>

(* The node goes down at any point, a write in progress included: the   *)
(* file stays as far as it got, the counters in memory are lost.         *)
Crash(n) ==
  /\ alive[n] /\ faults < MaxFaults
  /\ alive' = [alive EXCEPT ![n] = FALSE]
  /\ gen' = [gen EXCEPT ![n] = Zeros]
  /\ wr' = [wr EXCEPT ![n] = "idle"]
  /\ faults' = faults + 1
  /\ UNCHANGED <<file, primary, md_err>>

(* The module is loaded: drbd_init zeroes the counters and drbd_md_read  *)
(* takes them from the file, or falls back and calls drbd_md_write.      *)
Start(n) ==
  /\ ~alive[n]
  /\ alive' = [alive EXCEPT ![n] = TRUE]
  /\ IF MdReadOk(file[n])
     THEN /\ gen' = [gen EXCEPT ![n] = MdRead(file[n], primary[n])]
          /\ md_err' = [md_err EXCEPT ![n] = FALSE]
          /\ UNCHANGED <<file, wr, faults>>
     ELSE BeginWrite(n, MdRead(file[n], primary[n]))
  /\ UNCHANGED primary

(* The counters may stay as they are for good. *)
MdIdle == UNCHANGED mdVars

MdNext ==
  \/ \E n \in Nodes :
       \/ Start(n) \/ Crash(n) \/ WriteData(n)
       \/ \E order \in BmInd : Inc(n, order)
  \/ MdIdle

MdSpec == MdInit /\ [][MdNext]_mdVars

-----------------------------------------------------------------------------
(* Reference: the lexicographic order of the counter tuples (spec.md,    *)
(* handshake: "generation counters compare lexicographically over the    *)
(* ordered tuple").                                                       *)
LexCompare(a, b) ==
  LET d == {i \in Ind : a[i] # b[i]}
      i0 == CHOOSE i \in d : \A j \in d : i <= j
  IN  IF d = {} THEN 0 ELSE IF a[i0] > b[i0] THEN 1 ELSE -1

(* drbd_md_compare, reading the partner's counters from the ReportParams *)
(* drbd_send_param built, orders the two nodes' counters                  *)
(* lexicographically, whatever bumps, failed writes, crashes and starts   *)
(* brought them to; so both ends reach opposite verdicts and exactly one  *)
(* side takes the good data.                                              *)
MdCompareLexicographic ==
  \A m, n \in Nodes :
    DrbdMdCompare(gen[m], ParamGen(gen[n])) = LexCompare(gen[m], gen[n])

(* On a handshake where live node a has the good data and b receives it, *)
(* a's drbd_md_syncq_ok allows a quick sync exactly when b did not crash *)
(* during a sync or as primary and a's bitmap generation (bit_map_gen,   *)
(* set outside src/, so any value) equals b's bitmap-gen counters        *)
(* (spec.md: a mismatch forces a full resync); and b, judging its own    *)
(* counters, never asks for a full sync that a would not run.            *)
SyncDecisionAgrees ==
  \A a, b \in Nodes :
    (/\ a # b /\ alive[a] /\ alive[b]
     /\ DrbdMdCompare(gen[a], ParamGen(gen[b])) = 1)
    => LET qb == DrbdMdSyncqOk(gen[b], gen[b], ParamGen(gen[a]), FALSE) IN
       \A bm \in [BmInd -> 0..MaxIncs] :
         LET qa == DrbdMdSyncqOk(gen[a], bm, ParamGen(gen[b]), TRUE) IN
         /\ qa = 1 <=> /\ gen[b][Consistent] # 0 /\ gen[b][PrimaryInd] # 1
                       /\ \A i \in BmInd : bm[i] = gen[b][i]
         /\ qb = 0 => qa = 0

(* A live node whose last drbd_md_write completed holds the counters its *)
(* state file gives back: drbd_md_read of the file, after any crash and  *)
(* start, takes the file and yields exactly the counters in memory.      *)
MdPersistRoundTrip ==
  \A n \in Nodes :
    alive[n] /\ wr[n] = "idle" /\ ~md_err[n] =>
      /\ MdReadOk(file[n])
      /\ MdRead(file[n], primary[n]) = gen[n]

=============================================================================
