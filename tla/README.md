# DRBD request path in TLA+

This directory holds TLA+ models of the request path of DRBD as it stands in
`src/drbd/drbd_req.c`, and of the drbd 0.6 transfer-log ring and block bitmap
in `src/drbd/drbd/drbd_main.c`, with the TLC configurations that check them.
`PROJECT.json` lists the components, runs, mutants, findings and hazards, and
maps every model definition to the source lines it translates.

## The system

`src/` holds two files of different ages:

* `src/drbd/drbd_req.c` (8.4 / 9 development era) is the request layer. It
  contains the following parts:
  * `drbd_make_request` / `__drbd_make_request` route an upper-layer bio.
  * The `__req_mod` state machine keeps each request's `rq_state` flags.
  * The completion logic runs after every event:
    `req_may_be_completed` → `req_may_be_done` → `_req_is_done`.
  * The transfer log with its epochs: `current_tle_nr`,
    `current_tle_writes` and `start_new_tl_epoch`.
  * The conflict wait: `complete_conflicting_writes` and `misc_wait`.
  * Read routing: `find_peer_device_for_read`.
  * The request timer.
* `src/drbd/drbd/drbd_main.c` is drbd 0.6. It contains the following parts:
  * a fixed ring transfer log: `tl_add`, `tl_release`, `tl_clear`;
  * the block bitmap;
  * meta-data generation counters;
  * socket sending with a timeout;
  * thread and module plumbing.

Several actors touch a request, each under `resource->req_lock`:

* the submitter;
* the local disk's completion (`drbd_request_endio`);
* the sender thread (`w_send_dblock`, `w_send_read_req`, barriers);
* the ack receiver, which turns peer answers into `__req_mod` events and runs
  `tl_release` on barrier acks;
* the worker that runs `tl_clear` after the connection is lost;
* the peer itself.

Each of these clears some of the request's flags, in any order. The last one
completes the master bio and frees the request.

The sender, the receiver and ack receiver, `tl_release`, `tl_clear` and
`drbd_request_endio` are not under `src/`. They are modelled from `spec.md`
(sections on the sender, the ack receiver and connection loss), and their map
entries are marked `spec_modelled`.

## Modules

* **`DrbdRequest.tla`** is the per-request state machine.
  * All state protected by `req_lock` is one record `L`, as a value:
    * `req`, with the flags as a set of names;
    * `pc`;
    * `tl`;
    * `wr`/`rd` (the interval trees);
    * `work` (`sender_work`);
    * `tle_nr`, `tle_writes`;
    * `ap_pending`, `ap_in_flight`;
    * `oos` (the bitmap);
    * `endio` (every `bio_endio` of each master bio).
  * Each event of `__req_mod` is one operator from `L` to `L`:
    * `ToBeSent`, `ToBeSubmitted`, `CompletedOk`;
    * `WriteCompletedWithError`, `ReadCompletedWithError`;
    * `QueueForNetRead`, `QueueForNetWrite`;
    * `SendCanceled`, `HandedOverToNetwork`;
    * `ConnectionLostWhilePending`, `AckedByPeer`, `NegAcked`;
    * `BarrierAcked`, `DataReceived`.
  * Each event ends in the completion logic, exactly where the code calls it:
    `ReqMayBeCompleted`, `CompleteMasterBio`, `ReqMayBeDone`, `ReqIsDone`.
  * Flag names, counters and the order of the updates follow the code line
    by line.
* **`DrbdResource.tla`** composes the actors around it. Each step that takes
  the lock reads `Locked`, applies the code's sequence of `DrbdRequest`
  operators and writes the result with `Commit`.
  * `Submit`, `Retry` and `Woken` are the router (`EnterLocked`,
    `MakeRequestLocked`, `DrbdProcessWriteRequest`):
    * `Submit`: `drbd_make_request`;
    * `Retry`: `drbd_restart_write` of a postponed read;
    * `Woken`: a writer woken on `misc_wait`.
  * `LocalEndio` is the disk's completion, successful or failed.
  * The sender:
    * `SenderSend` writes frames, first a `Barrier` when a new epoch starts
      (`MaybeSendBarrier`);
    * `SenderDone` is `HANDED_OVER_TO_NETWORK` or `SEND_FAILED`;
    * `SenderCancel`;
    * `SenderIdleBarrier`.
  * The peer: `PeerReceive` applies data and answers with `WriteAck`,
    `RecvAck`, `NegAck`, `BarrierAck`, `DataReply` or `NegDReply`.
  * `AckReceive` is the ack receiver. An answer whose request is not in its
    interval tree, or a barrier ack that `TlRelease` cannot match, leads to
    `ProtocolError`.
  * The connection: `ConnLost` drops both sockets, `TlClear` runs `tl_clear`,
    and `Connect` re-establishes the link. `PeerHang` is a fault: the peer's
    receiver stops reading (a hung or overloaded peer) until the sockets are
    dropped.
  * The request timer (`RequestTimerFn`, with `FindOldestRequest`). Time is
    abstracted to the order of `start_time`s: `started` lists the requests in
    the order `drbd_make_request` stamped them, and `aged` says how many of
    them are older than `ent`. `Tick` lets time pass by one more request.
    `Expired(r)` is `time_after(now, r->start_time + et)`. With
    `disk_timeout` 0 (the default) only the network branch exists: an
    expired `NET_PENDING` oldest request on a connected peer moves the
    connection to `C_TIMEOUT` (drbd_req.c:1256) and drops the sockets. The
    model folds `C_TIMEOUT` into its one teardown state, `Disconnecting`,
    which leads to `tl_clear` like every other connection failure.
  * `Quiescent` is the idle end state once every request is freed.
* **`MCDrbdResource.tla`** supplies the model values for TLC.
* **`DrbdRequestLifecycle.tla`** is the abstract specification of what the
  request layer promises the upper layer (`spec.md` P1, P2, P5, P7, P8).
  * Each request goes `idle → pending → completed → freed`, possibly several
    phases in one step.
  * Its `result` (the `bio_endio` calls) is set exactly once, on reaching
    `completed`.
  * A successful B/C write must be in `durable` at that moment.
  * Every request that left `idle` is eventually freed.
  * `DrbdResource` defines the refinement mapping `Life`:
    * `LifecyclePhase` derives the phase from `pc` and `endio`;
    * `result` is `endio`;
    * `durable` is `ldone ∪ peer_has`.

    `LifecycleRefined == Life!Spec` is checked as a temporal property.
* **`Drbd06TransferLog.tla`** models the drbd 0.6 transfer log in
  `drbd_main.c`. It is a ring of `conf.tl_size` slots between `tl_begin` and
  `tl_end`, holding request pointers, `TL_BARRIER` and `TL_EMPTY`.
  * The ring operations are operators on a record of the state under
    `tl_lock`:
    * `TlAdd` and `TlAddBarrier`;
    * `TlRelease`, with the recursive `ReleaseWalk` for its do-while;
    * `TlDependence`, with the recursive backward `DepWalk`;
    * `LiveFrom`, the walk of `tl_clear`.
  * The actions:
    * `SendData(r)` is `drbd_send_data` up to the return of `drbd_send`,
      with the barrier it puts first when `ISSUE_BARRIER` is set. On a broken
      connection it takes the failure path (bitmap, error end) instead.
    * `TlAddSent(r)` is the rest of `drbd_send_data`: `tl_add`, then
      `send_mutex` released. The two are separate steps because the code
      releases nothing between them but the asender takes no `send_mutex`.
    * `PeerReceive` and `AckReceive` are the peer and the asender, modelled
      from `spec.md`. A block ack ends the request's network half
      (`RQ_DRBD_SENT`, counted in `ends`). A BarrierAck runs `tl_release`.
    * `LocalDone(r)` is the local disk's completion (`RQ_DRBD_WRITTEN`,
      recorded in `written`), modelled from `spec.md`.
    * A request completes (`done`) when its second half ends. `Complete(r)`
      then runs `tl_dependence` and sets `ISSUE_BARRIER` when it returns
      TRUE. The comments at `drbd_main.c:161` and `307-313` place
      `tl_dependence` at I/O completion.
    * `ConnLost` is `drbd_send`'s Timeout/BrokenPipe path.
    * `TlClear` is `tl_clear` followed by `tl_init`. It marks every pointer
      in the ring out of sync. It ends the request unless
      `(rq_status & 0xfffe) == RQ_DRBD_SENT`, meaning the network half has
      ended and the local half has not. A `WRITTEN` request ended there
      completes.
    * A pointer left in the ring to a request that has already completed is
      stale. Its `rq_status` is read from a request already handed back, so
      `TlClear` may end it again or skip it. Both outcomes are modelled.
      The pointer is left behind when a write completes before its
      `tl_add` (the `tl06_ack_before_tl_add` race). After a connection loss,
      `tl_clear` can then end that request a second time. TLC reaches this
      in seven steps. It is listed as a hazard and has no run, because the
      outcome depends on `drbd_end_req`, which is not under `src/`.
  * `tl_msgs` records the `printk`s of the ring code, the only reaction the
    code has to a full ring or a mismatched BarrierAck.
  * `EpochLog` maps the ring to `Drbd06EpochLog`. The entries from
    `tl_begin` up to `tl_end` are split at the barriers into epochs.
    `RingEntries` reads them, `OpenEntries` drops the resting barrier and
    `EpochsOf` splits them. `ISSUE_BARRIER` maps to `issue`. The out-of-sync
    writes that did not fail to send map to `marked`. A "too small" message
    maps to `broken`.
    * The barrier at `tl_begin` is dropped only once an epoch has been
      released since `tl_init`. After `tl_clear`, `ISSUE_BARRIER` is still
      set, so the next send, even a failing one, puts a barrier into slot 0
      of the fresh ring. That barrier closes an (empty) epoch and is no
      resting mark. A failing send takes a barrier number that never
      reaches the wire, so `barrier_nr_issue` runs one ahead of the peer on
      the next connection; see the hazards.
* **`Drbd06EpochLog.tla`** is the abstract transfer log of `spec.md` §4.1:
  a sequence of epochs, each a count of its writes and the set still
  unacked. Its actions are:
  * `Add(r)`, which is `tl_add`;
  * `NewEpoch`, a barrier;
  * `Release`, a BarrierAck;
  * `Dependence(r)`, a write's completion;
  * `Clear`.

  It says nothing of the ring, its indices or its wrap. Once the ring has
  overflowed, any step is allowed.
* **`Drbd06Bitmap.tla`** models the drbd 0.6 bitmap.
  * `bm` is the array of `unsigned long` words as integers. The widths are
    scaled: two bits per byte, two bytes per long. `Size` and `Cb` are
    computed as `bm_init` and `drbd_log2` compute them.
  * The operators are `BmSetBit` (with the `sb_bitnr`/`sb_mask` collection of
    in-sync reports), `BmGetBn`, `BmGetBlocknr` (with `ScanWords`, `NW` and
    `Out`), `BmReset` and `DrbdLog2`. `BmGetBn` and `DrbdLog2` are recursive.
  * The actions:
    * `FailWrite` is `drbd_send_data`'s `bm_set_bit(SS_OUT_OF_SYNC)` for a
      write that cannot be sent;
    * `Connect` (`bm_reset`), `SyncNext` (`bm_get_blocknr`), `SyncAck`
      (`bm_set_bit(SS_IN_SYNC)`) and `Disconnect` are the syncer and the
      connection, modelled from `spec.md`.
  * The ghosts `dirty` (blocks the peer may lack) and `todo` (those dirty when
    a round started) state what the bitmap must cover.
* **`Drbd06MetaData.tla`** models the drbd 0.6 meta data.
  * The functions are operators on values:
    * `MdWrite` is `drbd_md_write`; the state file is the sequence of
      big-endian words written.
    * `MdReadOk` and `MdRead` are `drbd_md_read`, with its fallback to
      counters of 1 when the read is short or the magic is wrong.
    * `ParamGen` is the counters of `drbd_send_param`'s ReportParams.
    * `DrbdMdCompare`/`CompareFrom` is `drbd_md_compare`'s loop.
    * `DrbdMdSyncqOk` is `drbd_md_syncq_ok`, and `DrbdMdInc` is
      `drbd_md_inc`.
    * `cpu_to_be32` is `Be32`, a byte reversal on a little-endian host, so a
      missing conversion changes results.
  * The state machine has two nodes, with `gen`, `file`, `wr`, `alive`,
    `primary` and the ghost `md_err` (the "Error writing state file" log).
    Its actions:
    * `Start` is `drbd_init` followed by `drbd_md_read`;
    * `Inc` bumps a counter and writes;
    * `drbd_md_write` is split at the point where the file is truncated:
      `BeginWrite` covers the `O_TRUNC` open or its failure, and `WriteData`
      covers the full or short write;
    * `Crash` can happen anywhere, between the two halves of a write
      included.
  * When the counters are bumped is decided by callers not under `src/`, so
    `Inc` is free within a bound.
  * `LexCompare` is the reference order from `spec.md`.
* **`MCDrbd06TransferLog.tla`** and **`MCDrbd06Bitmap.tla`** supply the
  model values. `MCDrbd06Bitmap` also extends `Drbd06MetaData`. The two
  components share no variable, so each behaviour runs one of them (`part`)
  and leaves the other at rest. Every state of either is reached as in their
  product, at the sum of the state counts. `MCBitmapSpec` runs the bitmap
  alone, for the two bitmap violation runs.

The data is abstracted as follows:

* A bio is a direction plus an interval of one or two blocks.
* The disks record which request last wrote each block (`ldisk`, `pdisk`).
  This lets the durability and bitmap properties compare the two sides.

## Runs

| run | cfg | result | what it shows |
|---|---|---|---|
| resource_safety_liveness | MCDrbdResource.cfg | pass (about 403k states) | With two requests, protocols A/B/C and up to two faults (connection loss, local write error, peer read error), the counters match the flags, the bitmap covers every divergent block and freed requests are unreferenced. No two overlapping writes are in `write_requests` at once (spec P6), and a B/C write reported successful is on the peer or marked out of sync. `DrbdResource` also refines `DrbdRequestLifecycle`: each master bio completes once before its request is freed, B/C writes report success only once durable, and every request is freed. |
| timer_hang_guards_retry | MCDrbdResourceGuards.cfg | pass (about 10k states) | One request, every fault kind, a peer that may hang and the request timer armed. A failed read is postponed, retried and completed once. Every write's master bio completes even when the peer hangs, because the timer drops the connection. |
| negack_barrier_mismatch | MCDrbdResourceNegAck.cfg | violation | A neg-acked protocol C write leaves the transfer log before its barrier ack, so the BarrierAck finds no open epoch left on the transfer log and the connection goes to `C_PROTOCOL_ERROR`. |
| in_flight_double_sub | MCDrbdResourceInFlight.cfg | violation | `ap_in_flight` is subtracted by `ack_common` and again by `CONNECTION_LOST_WHILE_PENDING`. |
| read_two_sources | MCDrbdResourceReadSource.cfg | violation | A read sent to the peer by read balancing is also submitted locally. |
| read_error_hang | MCDrbdResourceReadError.cfg | violation | `READ_COMPLETED_WITH_ERROR` never runs the completion logic, so a failed local-only read is never completed. |
| tl06_safety_liveness | MCDrbd06TransferLog.cfg | pass (about 540k states) | On the drbd 0.6 ring with four writes, their local completions and at most one connection loss, `tl_release` always finds the barrier number and set size the peer reports. The ring implements the abstract epoch log `Drbd06EpochLog` until it overflows (`EpochLogRefined`). |
| tl06_ack_before_tl_add | MCDrbd06TransferLogOrder.cfg | violation | The local write and the block ack both end before the sender's `tl_add`. `tl_dependence` at completion misses the write, no barrier is issued, and a write submitted after the completion shares its epoch. |
| tl06_clear_before_tl_add | MCDrbd06TransferLogClear.cfg | violation | `tl_clear` runs between `drbd_send` and `tl_add`. The write then enters the emptied ring and is never ended or marked out of sync. |
| bitmap06_resync | MCDrbd06Bitmap.cfg | pass (about 177k states) | With 4 KB blocks and a bitmap of whole words, no out-of-sync block loses its bit across failed writes, syncs and disconnections. Each completed sync round covers what was out of sync at its start. `bm_get_bn` and `drbd_log2` match their reference definitions. In the meta data of two nodes, through bumps, failed writes and crashes, the following hold: `drbd_md_compare` on the peer's ReportParams is the lexicographic order; the two sides' `drbd_md_syncq_ok` verdicts agree with `spec.md`'s rule and with each other; and a live node whose last write completed holds the counters its file gives back. |
| bitmap06_stale_sb_mask | MCDrbd06BitmapMask.cfg | violation | With two blocks per bit, the `sb_mask` left full by one round clears a re-dirtied bit at the next round's first in-sync report. A disconnection then leaves the other block out of sync with its bit clear. |
| bitmap06_tail_not_scanned | MCDrbd06BitmapTail.cfg | violation | A bitmap of three bytes has one and a half words. `bm_get_blocknr` scans `size/sizeof(long)` whole words, so blocks in the tail are never resynced. |

Each property of a passing run has a mutant in `PROJECT.json`: a plausible
bug in a mapped definition that TLC must catch. Examples:

* ack setting `NET_DONE`;
* `ap_pending` decremented unconditionally;
* bitmap updated only when both sides failed;
* protocol A's pretend-OK applied to every protocol;
* freeing without `NET_DONE`;
* `master_bio` not cleared;
* no epoch close on completion.

## Bounds

Two requests over two blocks, with intervals `{1}` and `{1,2}`, give every
case the properties are about:

* overlapping writes, hence the conflict wait;
* a read and a write in the same transfer log;
* two writes in one epoch;
* an epoch closed by `max_epoch_size = 2` as well as by completion.

The main run allows two faults per behaviour (`MaxFaults = 2`), so a
connection loss can meet a failed local write, or two losses can follow each
other with a reconnection between them. The violation runs use at most one
fault, which is enough for their counterexamples. The timer run uses one request and two faults, so that a
postponed read can fail on both paths before the retry, and a peer can hang
after a reconnection. Two requests with the timer armed exceed what TLC
explores in a few minutes; with one request the timer's choice of the oldest
request is trivial, which is why the ordering hazard at
`find_oldest_request` has no property yet.

Requests are model values. Symmetry is not used, because the two requests'
bios differ.

The 0.6 transfer log uses four writes and five slots. That lets:

* epochs of several writes form;
* barriers be issued by `tl_dependence`;
* the ring wrap and even fill (`tl_end` meeting `tl_begin`);
* one connection loss fall anywhere.

The two violation runs use three writes and four slots. That is enough for
their counterexamples of four and six steps.

The 0.6 bitmap uses two-bit bytes and two-byte longs. The constraint that
matters is how the byte size of the bitmap relates to the word size: eight
blocks give two whole words, and twelve blocks of 2 KB give one and a half.
Three failed writes and three connections let a sync round be cut off, the
bitmap re-dirtied, and the sync resumed. The stale-mask run needs blocks
smaller than 4 KB (two per bit) and two connections.

The meta data uses one-bit bytes, so a u32 is 4 bits. Byte-swapping 1
gives 8 and byte-swapping 2 gives 4, so counters of at most 2 already order
differently once swapped. The bounds are:

* two nodes, symmetric, since nothing in the code tells them apart;
* bitmap-gen counters summing to at most 2 per node (`MaxIncs`);
* two faults (`MaxFaults`), each a crash or a failed open or write.

Two faults are enough for a short write followed by a crash, or for a crash
between truncation and write followed by a failed fallback write.

## Fairness

Each thread runs whenever it can:

* each request's submitter, disk and retry worker;
* the sender;
* the peer's receiver;
* the ack receiver;
* the `tl_clear` worker.

These are kernel threads and completions that the code always schedules once
woken, so weak fairness is justified. New submissions, connection loss and
reconnection are not forced. Where `NetTimeout` is set, time passes (`Tick`
is weakly fair) and the request timer fires when it can: `request_timer_fn`
re-arms itself with `mod_timer` as long as `et` is not zero. A hung peer is
never forced to recover.

The 0.6 transfer-log specification states weak fairness (`WF_vars`) for the
submitters, the local disk, the peer, the asender and the `tl_clear` in the
receiver's restart. Its runs check safety only, so no result depends on that
fairness. The bitmap and meta-data models check safety only.

Weak fairness is written as `[]<>~Guard \/ []<><<A>>_vars`, with the guard in
place of `ENABLED <<A>>_vars`. Evaluating `ENABLED` makes the main run take
many times longer. The two forms are equivalent because each guard is built
from the guard conjuncts of its thread's actions. Each of those actions is
total once its guard holds, and always changes the state.

## Not modelled (yet)

The following are left out of the current model:

* suspend/resume and frozen I/O (`POSTPONE_WRITE`, `FAIL_FROZEN_DISK_IO`,
  `RESTART_FROZEN_DISK_IO`, `RESEND`);
* Ahead mode and `QUEUE_FOR_SEND_OOS`;
* dual-primary `DISCARD_WRITE`;
* `WRITE_ACKED_BY_PEER_AND_SIS`;
* `ABORT_DISK_IO` and read-ahead;
* more than one peer;
* disk statistics and `drbd_merge_bvec` (accounting and bio-size limits; they
  change no request state);
* the request timer's disk branch (`dt`, `__drbd_chk_io_error`): the disk
  timeout is 0 by default, and the disk's failure handling is not under
  `src/`.

Of drbd 0.6 (`drbd_main.c`) the following are left out:

* When the meta-data counters change, and what the handshake does with
  the verdicts. The receiver's handshake and the ioctls that bump the counters
  and set `bit_map_gen` are not under `src/`. So `Inc` bumps any bitmap-gen
  counter at any time within a bound, `Consistent` changes only through the
  file, and the handshake properties take any `bit_map_gen`. The code's
  fallback after a crash mid-write is checked to be written back. That it
  marks a node which crashed mid-sync as Consistent is listed as a hazard;
  what that costs depends on the handshake.
* The socket layer (`drbd_send`'s signal-based timeout, partial sends),
  threads and module init/cleanup. These are kernel plumbing. Only their
  effect on the connection (`ConnLost`) is modelled.
* `bm_set_bit`'s writes past the allocation. The bound check is modelled as
  written, but no run uses a device whose last 32 KB are partial, which is
  where it bites. See the hazards.
* Block-size changes between bitmap calls, the "THINK" comment above
  `bm_set_bit`.

## Plan for later work

1. The request timer with two requests, so that transfer-log order and
   `start_time` order can differ (after a conflict wait).
2. Suspend/`RESEND` and `POSTPONE_WRITE`.
3. The next connection of the 0.6 ring (`tl_init`, reconnect) is needed to
   show the barrier number skipped after a post-clear barrier.
4. Bitmap: an instance with a partial last byte (out-of-bounds store), and
   block-size changes.
