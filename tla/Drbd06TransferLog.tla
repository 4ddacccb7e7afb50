-------------------------- MODULE Drbd06TransferLog --------------------------
(***************************************************************************)
(* The transfer log of drbd 0.6 (src/drbd/drbd/drbd_main.c): a ring of    *)
(* conf.tl_size slots between tl_begin and tl_end holding request          *)
(* pointers, TL_BARRIER markers and TL_EMPTY holes, fed by drbd_send_data *)
(* under send_mutex and drained by tl_release (BarrierAck), tl_dependence *)
(* (a block ack) and tl_clear (connection loss).                           *)
(*                                                                         *)
(* The callers of these functions are not under src/ and are modelled     *)
(* from spec.md: the submitters calling drbd_send_data, the local disk    *)
(* completing each write, the peer that acks every data block and answers *)
(* a Barrier with the number of writes since the previous one, and the    *)
(* asender that ends a block ack's network half with drbd_end_req and     *)
(* turns a BarrierAck into tl_release.  A write completes when both its   *)
(* halves (RQ_DRBD_SENT, RQ_DRBD_WRITTEN) have ended; completion is where *)
(* tl_dependence runs ("indicates that IO is complete", drbd_main.c:307), *)
(* setting ISSUE_BARRIER when it returns TRUE.  One connection is         *)
(* modelled, from tl_init until it is lost and tl_clear has run.          *)
(***************************************************************************)
EXTENDS Integers, Sequences, FiniteSets

SX == INSTANCE SequencesExt

CONSTANTS
  Reqs,        \* write requests (buffer heads), model values
  TlSize,      \* conf.tl_size, slots in the ring
  MaxFaults,   \* bound on lost connections (0 or 1)
  None         \* model value: send_mutex is free

ASSUME /\ TlSize \in Nat \ {0}
       /\ MaxFaults \in 0..1

TL_BARRIER == "BARRIER"
TL_EMPTY   == "EMPTY"
Slots      == 0..(TlSize - 1)

VARIABLES
  \* the ring and its bookkeeping, under tl_lock
  ring, tl_begin, tl_end, barrier_nr_issue, barrier_nr_done,
  \* the printk complaints of tl_add / tl_release that have been logged
  tl_msgs,
  \* ISSUE_BARRIER in mdev->flags, and the holder of send_mutex
  issue_barrier, mutex,
  \* per request: send phase, local write done (RQ_DRBD_WRITTEN), request
  \* completed (both halves ended, handed back), drbd_end_req(RQ_DRBD_SENT)
  \* calls
  st, written, done, ends,
  \* bm_set_bit(..., SS_OUT_OF_SYNC) targets
  oos,
  \* connection: state, data socket, meta socket, peer's epoch write count
  cstate, wire, msock, peer_cnt,
  \* tl_clear: "idle" until the receiver runs it, then "done"
  clear,
  \* history: barriers on the wire before each request's data, and the
  \* requests already completed when it was sent
  epoch_of, done_before,
  faults

tlVars   == <<ring, tl_begin, tl_end, barrier_nr_issue, barrier_nr_done, tl_msgs>>
reqVars  == <<st, written, done, ends, oos>>
netVars  == <<cstate, wire, msock, peer_cnt>>
histVars == <<epoch_of, done_before>>
vars == <<tlVars, issue_barrier, mutex, reqVars, netVars, clear,
          histVars, faults>>

(* Mutant: the wrap test one slot late. *)
AdvanceNoWrap(p) == IF p = TlSize THEN 0 ELSE p + 1

Advance(p) == IF p + 1 = TlSize THEN 0 ELSE p + 1

(* tl_init, not under src/: an empty ring at its first slot.  The        *)
(* special case for a non-barrier tl_begin in tl_release shows the ring  *)
(* starts with tl_begin on the first entry written.                      *)
Init ==
  /\ ring = [i \in Slots |-> TL_EMPTY]
  /\ tl_begin = 0 /\ tl_end = 0
  /\ barrier_nr_issue = 1 /\ barrier_nr_done = 1
  /\ tl_msgs = {}
  /\ issue_barrier = FALSE /\ mutex = None
  /\ st = [r \in Reqs |-> "new"] /\ written = {} /\ done = {}
  /\ ends = [r \in Reqs |-> 0]
  /\ oos = {}
  /\ cstate = "Connected" /\ wire = <<>> /\ msock = <<>> /\ peer_cnt = 0
  /\ clear = "idle"
  /\ epoch_of = [r \in Reqs |-> 0] /\ done_before = [r \in Reqs |-> {}]
  /\ faults = 0

-----------------------------------------------------------------------------
(* The ring operations, as functions of the ring state T, a record with   *)
(* fields ring, begin, end, issue, done, msgs.                             *)

TlState ==
  [ring |-> ring, begin |-> tl_begin, end |-> tl_end,
   issue |-> barrier_nr_issue, done |-> barrier_nr_done, msgs |-> tl_msgs]

SetTl(T) ==
  /\ ring' = T.ring /\ tl_begin' = T.begin /\ tl_end' = T.end
  /\ barrier_nr_issue' = T.issue /\ barrier_nr_done' = T.done
  /\ tl_msgs' = T.msgs

(* tl_add and the first half of tl_add_barrier: store at tl_end, advance *)
(* it with wrap-around, and only complain when it meets tl_begin.         *)
TlAdd(T, item) ==
  LET e == Advance(T.end) IN
  [T EXCEPT !.ring[T.end] = item, !.end = e,
            !.msgs = IF e = T.begin THEN @ \cup {"too_small"} ELSE @]

TlAddBarrier(T) == [TlAdd(T, TL_BARRIER) EXCEPT !.issue = @ + 1]

(* The do-while of tl_release: step tl_begin until it rests on a barrier, *)
(* counting the steps.  fuel bounds the walk round a ring with no barrier *)
(* (the code would spin there holding tl_lock).                           *)
RECURSIVE ReleaseWalk(_, _, _)
ReleaseWalk(T, size, fuel) ==
  LET b  == Advance(T.begin)
      T1 == [T EXCEPT !.begin = b,
                      !.msgs = IF b = T.end THEN @ \cup {"messed_up"} ELSE @]
  IN  IF T.ring[b] = TL_BARRIER \/ fuel = 0 THEN [T |-> T1, size |-> size + 1]
      ELSE ReleaseWalk(T1, size + 1, fuel - 1)

(* Mutant: the epoch_size-- for a tl_begin resting on a barrier dropped. *)
TlReleaseNoBarrierAdjust(T, nr, setSize) ==
  LET w == ReleaseWalk(T, 0, 2 * TlSize) IN
  [w.T EXCEPT !.done = @ + 1,
              !.msgs = @ \cup (IF T.done # nr THEN {"invalid_nr"} ELSE {})
                         \cup (IF w.size # setSize THEN {"size_wrong"} ELSE {})]

TlRelease(T, nr, setSize) ==
  LET w  == ReleaseWalk(T, IF T.ring[T.begin] = TL_BARRIER THEN -1 ELSE 0,
                        2 * TlSize)
      T1 == w.T
  IN  [T1 EXCEPT !.done = @ + 1,
                 !.msgs = @ \cup (IF T.done # nr THEN {"invalid_nr"} ELSE {})
                            \cup (IF w.size # setSize THEN {"size_wrong"} ELSE {})]

(* tl_dependence: walk back from tl_end; stop at tl_begin (which is never *)
(* examined itself); a barrier on the way means the item is in an older   *)
(* epoch.  A found item's slot becomes TL_EMPTY.                          *)
(* Mutant: a barrier on the way does not clear the answer. *)
RECURSIVE DepWalkNoBarrier(_, _, _, _)
DepWalkNoBarrier(T, item, p, r) ==
  IF p = T.begin THEN [T |-> T, r |-> FALSE]
  ELSE LET q == IF p = 0 THEN TlSize - 1 ELSE p - 1
       IN  IF T.ring[q] = item
           THEN [T |-> [T EXCEPT !.ring[q] = TL_EMPTY], r |-> r]
           ELSE DepWalkNoBarrier(T, item, q, r)

RECURSIVE DepWalk(_, _, _, _)
DepWalk(T, item, p, r) ==
  IF p = T.begin THEN [T |-> T, r |-> FALSE]
  ELSE LET q  == IF p = 0 THEN TlSize - 1 ELSE p - 1
           r1 == IF T.ring[q] = TL_BARRIER THEN FALSE ELSE r
       IN  IF T.ring[q] = item
           THEN [T |-> [T EXCEPT !.ring[q] = TL_EMPTY], r |-> r1]
           ELSE DepWalk(T, item, q, r1)

TlDependence(T, item) == DepWalk(T, item, T.end, TRUE)

(* The slots tl_clear walks, from p up to tl_end. *)
RECURSIVE LiveFrom(_, _, _)
LiveFrom(T, p, acc) ==
  IF p = T.end THEN acc ELSE LiveFrom(T, Advance(p), acc \cup {T.ring[p]})

-----------------------------------------------------------------------------
(* drbd_send refuses at once without a socket or a connection; a send   *)
(* on a connection that is up succeeds.                                  *)
DrbdSendOk == cstate = "Connected"

(* drbd_send_data for request r, up to the return of drbd_send: with     *)
(* ISSUE_BARRIER set, _drbd_send_barrier first puts a barrier on the log  *)
(* and the wire; then the data block is sent.  On a broken connection     *)
(* drbd_send fails: the block is marked out of sync and the caller ends   *)
(* the request with an error.                                             *)
SendData(r) ==
  /\ st[r] = "new" /\ mutex = None
  /\ LET T0 == TlState
         T1 == IF issue_barrier THEN TlAddBarrier(T0) ELSE T0
         up == DrbdSendOk
     IN  /\ SetTl(T1)
         /\ issue_barrier' = FALSE
         /\ wire' = IF up
                    THEN wire \o (IF issue_barrier
                                  THEN <<[type |-> "Barrier", nr |-> T0.issue]>>
                                  ELSE <<>>)
                              \o <<[type |-> "Data", req |-> r]>>
                    ELSE wire
         /\ IF up
            THEN /\ st' = [st EXCEPT ![r] = "sending"] /\ mutex' = r
                 /\ epoch_of' = [epoch_of EXCEPT ![r] = T1.issue]
                 /\ done_before' = [done_before EXCEPT ![r] = done]
                 /\ UNCHANGED <<ends, oos>>
            ELSE /\ st' = [st EXCEPT ![r] = "failed"] /\ mutex' = None
                 /\ oos' = oos \cup {r}
                 /\ ends' = [ends EXCEPT ![r] = @ + 1]
                 /\ UNCHANGED histVars
  /\ UNCHANGED <<written, done, cstate, msock, peer_cnt, clear, faults>>

(* The rest of drbd_send_data: tl_add, still holding send_mutex. *)
TlAddSent(r) ==
  /\ st[r] = "sending" /\ mutex = r
  /\ SetTl(TlAdd(TlState, r))
  /\ st' = [st EXCEPT ![r] = "added"] /\ mutex' = None
  /\ UNCHANGED <<issue_barrier, written, done, ends, oos, netVars, clear,
                 histVars, faults>>

(* The peer (spec_modelled): acks every data block, answers a barrier    *)
(* with its number and the writes received since the previous one.      *)
PeerReceive ==
  /\ wire # <<>>
  /\ LET m == Head(wire) IN
     IF m.type = "Data"
     THEN msock' = Append(msock, [type |-> "Ack", req |-> m.req])
          /\ peer_cnt' = peer_cnt + 1
     ELSE msock' = Append(msock, [type |-> "BarrierAck", nr |-> m.nr,
                                  size |-> peer_cnt])
          /\ peer_cnt' = 0
  /\ wire' = Tail(wire)
  /\ UNCHANGED <<tlVars, issue_barrier, mutex, reqVars, cstate, clear,
                 histVars, faults>>

(* Completion of request r, once its second half has ended (spec_modelled, *)
(* drbd_end_req is not under src/): tl_dependence clears r's slot and     *)
(* ISSUE_BARRIER is set when r was in the current epoch.                  *)
Complete(r) ==
  LET d == TlDependence(TlState, r) IN
  /\ SetTl(d.T)
  /\ issue_barrier' = (issue_barrier \/ d.r)
  /\ done' = done \cup {r}

(* The asender (spec_modelled): a block ack ends the request's network   *)
(* half, completing it if its local write is done; a BarrierAck runs      *)
(* tl_release.                                                            *)
AckReceive ==
  /\ msock # <<>>
  /\ LET m == Head(msock) IN
     IF m.type = "Ack"
     THEN /\ ends' = [ends EXCEPT ![m.req] = @ + 1]
          /\ IF m.req \in written THEN Complete(m.req)
             ELSE UNCHANGED <<tlVars, issue_barrier, done>>
     ELSE /\ SetTl(TlRelease(TlState, m.nr, m.size))
          /\ UNCHANGED <<issue_barrier, ends, done>>
  /\ msock' = Tail(msock)
  /\ UNCHANGED <<mutex, st, written, oos, cstate, wire, peer_cnt, clear,
                 histVars, faults>>

(* The local disk (spec_modelled): a write submitted with its send        *)
(* completes locally (RQ_DRBD_WRITTEN); the request completes if its      *)
(* network half has already ended.                                        *)
LocalDone(r) ==
  /\ st[r] # "new" /\ r \notin written
  /\ written' = written \cup {r}
  /\ IF ends[r] > 0 THEN Complete(r)
     ELSE UNCHANGED <<tlVars, issue_barrier, done>>
  /\ UNCHANGED <<mutex, st, ends, oos, netVars, clear, histVars, faults>>

(* Both sockets break; whatever they carried is lost. *)
ConnLost ==
  /\ cstate = "Connected" /\ faults < MaxFaults
  /\ cstate' = "Broken" /\ wire' = <<>> /\ msock' = <<>>
  /\ faults' = faults + 1
  /\ UNCHANGED <<tlVars, issue_barrier, mutex, reqVars, peer_cnt,
                 clear, histVars>>

(* tl_clear: every request pointer between tl_begin and tl_end is marked *)
(* out of sync and, for protocols B and C, ended (drbd_end_req with       *)
(* RQ_DRBD_SENT) unless (rq_status & 0xfffe) says RQ_DRBD_SENT, i.e. its  *)
(* network half ended and its local write has not: a NOTHING or WRITTEN  *)
(* request is ended, and a WRITTEN one thereby completes (under tl_lock,  *)
(* with tl_init next, so without a tl_dependence walk).  A pointer to a   *)
(* request that already completed is stale: its rq_status is read from a *)
(* request handed back to the upper layer, and the test may go either    *)
(* way.  Then tl_init empties the ring.                                   *)
TlClear ==
  /\ cstate = "Broken" /\ clear = "idle"
  /\ LET live  == LiveFrom(TlState, tl_begin, {}) \cap Reqs
         sent  == {r \in live \ done : ends[r] > 0 /\ r \notin written}
     IN  \E stale \in SUBSET (live \cap done) :
           LET endNow == (live \ (done \cup sent)) \cup stale IN
           /\ oos' = oos \cup live
           /\ ends' = [r \in Reqs |-> IF r \in endNow THEN ends[r] + 1 ELSE ends[r]]
           /\ done' = done \cup (endNow \cap written)
  /\ tl_begin' = 0 /\ tl_end' = 0
  /\ clear' = "done"
  /\ UNCHANGED <<ring, barrier_nr_issue, barrier_nr_done, tl_msgs,
                 issue_barrier, mutex, st, written, netVars, histVars, faults>>

(* Every request has been sent and written locally, and either acked or *)
(* the connection is gone and tl_clear has run: nothing is left to do   *)
(* until a reconnect.                                                    *)
Finished ==
  /\ \A r \in Reqs : st[r] \in {"added", "failed"} /\ r \in written
  /\ (\A r \in Reqs : ends[r] > 0) \/ clear = "done"
  /\ mutex = None /\ wire = <<>> /\ msock = <<>>
  /\ UNCHANGED vars

Next ==
  \/ \E r \in Reqs : SendData(r) \/ TlAddSent(r) \/ LocalDone(r)
  \/ PeerReceive \/ AckReceive
  \/ ConnLost \/ TlClear
  \/ Finished

(* The submitters, the disk, the peer, the asender and the receiver       *)
(* running tl_clear are threads or interrupts that run whenever they can. *)
Fairness ==
  /\ \A r \in Reqs : WF_vars(SendData(r) \/ TlAddSent(r)) /\ WF_vars(LocalDone(r))
  /\ WF_vars(PeerReceive) /\ WF_vars(AckReceive) /\ WF_vars(TlClear)

Spec == Init /\ [][Next]_vars /\ Fairness

-----------------------------------------------------------------------------
(* Every variable holds a value of its kind. *)
TypeOK ==
  /\ ring \in [Slots -> Reqs \cup {TL_BARRIER, TL_EMPTY}]
  /\ tl_begin \in Slots /\ tl_end \in Slots
  /\ barrier_nr_done <= barrier_nr_issue
  /\ tl_msgs \subseteq {"too_small", "invalid_nr", "size_wrong", "messed_up"}
  /\ mutex \in Reqs \cup {None}
  /\ st \in [Reqs -> {"new", "sending", "added", "failed"}]
  /\ written \subseteq Reqs /\ done \subseteq written /\ oos \subseteq Reqs
  /\ cstate \in {"Connected", "Broken"} /\ clear \in {"idle", "done"}

(* tl_release only ever meets the ring it expects: the BarrierAck's      *)
(* number is barrier_nr_done, the steps from one barrier to the next     *)
(* equal the set size the peer counted, and tl_begin never runs into     *)
(* tl_end.  The code only printk's when one of these fails and carries   *)
(* on, so a test sees nothing.                                           *)
TlReleaseConsistent ==
  tl_msgs \cap {"invalid_nr", "size_wrong", "messed_up"} = {}

(* A write submitted after another one completed (so possibly depending  *)
(* on it) is in a later epoch: a barrier separates them on the wire.     *)
(* This is what ISSUE_BARRIER, set by tl_dependence at completion, is    *)
(* for.                                                                   *)
WriteOrderBarrier ==
  \A r1, r2 \in Reqs : r1 \in done_before[r2] => epoch_of[r1] < epoch_of[r2]

(* Once tl_clear has run and no send is in progress, every write that     *)
(* reached the transfer log has had its network part ended, by an ack   *)
(* or by tl_clear (spec: no request is leaked on connection loss).       *)
TlClearLeavesNothing ==
  (clear = "done" /\ mutex = None) => \A r \in Reqs : st[r] = "added" => ends[r] > 0

-----------------------------------------------------------------------------
(* Refinement of the epoch log.  The entries from tl_begin up to tl_end,  *)
(* less the barrier tl_begin rests on after a tl_release, split at the    *)
(* barriers, are the epochs: each counts its slots (a completed write    *)
(* leaves a TL_EMPTY hole that still counts for the set size) and holds   *)
(* the writes still in its slots.                                          *)
RingEntries ==
  LET n == (tl_end - tl_begin + TlSize) % TlSize
  IN  [i \in 1..n |-> ring[(tl_begin + i - 1) % TlSize]]

(* Once an epoch has been released since tl_init, tl_begin rests on the  *)
(* barrier that closed it.  Before that, a barrier at tl_begin is one     *)
(* added to the fresh ring of tl_clear's tl_init, and closes an epoch.     *)
OpenEntries ==
  IF /\ barrier_nr_done > 1 /\ clear = "idle"
     /\ RingEntries # <<>> /\ Head(RingEntries) = TL_BARRIER
  THEN Tail(RingEntries) ELSE RingEntries

EpochOf(q) == [size |-> Len(q), live |-> {q[i] : i \in DOMAIN q} \cap Reqs]

RECURSIVE EpochsOf(_)
EpochsOf(q) ==
  LET k == SX!SelectInSeq(q, LAMBDA x : x = TL_BARRIER)
  IN  IF k = 0 THEN <<EpochOf(q)>>
      ELSE <<EpochOf(SubSeq(q, 1, k - 1))>> \o EpochsOf(SubSeq(q, k + 1, Len(q)))

EpochLog == INSTANCE Drbd06EpochLog WITH
              log    <- EpochsOf(OpenEntries),
              issue  <- issue_barrier,
              marked <- {r \in oos : st[r] # "failed"},
              broken <- "too_small" \in tl_msgs

(* The ring implements the epoch log until it overflows: tl_add and the   *)
(* barrier extend the newest epoch or open one, tl_release's walk drops  *)
(* exactly the oldest epoch, tl_dependence's backward walk answers TRUE   *)
(* exactly for a write of the newest epoch, and tl_clear's walk hands     *)
(* every live write, and only those, to the bitmap.                       *)
EpochLogRefined == EpochLog!Spec

=============================================================================
