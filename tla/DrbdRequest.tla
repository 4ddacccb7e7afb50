---------------------------- MODULE DrbdRequest ----------------------------
(***************************************************************************)
(* The per-request state machine of drbd_req.c: the events of __req_mod,  *)
(* and the completion logic req_may_be_completed / req_may_be_done /      *)
(* _req_is_done that every event ends in.                                  *)
(*                                                                         *)
(* Everything here runs under resource->req_lock, so each operator is a   *)
(* pure function from the lock-protected state L to its new value.  L is  *)
(* a record with the fields                                                *)
(*   bio        [Reqs -> [rw, ival]]  the upper layer's bio (read-only)   *)
(*   proto      wire protocol of net_conf, "A", "B" or "C" (read-only)    *)
(*   req        [Reqs -> request record], see NewRequest                  *)
(*   pc         [Reqs -> lifecycle], "freed" after drbd_req_free and      *)
(*              "retry" after drbd_restart_write; "sleep"/"woken" is the  *)
(*              submitter inside complete_conflicting_writes              *)
(*   tl         resource->transfer_log, a sequence of requests            *)
(*   wr, rd     device->write_requests / read_requests interval trees     *)
(*   work       the connection's sender_work queue                        *)
(*   tle_nr, tle_writes   current_tle_nr / current_tle_writes             *)
(*   ap_pending, ap_in_flight   the peer device's counters                *)
(*   oos        blocks set out of sync in the bitmap                       *)
(*   endio      [Reqs -> Seq(result)], every bio_endio of the master bio  *)
(* A request's size (req->i.size >> 9) is the number of blocks it covers. *)
(***************************************************************************)
EXTENDS Naturals, Sequences, SequencesExt, FiniteSets

CONSTANTS
  Reqs,          \* requests (one per upper-layer bio), model values
  Blocks,        \* the sectors an interval may cover
  MaxEpochSize   \* net_conf->max_epoch_size

ASSUME MaxEpochSize \in Nat \ {0}

LocalMask == {"LOCAL_PENDING", "LOCAL_COMPLETED", "LOCAL_OK", "LOCAL_ABORTED"}
NetMask   == {"NET_PENDING", "NET_QUEUED", "NET_SENT", "NET_DONE", "NET_OK", "NET_SIS"}
Flags     == LocalMask \cup NetMask \cup
             {"WRITE", "IN_ACT_LOG", "POSTPONED", "EXP_RECEIVE_ACK", "EXP_WRITE_ACK"}

Has(L, r, f)   == f \in L.req[r].s
IsWrite(L, r)  == L.bio[r].rw = "WRITE"
ReqSize(L, r)  == Cardinality(L.bio[r].ival)
SetBits(L, r, on, off) == [L EXCEPT !.req[r].s = (@ \ off) \cup on]

(* drbd_req_new: a fresh request whose master bio is still pending. *)
NewRequest(rw) ==
  [s |-> IF rw = "WRITE" THEN {"WRITE"} ELSE {}, master |-> TRUE,
   priv |-> TRUE, epoch |-> 0, waiting |-> FALSE, al |-> FALSE, cb |-> "none"]

(* wake_up(&device->misc_wait): every submitter sleeping in             *)
(* complete_conflicting_writes becomes runnable.                         *)
WakeMiscWait(L) ==
  [L EXCEPT !.pc = [q \in DOMAIN @ |-> IF @[q] = "sleep" THEN "woken" ELSE @[q]]]

StartNewTlEpoch(L) == [L EXCEPT !.tle_writes = 0, !.tle_nr = @ + 1]

DrbdRemoveRequestInterval(L, r) ==
  LET L1 == [L EXCEPT !.wr = @ \ {r}, !.rd = @ \ {r}]
  IN  IF L.req[r].waiting THEN WakeMiscWait(L1) ELSE L1

MaybeWakeupConflictingRequests(L, r) ==
  IF Has(L, r, "LOCAL_PENDING") /\ ~Has(L, r, "LOCAL_ABORTED") THEN L
  ELSE IF L.req[r].waiting THEN WakeMiscWait(L) ELSE L

(* Mutation of ReqIsDone: the bitmap is updated only when neither side  *)
(* succeeded.                                                             *)
ReqIsDoneOosOnlyIfBothFailed(L, r) ==
  LET s  == L.req[r].s
      L1 == [L EXCEPT !.tl = Remove(@, r)]
      L2 == IF IsWrite(L, r) /\ {"NET_OK", "LOCAL_OK"} \cap s = {}
            THEN [L1 EXCEPT !.oos = @ \cup L.bio[r].ival] ELSE L1
      L3 == IF IsWrite(L, r) /\ "IN_ACT_LOG" \in s
            THEN [L2 EXCEPT !.req[r].al = FALSE] ELSE L2
  IN  [L3 EXCEPT !.pc[r] = IF "POSTPONED" \in s THEN "retry" ELSE "freed"]

(* Mutation of ReqIsDone: only a failed local write marks the range out   *)
(* of sync.                                                               *)
ReqIsDoneOosOnlyLocal(L, r) ==
  LET s  == L.req[r].s
      L1 == [L EXCEPT !.tl = Remove(@, r)]
      L2 == IF IsWrite(L, r) /\ "LOCAL_OK" \notin s
            THEN [L1 EXCEPT !.oos = @ \cup L.bio[r].ival] ELSE L1
      L3 == IF IsWrite(L, r) /\ "IN_ACT_LOG" \in s
            THEN [L2 EXCEPT !.req[r].al = FALSE] ELSE L2
  IN  [L3 EXCEPT !.pc[r] = IF "POSTPONED" \in s THEN "retry" ELSE "freed"]

(* _req_is_done: off the transfer log, bitmap update for writes, the      *)
(* activity-log reference dropped, then freed or handed to the retry     *)
(* queue.  The local disk is attached, so get_ldev_if_state succeeds.    *)
ReqIsDone(L, r) ==
  LET s  == L.req[r].s
      iv == L.bio[r].ival
      w  == IsWrite(L, r)
      L1 == [L EXCEPT !.tl = Remove(@, r)]
      L2 == IF w /\ ~({"NET_OK", "LOCAL_OK"} \subseteq s)
            THEN [L1 EXCEPT !.oos = @ \cup iv] ELSE L1
      L3 == IF w /\ {"NET_OK", "LOCAL_OK", "NET_SIS"} \subseteq s
            THEN [L2 EXCEPT !.oos = @ \ iv] ELSE L2
      L4 == IF w /\ s \cap LocalMask # {} /\ "IN_ACT_LOG" \in s
            THEN [L3 EXCEPT !.req[r].al = FALSE] ELSE L3
  IN  [L4 EXCEPT !.pc[r] = IF "POSTPONED" \in s THEN "retry" ELSE "freed"]

(* Mutation of ReqMayBeDone: a request with network state is freed      *)
(* without waiting for RQ_NET_DONE.                                       *)
ReqMayBeDoneIgnoringNet(L, r) ==
  LET s == L.req[r].s IN
  IF \/ L.req[r].master /\ "POSTPONED" \notin s
     \/ "LOCAL_PENDING" \in s
  THEN L ELSE ReqIsDone(L, r)

ReqMayBeDone(L, r) ==
  LET s == L.req[r].s IN
  IF \/ L.req[r].master /\ "POSTPONED" \notin s
     \/ "LOCAL_PENDING" \in s
  THEN L
  ELSE IF s \cap NetMask = {} \/ "NET_DONE" \in s THEN ReqIsDone(L, r) ELSE L

(* Mutations of CompleteMasterBio: req->master_bio is not cleared after  *)
(* bio_endio; the epoch of a completed write is not closed.               *)
CompleteMasterBioKeepsMaster(L, r) ==
  LET ok == "LOCAL_OK" \in L.req[r].s \/ "NET_OK" \in L.req[r].s
      L1 == IF r \in L.wr \cup L.rd THEN DrbdRemoveRequestInterval(L, r) ELSE L
      L2 == IF IsWrite(L, r) /\ L.req[r].epoch = L.tle_nr
            THEN StartNewTlEpoch(L1) ELSE L1
  IN  [L2 EXCEPT !.endio[r] = Append(@, IF ok THEN "ok" ELSE "eio")]

CompleteMasterBioNoNewEpoch(L, r) ==
  LET s  == L.req[r].s
      ok == "LOCAL_OK" \in s \/ "NET_OK" \in s
      L1 == IF r \in L.wr \cup L.rd THEN DrbdRemoveRequestInterval(L, r) ELSE L
      postpone == ~ok /\ ~IsWrite(L, r) /\ Contains(L.tl, r)
  IN  IF postpone \/ "POSTPONED" \in s
      THEN [L1 EXCEPT !.req[r].s = @ \cup {"POSTPONED"}]
      ELSE [L1 EXCEPT !.req[r].master = FALSE,
                      !.endio[r] = Append(@, IF ok THEN "ok" ELSE "eio")]

(* The body of req_may_be_completed once the master bio may complete:    *)
(* leave the interval tree, close the epoch, and either complete the     *)
(* master bio (success iff one side succeeded) or postpone a failed read *)
(* that is on the transfer log.                                          *)
CompleteMasterBio(L, r) ==
  LET s  == L.req[r].s
      ok == "LOCAL_OK" \in s \/ "NET_OK" \in s
      L1 == IF r \in L.wr \cup L.rd THEN DrbdRemoveRequestInterval(L, r) ELSE L
      L2 == IF IsWrite(L, r) /\ L.req[r].epoch = L.tle_nr
            THEN StartNewTlEpoch(L1) ELSE L1
      postpone == ~ok /\ ~IsWrite(L, r) /\ Contains(L.tl, r)
  IN  IF postpone \/ "POSTPONED" \in s
      THEN [L2 EXCEPT !.req[r].s = @ \cup {"POSTPONED"}]
      ELSE [L2 EXCEPT !.req[r].master = FALSE,
                      !.endio[r] = Append(@, IF ok THEN "ok" ELSE "eio")]

ReqMayBeCompleted(L, r) ==
  LET s == L.req[r].s IN
  IF \/ "LOCAL_PENDING" \in s /\ "LOCAL_ABORTED" \notin s
     \/ "NET_QUEUED" \in s
     \/ "NET_PENDING" \in s
  THEN L
  ELSE ReqMayBeDone(IF L.req[r].master THEN CompleteMasterBio(L, r) ELSE L, r)

-----------------------------------------------------------------------------
(* The events of __req_mod.  The device is never suspended in this model, *)
(* so req_may_be_completed_not_susp is req_may_be_completed.              *)

ToBeSent(L, r) ==
  [SetBits(L, r, {"NET_PENDING"} \cup
                 CASE L.proto = "C" -> {"EXP_WRITE_ACK"}
                   [] L.proto = "B" -> {"EXP_RECEIVE_ACK"}
                   [] OTHER         -> {}, {})
   EXCEPT !.ap_pending = @ + 1]

ToBeSubmitted(L, r) == SetBits(L, r, {"LOCAL_PENDING"}, {})

CompletedOk(L, r) ==
  LET L1 == SetBits(L, r, {"LOCAL_COMPLETED", "LOCAL_OK"}, {"LOCAL_PENDING"})
  IN  ReqMayBeCompleted(MaybeWakeupConflictingRequests(L1, r), r)

WriteCompletedWithError(L, r) ==
  LET L1 == SetBits(L, r, {"LOCAL_COMPLETED"}, {"LOCAL_PENDING"})
  IN  ReqMayBeCompleted(MaybeWakeupConflictingRequests(L1, r), r)

(* READ_COMPLETED_WITH_ERROR: the range is marked out of sync and the    *)
(* local part ends; this case does not call req_may_be_completed.        *)
ReadCompletedWithError(L, r) ==
  [SetBits(L, r, {"LOCAL_COMPLETED"}, {"LOCAL_PENDING"})
   EXCEPT !.oos = @ \cup L.bio[r].ival]

QueueForNetRead(L, r) ==
  [SetBits(L, r, {"NET_QUEUED"}, {})
   EXCEPT !.rd = @ \cup {r}, !.req[r].cb = "send_read_req",
          !.work = Append(@, r)]

QueueForNetWrite(L, r) ==
  LET L1 == [SetBits(L, r, {"NET_QUEUED"}, {})
             EXCEPT !.req[r].cb = "send_dblock", !.work = Append(@, r)]
  IN  IF L1.tle_writes >= MaxEpochSize THEN StartNewTlEpoch(L1) ELSE L1

(* SEND_CANCELED, SEND_FAILED and READ_RETRY_REMOTE_CANCELED. *)
SendCanceled(L, r) == ReqMayBeCompleted(SetBits(L, r, {}, {"NET_QUEUED"}), r)

(* Mutation of HandedOverToNetwork: protocol A's pretended NET_OK is     *)
(* given to every write, whatever ack it expects.                         *)
HandedOverAlwaysPretends(L, r) ==
  LET w  == IsWrite(L, r)
      L1 == IF w THEN [L EXCEPT !.ap_in_flight = @ + ReqSize(L, r)] ELSE L
      L2 == IF w /\ Has(L, r, "NET_PENDING")
            THEN [SetBits(L1, r, {"NET_OK"}, {"NET_PENDING"})
                  EXCEPT !.ap_pending = @ - 1]
            ELSE L1
  IN  ReqMayBeCompleted(SetBits(L2, r, {"NET_SENT"}, {"NET_QUEUED"}), r)

HandedOverToNetwork(L, r) ==
  LET w  == IsWrite(L, r)
      L1 == IF w THEN [L EXCEPT !.ap_in_flight = @ + ReqSize(L, r)] ELSE L
      pretend == w /\ ~Has(L, r, "EXP_RECEIVE_ACK") /\ ~Has(L, r, "EXP_WRITE_ACK")
                   /\ Has(L, r, "NET_PENDING")
      L2 == IF pretend
            THEN [SetBits(L1, r, {"NET_OK"}, {"NET_PENDING"})
                  EXCEPT !.ap_pending = @ - 1]
            ELSE L1
  IN  ReqMayBeCompleted(SetBits(L2, r, {"NET_SENT"}, {"NET_QUEUED"}), r)

(* Mutation of ConnectionLostWhilePending: ap_pending is decremented     *)
(* whether or not the request was still pending.                          *)
ConnectionLostAlwaysDecrements(L, r) ==
  LET L2 == [SetBits(L, r, {"NET_DONE"}, {"NET_OK", "NET_PENDING"})
             EXCEPT !.ap_pending = @ - 1]
      L3 == IF Has(L, r, "NET_SENT") /\ Has(L, r, "WRITE")
            THEN [L2 EXCEPT !.ap_in_flight = @ - ReqSize(L, r)] ELSE L2
  IN  ReqMayBeCompleted(L3, r)

ConnectionLostWhilePending(L, r) ==
  LET L1 == IF Has(L, r, "NET_PENDING")
            THEN [L EXCEPT !.ap_pending = @ - 1] ELSE L
      L2 == SetBits(L1, r, {"NET_DONE"}, {"NET_OK", "NET_PENDING"})
      L3 == IF Has(L, r, "NET_SENT") /\ Has(L, r, "WRITE")
            THEN [L2 EXCEPT !.ap_in_flight = @ - ReqSize(L, r)] ELSE L2
  IN  ReqMayBeCompleted(L3, r)

(* Mutation of AckedByPeer: the ack also sets RQ_NET_DONE, as a          *)
(* neg-ack does.                                                          *)
AckedByPeerSetsDone(L, r) ==
  LET L1 == [SetBits(L, r, {"NET_OK", "NET_DONE"}, {"NET_PENDING"})
             EXCEPT !.ap_pending = @ - 1, !.ap_in_flight = @ - ReqSize(L, r)]
  IN  ReqMayBeCompleted(MaybeWakeupConflictingRequests(L1, r), r)

(* ack_common, reached by WRITE_ACKED_BY_PEER (protocol C) and           *)
(* RECV_ACKED_BY_PEER (protocol B).                                      *)
AckedByPeer(L, r) ==
  LET L1 == [SetBits(L, r, {"NET_OK"}, {"NET_PENDING"})
             EXCEPT !.ap_pending = @ - 1, !.ap_in_flight = @ - ReqSize(L, r)]
  IN  ReqMayBeCompleted(MaybeWakeupConflictingRequests(L1, r), r)

NegAcked(L, r) ==
  LET L1 == IF Has(L, r, "NET_PENDING")
            THEN [L EXCEPT !.ap_pending = @ - 1,
                           !.ap_in_flight = IF Has(L, r, "WRITE")
                                            THEN @ - ReqSize(L, r) ELSE @]
            ELSE L
      L2 == SetBits(L1, r, {"NET_DONE"}, {"NET_OK", "NET_PENDING"})
  IN  ReqMayBeCompleted(MaybeWakeupConflictingRequests(L2, r), r)

BarrierAcked(L, r) ==
  IF ~Has(L, r, "WRITE") THEN L
  ELSE LET L1 == IF L.req[r].s \cap NetMask # {}
                 THEN [SetBits(L, r, {"NET_DONE"}, {})
                       EXCEPT !.ap_in_flight =
                         IF ~Has(L, r, "EXP_RECEIVE_ACK") /\ ~Has(L, r, "EXP_WRITE_ACK")
                         THEN @ - ReqSize(L, r) ELSE @]
                 ELSE L
       IN  ReqMayBeDone(L1, r)

DataReceived(L, r) ==
  LET L1 == [SetBits(L, r, {"NET_OK", "NET_DONE"}, {"NET_PENDING"})
             EXCEPT !.ap_pending = @ - 1]
  IN  ReqMayBeCompleted(L1, r)

=============================================================================
