---------------------------- MODULE DrbdResource ----------------------------
(***************************************************************************)
(* One DRBD device with one peer: the submit path of drbd_req.c (request  *)
(* router, activity log, conflict wait), the local disk's completions,    *)
(* the sender thread draining sender_work onto the data socket, the peer  *)
(* answering on the meta socket, the ack receiver turning answers into    *)
(* __req_mod events, and connection loss followed by tl_clear.  Every      *)
(* step that takes resource->req_lock reads the locked state with Locked, *)
(* applies the DrbdRequest operators of the code it runs, and writes it   *)
(* back with Commit.                                                       *)
(***************************************************************************)
EXTENDS DrbdRequest

CONSTANTS
  Protocols,    \* wire protocols net_conf may carry, subset of {"A","B","C"}
  Intervals,    \* the intervals a bio may cover, non-empty subsets of Blocks
  RWs,          \* bio directions, subset of {"READ","WRITE"}
  MaxFaults,    \* bound on injected faults: disk errors, neg-acks, lost connections
  FaultKinds,   \* the kinds of fault that may be injected
  NetTimeout,   \* ent # 0: net_conf is set with a timeout and ko_count
  None          \* model value: no request / block never written

ASSUME /\ Protocols \subseteq {"A", "B", "C"}
       /\ RWs \subseteq {"READ", "WRITE"}
       /\ MaxFaults \in Nat
       /\ FaultKinds \subseteq {"ConnLoss", "LocalWrite", "LocalRead",
                               "PeerWrite", "PeerRead", "PeerHang"}
       /\ NetTimeout \in BOOLEAN

VARIABLES
  \* the upper layer's bios and net_conf, fixed for the behaviour
  bio, proto,
  \* state protected by resource->req_lock (see DrbdRequest)
  req, pc, tl, wr, rd, work, tle_nr, tle_writes, ap_pending, ap_in_flight,
  oos, endio,
  \* connection: state, the request the sender is transmitting, the
  \* sender's epoch bookkeeping (connection->send), the data socket as the
  \* history of this connection's frames with the peer's read position, and
  \* the meta socket from the peer
  cstate, sending, snd, wire, pnext, msock,
  \* the peer: writes received since its last barrier; its receiver hangs
  peer_writes, peer_stuck,
  \* time, as the request timer sees it: the requests in the order of their
  \* start_time (jiffies at drbd_make_request), of which the first aged
  \* are older than ent = timeout * ko_count
  started, aged,
  \* contents: which request last wrote each block locally and on the peer,
  \* the requests the peer received, the requests whose local write succeeded
  ldisk, pdisk, peer_has, ldone,
  \* C_PROTOCOL_ERROR was entered; faults injected so far
  proto_err, faults

lockVars == <<req, pc, tl, wr, rd, work, tle_nr, tle_writes, ap_pending,
              ap_in_flight, oos, endio>>
netVars  == <<cstate, sending, snd, wire, pnext, msock, peer_writes, peer_stuck>>
timeVars == <<started, aged>>
diskVars == <<ldisk, pdisk, peer_has, ldone>>
vars     == <<bio, proto, lockVars, netVars, diskVars, proto_err, faults,
             timeVars>>

Locked ==
  [bio |-> bio, proto |-> proto, req |-> req, pc |-> pc, tl |-> tl, wr |-> wr,
   rd |-> rd, work |-> work, tle_nr |-> tle_nr, tle_writes |-> tle_writes,
   ap_pending |-> ap_pending, ap_in_flight |-> ap_in_flight, oos |-> oos,
   endio |-> endio]

Commit(L) ==
  LET M == L IN
  /\ req' = M.req /\ pc' = M.pc /\ tl' = M.tl /\ wr' = M.wr /\ rd' = M.rd
  /\ work' = M.work /\ tle_nr' = M.tle_nr /\ tle_writes' = M.tle_writes
  /\ ap_pending' = M.ap_pending /\ ap_in_flight' = M.ap_in_flight
  /\ oos' = M.oos /\ endio' = M.endio

NoSend == [seen |-> FALSE, epoch |-> 0, writes |-> 0]

Init ==
  /\ bio \in [Reqs -> [rw : RWs, ival : Intervals]]
  /\ proto \in Protocols
  /\ req = [r \in Reqs |-> NewRequest(bio[r].rw)]
  /\ pc = [r \in Reqs |-> "idle"]
  /\ tl = <<>> /\ wr = {} /\ rd = {} /\ work = <<>>
  /\ tle_nr = 0 /\ tle_writes = 0 /\ ap_pending = 0 /\ ap_in_flight = 0
  /\ oos = {} /\ endio = [r \in Reqs |-> <<>>]
  /\ cstate = "Connected" /\ sending = None /\ snd = NoSend
  /\ wire = <<>> /\ pnext = 0 /\ msock = <<>> /\ peer_writes = 0
  /\ peer_stuck = FALSE /\ started = <<>> /\ aged = 0
  /\ ldisk = [b \in Blocks |-> None] /\ pdisk = [b \in Blocks |-> None]
  /\ peer_has = {} /\ ldone = {}
  /\ proto_err = FALSE /\ faults = 0

-----------------------------------------------------------------------------
(* Request router: __drbd_make_request *)

(* Mutation of Overlaps: only an interval equal to r's is a conflict. *)
OverlapsExact(L, r) == {q \in L.wr : q # r /\ L.bio[q].ival = L.bio[r].ival}

(* Intervals of write_requests overlapping r's: drbd_find_overlap. *)
Overlaps(L, r) == {q \in L.wr : q # r /\ L.bio[q].ival \cap L.bio[r].ival # {}}

(* drbd_process_write_request with one peer whose disk is UpToDate iff   *)
(* the connection is up; on_congestion is OC_BLOCK, so never AHEAD.      *)
DrbdProcessWriteRequest(L, r, remote) ==
  IF remote
  THEN QueueForNetWrite([ToBeSent(L, r) EXCEPT !.wr = @ \cup {r}], r)
  ELSE L

(* The part of __drbd_make_request after the conflict wait, under the    *)
(* lock.  peerUp: the peer's disk is UpToDate.  rbRemote: the read       *)
(* balancing policy's answer for this read.                              *)
MakeRequestLocked(L, r, peerUp, rbRemote) ==
  LET w     == IsWrite(L, r)
      priv  == L.req[r].priv
      \* find_peer_device_for_read
      rpeer == ~w /\ peerUp /\ (~priv \/ rbRemote)
      L1 == [L EXCEPT !.req[r].epoch = L.tle_nr,
                      !.tle_writes = IF w THEN @ + 1 ELSE @,
                      !.tl = Append(@, r), !.pc[r] = "active"]
      L2 == IF w THEN DrbdProcessWriteRequest(L1, r, peerUp)
            ELSE IF rpeer THEN QueueForNetRead(ToBeSent(L1, r), r) ELSE L1
  IN  IF ~w /\ ~rpeer /\ ~priv
      THEN ReqMayBeCompleted([L EXCEPT !.pc[r] = "active"], r)
      ELSE IF priv THEN ToBeSubmitted(L2, r) ELSE ReqMayBeCompleted(L2, r)

(* Under the lock, a write first waits in complete_conflicting_writes:   *)
(* it marks one overlapping interval waiting and sleeps on misc_wait;    *)
(* otherwise the request is routed.                                      *)
EnterLocked(L, r) ==
  IF IsWrite(L, r) /\ Overlaps(L, r) # {}
  THEN \E i \in Overlaps(L, r) :
         Commit([L EXCEPT !.req[i].waiting = TRUE, !.pc[r] = "sleep"])
  ELSE \E rb \in BOOLEAN :
         Commit(MakeRequestLocked(L, r, cstate = "Connected", rb))

(* drbd_req_new, the local disk reference, and al_begin_io for a write   *)
(* that goes to the local disk.                                          *)
AllocRequest(rw) ==
  LET fresh == NewRequest(rw) IN
  IF rw = "WRITE" /\ fresh.priv
  THEN [fresh EXCEPT !.s = @ \cup {"IN_ACT_LOG"}, !.al = TRUE]
  ELSE fresh

(* drbd_make_request: a new bio enters __drbd_make_request. *)
Submit(r) ==
  /\ pc[r] = "idle"
  /\ EnterLocked([Locked EXCEPT !.req[r] = AllocRequest(bio[r].rw)], r)
  /\ started' = Append(started, r)
  /\ UNCHANGED <<bio, proto, netVars, diskVars, proto_err, faults, aged>>

(* A request put back by drbd_restart_write re-enters __drbd_make_request *)
(* with the same master bio and a fresh request.                         *)
Retry(r) ==
  /\ pc[r] = "retry"
  /\ EnterLocked([Locked EXCEPT !.req[r] = AllocRequest(bio[r].rw)], r)
  /\ UNCHANGED <<bio, proto, netVars, diskVars, proto_err, faults, timeVars>>

(* The submitter woken on misc_wait re-runs drbd_find_overlap. *)
Woken(r) ==
  /\ pc[r] = "woken"
  /\ EnterLocked(Locked, r)
  /\ UNCHANGED <<bio, proto, netVars, diskVars, proto_err, faults, timeVars>>

-----------------------------------------------------------------------------
(* The backing device: drbd_request_endio turns the private bio's        *)
(* completion into COMPLETED_OK or *_COMPLETED_WITH_ERROR under the lock. *)
(* A failed write may or may not have reached the platter.               *)

Written(r) == [b \in Blocks |-> IF b \in bio[r].ival THEN r ELSE ldisk[b]]

LocalEndio(r) ==
  /\ pc[r] = "active" /\ "LOCAL_PENDING" \in req[r].s
  /\ \/ /\ Commit(CompletedOk(Locked, r))
        /\ IF bio[r].rw = "WRITE"
           THEN ldisk' = Written(r) /\ ldone' = ldone \cup {r}
           ELSE UNCHANGED <<ldisk, ldone>>
        /\ UNCHANGED faults
     \/ /\ faults < MaxFaults
        /\ IF bio[r].rw = "WRITE" THEN "LocalWrite" \in FaultKinds
                                  ELSE "LocalRead" \in FaultKinds
        /\ faults' = faults + 1
        /\ IF bio[r].rw = "WRITE"
           THEN /\ Commit(WriteCompletedWithError(Locked, r))
                /\ ldisk' \in {ldisk, Written(r)}
           ELSE /\ Commit(ReadCompletedWithError(Locked, r))
                /\ UNCHANGED ldisk
        /\ UNCHANGED ldone
  /\ UNCHANGED <<bio, proto, netVars, pdisk, peer_has, proto_err, timeVars>>

-----------------------------------------------------------------------------
(* The sender (w_send_dblock, w_send_read_req, wait_for_work).  Before   *)
(* the first write of a new epoch it closes the previous one with a      *)
(* Barrier frame carrying that epoch's number.  Each operator returns    *)
(* the new connection->send state and the frames it puts on the wire.    *)

ReInitIfFirstWrite(sd, e) ==
  IF sd.seen THEN sd ELSE [seen |-> TRUE, epoch |-> e, writes |-> 0]

MaybeSendBarrier(sd, e) ==
  IF ~sd.seen \/ sd.epoch = e THEN [snd |-> sd, msgs |-> <<>>]
  ELSE IF sd.writes > 0
       THEN [snd |-> [sd EXCEPT !.epoch = e, !.writes = 0],
             msgs |-> <<[type |-> "Barrier", nr |-> sd.epoch]>>]
       ELSE [snd |-> [sd EXCEPT !.epoch = e], msgs |-> <<>>]

(* The work callback finds the connection gone and cancels the request. *)
SenderCancel ==
  /\ work # <<>> /\ sending = None /\ cstate # "Connected"
  /\ Commit(SendCanceled([Locked EXCEPT !.work = Tail(@)], Head(work)))
  /\ UNCHANGED <<bio, proto, netVars, diskVars, proto_err, faults, timeVars>>

(* The sender dequeues a request and writes its frame(s) to the data    *)
(* socket, outside req_lock.                                            *)
SenderSend ==
  /\ work # <<>> /\ sending = None /\ cstate = "Connected"
  /\ LET r == Head(work)
         e == req[r].epoch
         b == IF req[r].cb = "send_dblock"
              THEN MaybeSendBarrier(ReInitIfFirstWrite(snd, e), e)
              ELSE MaybeSendBarrier(snd, e)
     IN  /\ snd' = IF req[r].cb = "send_dblock"
                   THEN [b.snd EXCEPT !.writes = @ + 1] ELSE b.snd
         /\ wire' = wire \o b.msgs \o
                    <<IF req[r].cb = "send_dblock"
                      THEN [type |-> "Data", req |-> r, epoch |-> e]
                      ELSE [type |-> "ReadReq", req |-> r]>>
         /\ sending' = r
  /\ work' = Tail(work)
  /\ UNCHANGED <<bio, proto, req, pc, tl, wr, rd, tle_nr, tle_writes,
                 ap_pending, ap_in_flight, oos, endio, cstate, pnext, msock,
                 peer_writes, peer_stuck, diskVars, proto_err, faults, timeVars>>

(* Back under the lock: HANDED_OVER_TO_NETWORK, or SEND_FAILED when the  *)
(* connection broke during the send.  The peer may already have answered.*)
SenderDone ==
  /\ sending # None
  /\ \/ Commit(HandedOverToNetwork(Locked, sending))
     \/ cstate # "Connected" /\ Commit(SendCanceled(Locked, sending))
  /\ sending' = None
  /\ UNCHANGED <<bio, proto, cstate, snd, wire, pnext, msock, peer_writes,
                 peer_stuck, diskVars, proto_err, faults, timeVars>>

(* wait_for_work with an empty queue: the epoch was closed, so send the  *)
(* barrier that ends it.                                                 *)
SenderIdleBarrier ==
  /\ work = <<>> /\ sending = None /\ cstate = "Connected"
  /\ snd.seen /\ tle_nr # snd.epoch
  /\ LET b == MaybeSendBarrier(snd, snd.epoch + 1)
     IN  snd' = b.snd /\ wire' = wire \o b.msgs
  /\ UNCHANGED <<bio, proto, lockVars, cstate, sending, pnext, msock,
                 peer_writes, peer_stuck, diskVars, proto_err, faults, timeVars>>

-----------------------------------------------------------------------------
(* The peer's receiver, reading the data socket in order.  A write is    *)
(* applied and answered per protocol (none for A, RecvAck for B,         *)
(* WriteAck or, on a disk error, NegAck for C); a barrier is answered    *)
(* with the number of writes received since the previous one; a read     *)
(* request with the data or, on a disk error, NegDReply.                 *)

Answer(t, r) == [type |-> t, req |-> r]

PeerData(m) ==
  /\ peer_writes' = peer_writes + 1
  /\ \/ /\ pdisk' = [b \in Blocks |-> IF b \in bio[m.req].ival THEN m.req ELSE pdisk[b]]
        /\ peer_has' = peer_has \cup {m.req}
        /\ msock' = CASE proto = "C" -> Append(msock, Answer("WriteAck", m.req))
                      [] proto = "B" -> Append(msock, Answer("RecvAck", m.req))
                      [] OTHER       -> msock
        /\ UNCHANGED faults
     \/ /\ proto = "C" /\ "PeerWrite" \in FaultKinds /\ faults < MaxFaults
        /\ faults' = faults + 1
        /\ msock' = Append(msock, Answer("NegAck", m.req))
        /\ UNCHANGED <<pdisk, peer_has>>

PeerBarrier(m) ==
  /\ msock' = Append(msock, [type |-> "BarrierAck", nr |-> m.nr, size |-> peer_writes])
  /\ peer_writes' = 0
  /\ UNCHANGED <<pdisk, peer_has, faults>>

PeerRead(m) ==
  /\ UNCHANGED <<peer_writes, pdisk, peer_has>>
  /\ \/ msock' = Append(msock, Answer("DataReply", m.req)) /\ UNCHANGED faults
     \/ /\ "PeerRead" \in FaultKinds /\ faults < MaxFaults
        /\ faults' = faults + 1
        /\ msock' = Append(msock, Answer("NegDReply", m.req))

PeerReceive ==
  /\ pnext < Len(wire) /\ ~peer_stuck
  /\ pnext' = pnext + 1
  /\ LET m == wire[pnext + 1] IN
     CASE m.type = "Data"    -> PeerData(m)
       [] m.type = "Barrier" -> PeerBarrier(m)
       [] OTHER              -> PeerRead(m)
  /\ UNCHANGED <<bio, proto, lockVars, cstate, sending, snd, wire, ldisk,
                 ldone, proto_err, peer_stuck, timeVars>>

-----------------------------------------------------------------------------
(* The ack receiver (asender).  An answer names its request by block_id; *)
(* the request must still be in the interval tree of its direction, or   *)
(* the connection goes to C_PROTOCOL_ERROR.  A BarrierAck runs tl_release.*)

(* A write still waiting for its barrier ack in tl_release's scan. *)
AwaitsBarrierAck(L, q) ==
  IsWrite(L, q) /\ L.req[q].s \cap NetMask # {} /\ "NET_DONE" \notin L.req[q].s

(* The last index of the run of entries of epoch e starting at s. *)
EpochRunEnd(L, s, e) ==
  Max({j \in s..Len(L.tl) : \A k \in s..j : L.req[L.tl[k]].epoch = e})

(* tl_release(connection, barrier_nr, set_size): find the oldest write  *)
(* not yet barrier-acked, count the writes of its epoch, check both     *)
(* against the ack, then BARRIER_ACKED every entry of that epoch.        *)
TlRelease(L, nr, size) ==
  LET first == {i \in 1..Len(L.tl) : AwaitsBarrierAck(L, L.tl[i])} IN
  IF first = {} THEN [ok |-> FALSE, L |-> L]
  ELSE
    LET f     == Min(first)
        e     == L.req[L.tl[f]].epoch
        count == Cardinality({i \in f..EpochRunEnd(L, f, e) : IsWrite(L, L.tl[i])})
        s0    == Min({i \in 1..Len(L.tl) : L.req[L.tl[i]].epoch = e})
        acked == SubSeq(L.tl, s0, EpochRunEnd(L, s0, e))
    IN  IF e # nr \/ count # size THEN [ok |-> FALSE, L |-> L]
        ELSE [ok |-> TRUE, L |-> FoldLeft(BarrierAcked, L, acked)]

(* A connection leaving C_CONNECTED drops both sockets with whatever they *)
(* carried; the peer's receiver goes with its connection.                *)
DropSockets ==
  wire' = <<>> /\ pnext' = 0 /\ msock' = <<>> /\ peer_stuck' = FALSE

(* conn_request_state(C_PROTOCOL_ERROR): both sockets are dropped. *)
ProtocolError ==
  /\ proto_err' = TRUE /\ cstate' = "Disconnecting"
  /\ DropSockets
  /\ UNCHANGED lockVars

AckReceive ==
  /\ msock # <<>>
  /\ LET m == Head(msock)
         L == Locked
         ack(ev(_, _), tree) ==
           IF m.req \in tree
           THEN Commit(ev(L, m.req)) /\ msock' = Tail(msock)
                /\ UNCHANGED <<cstate, wire, pnext, proto_err, peer_stuck>>
           ELSE ProtocolError
     IN CASE m.type \in {"RecvAck", "WriteAck"} -> ack(AckedByPeer, wr)
          [] m.type = "NegAck"    -> ack(NegAcked, wr)
          [] m.type = "DataReply" -> ack(DataReceived, rd)
          [] m.type = "NegDReply" -> ack(NegAcked, rd)
          [] OTHER ->
               LET res == TlRelease(L, m.nr, m.size) IN
               IF res.ok
               THEN Commit(res.L) /\ msock' = Tail(msock)
                    /\ UNCHANGED <<cstate, wire, pnext, proto_err, peer_stuck>>
               ELSE ProtocolError
  /\ UNCHANGED <<bio, proto, sending, snd, peer_writes, diskVars, faults,
                 timeVars>>

-----------------------------------------------------------------------------
(* Connection life cycle.  A network failure drops both sockets with     *)
(* whatever they carried; once the sender has flushed its queue,          *)
(* tl_clear applies CONNECTION_LOST_WHILE_PENDING to every request on   *)
(* the transfer log.  Reconnecting starts a fresh send state and peer.    *)

(* Mutation of ConnLost: the peer's read position survives the lost     *)
(* socket.                                                                *)
ConnLostKeepsReadPos ==
  /\ cstate = "Connected" /\ "ConnLoss" \in FaultKinds /\ faults < MaxFaults
  /\ faults' = faults + 1
  /\ cstate' = "Disconnecting" /\ wire' = <<>> /\ msock' = <<>>
  /\ peer_stuck' = FALSE
  /\ UNCHANGED <<bio, proto, lockVars, sending, snd, pnext, peer_writes, diskVars,
                 proto_err, timeVars>>

ConnLost ==
  /\ cstate = "Connected" /\ "ConnLoss" \in FaultKinds /\ faults < MaxFaults
  /\ faults' = faults + 1
  /\ cstate' = "Disconnecting" /\ DropSockets
  /\ UNCHANGED <<bio, proto, lockVars, sending, snd, peer_writes, diskVars,
                 proto_err, timeVars>>

(* The peer's receiver stops reading the data socket (stuck on its disk, *)
(* say) while the connection stays up and nothing is answered.           *)
PeerHang ==
  /\ cstate = "Connected" /\ ~peer_stuck
  /\ "PeerHang" \in FaultKinds /\ faults < MaxFaults
  /\ faults' = faults + 1 /\ peer_stuck' = TRUE
  /\ UNCHANGED <<bio, proto, lockVars, cstate, sending, snd, wire, pnext, msock,
                 peer_writes, diskVars, proto_err, timeVars>>

TlClear ==
  /\ cstate = "Disconnecting" /\ work = <<>> /\ sending = None
  /\ Commit(FoldLeft(ConnectionLostWhilePending, Locked, tl))
  /\ cstate' = "Unconnected"
  /\ UNCHANGED <<bio, proto, sending, snd, wire, pnext, msock, peer_writes,
                 peer_stuck, diskVars, proto_err, faults, timeVars>>

Connect ==
  /\ cstate = "Unconnected"
  /\ cstate' = "Connected" /\ snd' = NoSend /\ peer_writes' = 0
  /\ UNCHANGED <<bio, proto, lockVars, sending, wire, pnext, msock, peer_stuck,
                 diskVars, proto_err, faults, timeVars>>

-----------------------------------------------------------------------------
(* The request timer.  Time is abstracted to the order of the requests'  *)
(* start_time and how many of them are older than ent; the timer only    *)
(* reads it, so it advances only when the timer is armed (ent # 0).      *)
(* disk_timeout is 0 (its default): dt = 0 and et = ent.                 *)

Expired(r) == \E i \in 1..aged : started[i] = r

(* Time passes beyond the start of one more request plus ent. *)
Tick ==
  /\ NetTimeout /\ aged < Len(started)
  /\ aged' = aged + 1
  /\ UNCHANGED <<bio, proto, lockVars, netVars, diskVars, proto_err, faults,
                 started>>

(* Mutation of FindOldestRequest: only the local part is looked at. *)
FindOldestRequestLocal(L) ==
  LET pend == {i \in 1..Len(L.tl) : "LOCAL_PENDING" \in L.req[L.tl[i]].s}
  IN  IF pend = {} THEN None ELSE L.tl[Min(pend)]

(* find_oldest_request: the first request on the transfer log whose      *)
(* local or network part is still pending.                                *)
FindOldestRequest(L) ==
  LET pend == {i \in 1..Len(L.tl) :
                 L.req[L.tl[i]].s \cap {"NET_PENDING", "LOCAL_PENDING"} # {}}
  IN  IF pend = {} THEN None ELSE L.tl[Min(pend)]

(* request_timer_fn: when the oldest pending request is NET_PENDING and *)
(* started at least ent ago, the connection goes to C_TIMEOUT, which     *)
(* drops it like a network failure.  Every other outcome only re-arms   *)
(* the timer.  The state engine, not under src/, leaves only             *)
(* C_CONNECTED for C_TIMEOUT.                                            *)
RequestTimerFn ==
  LET o == FindOldestRequest(Locked) IN
  /\ NetTimeout /\ o # None
  /\ "NET_PENDING" \in req[o].s /\ Expired(o)
  /\ cstate = "Connected"
  /\ cstate' = "Disconnecting" /\ DropSockets
  /\ UNCHANGED <<bio, proto, lockVars, sending, snd, peer_writes, diskVars,
                 proto_err, faults, timeVars>>

(* Every request has been freed: the system idles. *)
Quiescent ==
  /\ \A r \in Reqs : pc[r] = "freed"
  /\ UNCHANGED vars

Next ==
  \/ \E r \in Reqs : Submit(r) \/ Retry(r) \/ Woken(r) \/ LocalEndio(r)
  \/ SenderCancel \/ SenderSend \/ SenderDone \/ SenderIdleBarrier
  \/ PeerReceive \/ AckReceive
  \/ ConnLost \/ PeerHang \/ TlClear \/ Connect
  \/ Tick \/ RequestTimerFn
  \/ Quiescent

(* The threads of the device: per request its submitter, its local disk *)
(* and the retry worker; the sender; the peer's receiver; the ack       *)
(* receiver; the worker that runs tl_clear; the request timer, which    *)
(* re-arms itself on every run while et # 0.  Each runs whenever it can, *)
(* and time passes.  The upper layer's submissions, faults and           *)
(* reconnects are not forced.  Each guard below is the conjunction of   *)
(* the enabling conjuncts of its thread's actions, which are total once  *)
(* their guard holds and always change the state; so the guard is        *)
(* ENABLED <<A>>_vars, and WF_vars(A) is written with it, which TLC      *)
(* evaluates far faster than ENABLED.                                     *)
ReqThreadGuard(r) ==
  \/ pc[r] \in {"retry", "woken"}
  \/ pc[r] = "active" /\ "LOCAL_PENDING" \in req[r].s
ReqThread(r) == Retry(r) \/ Woken(r) \/ LocalEndio(r)

SenderGuard ==
  \/ work # <<>> /\ sending = None
  \/ sending # None
  \/ /\ work = <<>> /\ sending = None /\ cstate = "Connected"
     /\ snd.seen /\ tle_nr # snd.epoch
Sender == SenderCancel \/ SenderSend \/ SenderDone \/ SenderIdleBarrier

PeerGuard == pnext < Len(wire) /\ ~peer_stuck
AckGuard == msock # <<>>
TlClearGuard == cstate = "Disconnecting" /\ work = <<>> /\ sending = None
TickGuard == NetTimeout /\ aged < Len(started)
TimerGuard ==
  LET o == FindOldestRequest(Locked) IN
  /\ NetTimeout /\ o # None
  /\ "NET_PENDING" \in req[o].s /\ Expired(o) /\ cstate = "Connected"

Fairness ==
  /\ \A r \in Reqs : []<>~ReqThreadGuard(r) \/ []<><<ReqThread(r)>>_vars
  /\ []<>~SenderGuard \/ []<><<Sender>>_vars
  /\ []<>~PeerGuard \/ []<><<PeerReceive>>_vars
  /\ []<>~AckGuard \/ []<><<AckReceive>>_vars
  /\ []<>~TlClearGuard \/ []<><<TlClear>>_vars
  /\ []<>~TickGuard \/ []<><<Tick>>_vars
  /\ []<>~TimerGuard \/ []<><<RequestTimerFn>>_vars

Spec == Init /\ [][Next]_vars /\ Fairness

-----------------------------------------------------------------------------
(* Properties *)

Lifecycle == {"idle", "sleep", "woken", "active", "retry", "freed"}
Frames == [type : {"Data"}, req : Reqs, epoch : Nat]
          \cup [type : {"ReadReq"}, req : Reqs] \cup [type : {"Barrier"}, nr : Nat]
Answers == [type : {"RecvAck", "WriteAck", "NegAck", "DataReply", "NegDReply"}, req : Reqs]
           \cup [type : {"BarrierAck"}, nr : Nat, size : Nat]

TypeOK ==
  /\ proto \in Protocols
  /\ bio \in [Reqs -> [rw : RWs, ival : Intervals]]
  /\ req \in [Reqs -> [s : SUBSET Flags, master : BOOLEAN, priv : BOOLEAN,
                       epoch : Nat, waiting : BOOLEAN, al : BOOLEAN,
                       cb : {"none", "send_dblock", "send_read_req"}]]
  /\ pc \in [Reqs -> Lifecycle]
  /\ tl \in Seq(Reqs) /\ work \in Seq(Reqs)
  /\ wr \subseteq Reqs /\ rd \subseteq Reqs
  /\ tle_nr \in Nat /\ tle_writes \in Nat
  /\ ap_pending \in Int /\ ap_in_flight \in Int
  /\ oos \subseteq Blocks /\ endio \in [Reqs -> Seq({"ok", "eio"})]
  /\ cstate \in {"Connected", "Disconnecting", "Unconnected"}
  /\ sending \in Reqs \cup {None}
  /\ snd \in [seen : BOOLEAN, epoch : Nat, writes : Nat]
  /\ wire \in Seq(Frames) /\ pnext \in 0..Len(wire) /\ msock \in Seq(Answers)
  /\ peer_writes \in Nat
  /\ ldisk \in [Blocks -> Reqs \cup {None}] /\ pdisk \in [Blocks -> Reqs \cup {None}]
  /\ peer_has \subseteq Reqs /\ ldone \subseteq Reqs
  /\ proto_err \in BOOLEAN /\ faults \in 0..MaxFaults
  /\ peer_stuck \in BOOLEAN /\ started \in Seq(Reqs) /\ aged \in 0..Len(started)

(* The ack receiver never meets an answer it cannot place: every ack    *)
(* names a request still in its interval tree, and every BarrierAck     *)
(* matches the oldest open epoch of the transfer log in number and in   *)
(* write count (tl_release's checks, __req_mod's completion and the     *)
(* sender's barriers together).                                          *)
NoProtocolError == ~proto_err

(* ap_pending counts exactly the requests with RQ_NET_PENDING: every     *)
(* __req_mod event that clears the flag decrements it once.              *)
ApPendingMatchesFlags ==
  ap_pending = Cardinality({r \in Reqs : "NET_PENDING" \in req[r].s})

(* A block where the local and the peer disk differ is either marked out *)
(* of sync or covered by an activity-log extent still held by a request: *)
(* _req_is_done drops the AL reference only with or after the bitmap      *)
(* update, so a crash never forgets a block to resync.                    *)
CrashSafeCoverage ==
  \A b \in Blocks :
    ldisk[b] # pdisk[b] =>
      \/ b \in oos
      \/ \E r \in Reqs : req[r].al /\ b \in bio[r].ival

(* A request freed by _req_is_done is referenced by nothing: not by the *)
(* transfer log, an interval tree, the sender queue or the sender, and   *)
(* no frame or answer in flight names it.                                *)
NoUseAfterFree ==
  \A r \in Reqs : pc[r] = "freed" =>
    /\ ~Contains(tl, r) /\ r \notin wr \cup rd
    /\ ~Contains(work, r) /\ sending # r
    /\ \A i \in pnext + 1..Len(wire) : "req" \in DOMAIN wire[i] => wire[i].req # r
    /\ \A i \in 1..Len(msock) : "req" \in DOMAIN msock[i] => msock[i].req # r

(* The master bio is completed at most once, and a freed request's       *)
(* exactly once (req_may_be_completed clears master_bio when it hands it *)
(* back; a postponed request keeps it for the retry).                    *)
SingleCompletion ==
  \A r \in Reqs :
    /\ Len(endio[r]) <= 1
    /\ pc[r] = "freed" => Len(endio[r]) = 1

(* Once no request is alive, ap_in_flight, the sectors handed to the     *)
(* network and not yet acknowledged, is back to zero.                     *)
InFlightDrains ==
  (\A r \in Reqs : pc[r] \in {"idle", "freed"}) => ap_in_flight = 0

(* A read is served by one source: find_peer_device_for_read "destroys   *)
(* req->private_bio" when it returns a peer, so a read never waits on    *)
(* the local disk and on the peer at once.                                *)
ReadSingleSource ==
  \A r \in Reqs :
    bio[r].rw = "READ" => ~({"LOCAL_PENDING", "NET_PENDING"} \subseteq req[r].s)

(* No two overlapping writes are in write_requests at once (spec.md P6):  *)
(* complete_conflicting_writes keeps a new write out of the tree until     *)
(* every overlapping one has left it, across wake-ups on misc_wait,        *)
(* retries and completions in any order.                                   *)
ConflictExclusion ==
  \A r1, r2 \in wr : r1 # r2 => bio[r1].ival \cap bio[r2].ival = {}

(* A protocol B or C write whose master bio completed successfully is on *)
(* the peer or marked out of sync for it.  The ack proves the peer has  *)
(* it; a write that lost its connection completes only once tl_clear's  *)
(* CONNECTION_LOST_WHILE_PENDING has set RQ_NET_DONE, and _req_is_done    *)
(* marks it in the same req_lock section, since RQ_NET_OK is missing.     *)
(* (A failed local write detaches the disk, __drbd_chk_io_error.)        *)
SyncedOrMarked ==
  \A r \in Reqs :
    (bio[r].rw = "WRITE" /\ proto \in {"B", "C"} /\ endio[r] = <<"ok">>) =>
      r \in peer_has \/ bio[r].ival \subseteq oos

(* A peer whose receiver stops answering does not hold the upper layer  *)
(* forever: request_timer_fn finds the oldest request still pending,      *)
(* times the connection out once that request is NET_PENDING and older   *)
(* than ent, and tl_clear then completes every master bio still waiting  *)
(* on the peer.  So every write handed down has its master bio          *)
(* completed, whatever the peer does.  (Reads are left out: one whose    *)
(* local part failed is never completed, see ReadSingleSource's and      *)
(* RequestsFinish's runs.)                                                *)
MasterBiosComplete ==
  \A r \in Reqs : pc[r] # "idle" /\ bio[r].rw = "WRITE" ~> endio[r] # <<>>

(* Every request that entered __drbd_make_request is eventually freed.  *)
RequestsFinish ==
  \A r \in Reqs : pc[r] # "idle" ~> pc[r] = "freed"

-----------------------------------------------------------------------------
(* Refinement of the request lifecycle.  A request is pending from        *)
(* __drbd_make_request until its master bio's first bio_endio, completed *)
(* from then until _req_is_done frees it.  Its results are the bio_endio *)
(* calls themselves, and its data is durable once the local write         *)
(* succeeded or the peer received it.                                     *)
LifecyclePhase(r) ==
  CASE pc[r] = "idle"    -> "idle"
    [] pc[r] = "freed"   -> "freed"
    [] endio[r] # <<>>   -> "completed"
    [] OTHER             -> "pending"

Life == INSTANCE DrbdRequestLifecycle WITH
          phase   <- [r \in Reqs |-> LifecyclePhase(r)],
          result  <- endio,
          kind    <- [r \in Reqs |-> bio[r].rw],
          mode    <- proto,
          durable <- ldone \cup peer_has

(* The request layer implements the lifecycle: each master bio is        *)
(* completed exactly once before its request is freed, a B/C write is    *)
(* reported successful only when durable on one side, and every request *)
(* handed down is eventually freed.                                       *)
LifecycleRefined == Life!Spec

=============================================================================
