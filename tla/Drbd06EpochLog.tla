--------------------------- MODULE Drbd06EpochLog ---------------------------
(***************************************************************************)
(* What the drbd 0.6 transfer log promises its users, without the ring:   *)
(* a sequence of epochs, oldest first.  Each epoch counts the writes       *)
(* added to it (the set size a BarrierAck must report) and holds those     *)
(* not yet acked.                                                          *)
(*                                                                         *)
(*   Add(r)        the sender's tl_add: r joins the newest epoch;          *)
(*   NewEpoch      a barrier closes the newest epoch, consuming the        *)
(*                 ISSUE_BARRIER request;                                  *)
(*   Release       a BarrierAck drops the oldest closed epoch;             *)
(*   Dependence(r) r completes: it is no longer live, and ISSUE_BARRIER is *)
(*                 requested exactly when r was in the newest epoch;       *)
(*   Clear         tl_clear hands every live write to the bitmap and the  *)
(*                 log starts over with one empty epoch.                   *)
(*                                                                         *)
(* The ring only printk's when it is too small and then overwrites its     *)
(* oldest entries, so the log promises nothing once it has overflowed.    *)
(***************************************************************************)
EXTENDS Naturals, Sequences

CONSTANT Reqs

VARIABLES
  log,     \* Seq([size : Nat, live : SUBSET Reqs]), oldest epoch first
  issue,   \* ISSUE_BARRIER: the next write must open a new epoch
  marked,  \* writes tl_clear handed to bm_set_bit(SS_OUT_OF_SYNC)
  broken   \* the ring overflowed ("transferlog too small")

vars == <<log, issue, marked, broken>>

EmptyEpoch == [size |-> 0, live |-> {}]

Init ==
  /\ log = <<EmptyEpoch>>
  /\ issue = FALSE /\ marked = {} /\ broken = FALSE

Add(r) ==
  /\ log' = [log EXCEPT ![Len(log)] = [size |-> @.size + 1, live |-> @.live \cup {r}]]
  /\ UNCHANGED <<issue, marked, broken>>

NewEpoch ==
  /\ issue /\ issue' = FALSE
  /\ log' = Append(log, EmptyEpoch)
  /\ UNCHANGED <<marked, broken>>

Release ==
  /\ Len(log) > 1
  /\ log' = Tail(log)
  /\ UNCHANGED <<issue, marked, broken>>

Dependence(r) ==
  /\ \/ \E i \in 1..Len(log) :
          /\ r \in log[i].live
          /\ log' = [log EXCEPT ![i].live = @ \ {r}]
          /\ issue' = (issue \/ i = Len(log))
     \/ /\ \A i \in 1..Len(log) : r \notin log[i].live
        /\ UNCHANGED <<log, issue>>
  /\ UNCHANGED <<marked, broken>>

Clear ==
  /\ marked' = marked \cup UNION {log[i].live : i \in 1..Len(log)}
  /\ log' = <<EmptyEpoch>>
  /\ UNCHANGED <<issue, broken>>

(* After an overflow any change is allowed. *)
Overflow == broken'

Next ==
  \/ \E r \in Reqs : Add(r) \/ Dependence(r)
  \/ NewEpoch \/ Release \/ Clear
  \/ Overflow

Spec == Init /\ [][Next]_vars

=============================================================================
