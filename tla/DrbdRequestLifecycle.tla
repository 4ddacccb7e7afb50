------------------------- MODULE DrbdRequestLifecycle -------------------------
(***************************************************************************)
(* What the request layer promises the upper layer, with no flags, locks, *)
(* threads or network: every bio handed down is completed exactly once    *)
(* and then its request is freed; a write reported successful under       *)
(* protocol B or C is on stable storage somewhere (the local disk or the  *)
(* peer) when it is reported; and every request handed down is           *)
(* eventually freed.                                                      *)
(*                                                                         *)
(* Several requests may move in one step (a connection loss completes     *)
(* every pending request at once), and one request may pass several       *)
(* phases in one step (completion and freeing under one lock), so a step *)
(* lets each request move forward any distance along its lifecycle.       *)
(***************************************************************************)
EXTENDS Naturals, Sequences

CONSTANTS Reqs

VARIABLES
  phase,    \* [Reqs -> Phases]
  result,   \* [Reqs -> completions reported to the upper layer, in order]
  kind,     \* [Reqs -> {"READ", "WRITE"}], fixed
  mode,     \* the wire protocol, fixed
  durable   \* requests whose data is on a local or peer disk

vars == <<phase, result, kind, mode, durable>>

Phases == <<"idle", "pending", "completed", "freed">>
Rank(p) == CHOOSE i \in 1..4 : Phases[i] = p

Init ==
  /\ phase = [r \in Reqs |-> "idle"]
  /\ result = [r \in Reqs |-> <<>>]
  /\ kind \in [Reqs -> {"READ", "WRITE"}]
  /\ mode \in {"A", "B", "C"}
  /\ durable = {}

(* Request r moves forward (or stays); it gets its one result exactly    *)
(* when it reaches "completed", and a successful B/C write only once its *)
(* data is durable.                                                       *)
Move(r) ==
  /\ Rank(phase'[r]) >= Rank(phase[r])
  /\ \/ result'[r] = result[r]
     \/ result[r] = <<>> /\ result'[r] \in {<<"ok">>, <<"eio">>}
  /\ (result'[r] # <<>>) <=> Rank(phase'[r]) >= Rank("completed")
  /\ (result[r] = <<>> /\ result'[r] = <<"ok">> /\ kind[r] = "WRITE"
        /\ mode # "A") => r \in durable'

Next ==
  /\ phase' \in [Reqs -> {Phases[i] : i \in 1..4}]
  /\ \A r \in Reqs : Move(r)
  /\ durable \subseteq durable'
  /\ UNCHANGED <<kind, mode>>

(* Every request handed down is eventually freed. *)
AllFreed == \A r \in Reqs : phase[r] # "idle" ~> phase[r] = "freed"

Spec == Init /\ [][Next]_vars /\ AllFreed

=============================================================================
