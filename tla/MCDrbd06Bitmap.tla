--------------------------- MODULE MCDrbd06Bitmap ---------------------------
(* Instances of Drbd06Bitmap (unsigned longs of two bytes of two bits)    *)
(* and of Drbd06MetaData (u32s of four one-bit bytes, two nodes).         *)
(*                                                                         *)
(* The two components share no variable and no property relates them, so *)
(* a behaviour runs one of them and leaves the other in its initial      *)
(* state: every state of either is reached as in the product, and the    *)
(* state count is the sum of theirs, not their product.                  *)
EXTENDS Drbd06Bitmap, Drbd06MetaData, TLC

VARIABLE part  \* "bitmap" or "metadata": the component this behaviour runs

MdAtRest ==
  /\ primary = [n \in Nodes |-> FALSE] /\ file = [n \in Nodes |-> <<>>]
  /\ gen = [n \in Nodes |-> Zeros] /\ wr = [n \in Nodes |-> "idle"]
  /\ alive = [n \in Nodes |-> FALSE] /\ md_err = [n \in Nodes |-> FALSE]
  /\ faults = 0

MCInit ==
  /\ part \in {"bitmap", "metadata"}
  /\ Init
  /\ IF part = "bitmap" THEN MdAtRest ELSE MdInit

MCNext ==
  \/ part = "bitmap" /\ Next /\ UNCHANGED <<mdVars, part>>
  \/ part = "metadata" /\ MdNext /\ UNCHANGED <<vars, part>>

MCSpec == MCInit /\ [][MCNext]_<<vars, mdVars, part>>

(* The bitmap alone, for the runs whose counterexamples are about it. *)
MCBitmapSpec == part = "bitmap" /\ MCSpec

NodeSymmetry == Permutations(Nodes)
=============================================================================
