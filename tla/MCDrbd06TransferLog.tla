------------------------- MODULE MCDrbd06TransferLog -------------------------
(* Model values for Drbd06TransferLog. *)
EXTENDS Drbd06TransferLog, TLC

CONSTANTS r1, r2, r3, r4

MCReqs3 == {r1, r2, r3}
MCReqs4 == {r1, r2, r3, r4}
=============================================================================
