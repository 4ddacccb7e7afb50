--------------------------- MODULE MCDrbdResource ---------------------------
(* Model-checking instance of DrbdResource: two requests over two blocks. *)
EXTENDS DrbdResource, TLC

CONSTANTS r1, r2

MCReqs == {r1, r2}
MCIntervals == {{1}, {1, 2}}
MCOneReq == {r1}
MCSymmetry == Permutations(MCReqs)

=============================================================================
