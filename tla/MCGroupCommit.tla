--------------------------- MODULE MCGroupCommit ---------------------------
(* GroupCommit with the bounds of the configurations. *)
EXTENDS GroupCommit

CONSTANTS w1, w2

MCWriters2 == {w1, w2}
=============================================================================
