----------------------------- MODULE MCStorage -----------------------------
(* Storage with the bounds of the configurations. *)
EXTENDS Storage

(* The conditional properties say nothing once a checkpoint of another log *)
(* has been trusted: such a state is checked but not expanded.             *)
NotStale == ~stale
=============================================================================
