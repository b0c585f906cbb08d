--------------------------- MODULE MCReplication ---------------------------
(* Replication with the bounds of the configurations. *)
EXTENDS Replication
=============================================================================
