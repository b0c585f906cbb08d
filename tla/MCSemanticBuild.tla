-------------------------- MODULE MCSemanticBuild --------------------------
(***************************************************************************)
(* Small instances of SemanticBuild.                                       *)
(***************************************************************************)
EXTENDS SemanticBuild

MCInputs == {<<"u">>, <<"v", "u">>}

(* Slots of one record fall into different shards.                         *)
MCMix == [id \in {<<r, k>> : r \in Recs, k \in 0 .. 1} |-> id[1] + id[2]]

MainLimits == [writes |-> 4, faults |-> 1, saves |-> 1, restarts |-> 1, resets |-> 1,
               total |-> 5]
ResetLimits == [writes |-> 3, faults |-> 0, saves |-> 0, restarts |-> 0, resets |-> 1,
                total |-> 4]
=============================================================================
