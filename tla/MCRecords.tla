----------------------------- MODULE MCRecords -----------------------------
(***************************************************************************)
(* Small instances of Records.                                             *)
(***************************************************************************)
EXTENDS Records

(* Three texts: one word twice, another, and one that holds no term.       *)
MCTokens == [x |-> <<"w", "w">>, y |-> <<"w", "z">>, blank |-> <<>>]

MCInputs ==
    {[ns |-> "n1", tags |-> {"g"}, text |-> "x", fact |-> <<1, "p", 2>>, vec |-> "u"],
     [ns |-> "n2", tags |-> {}, text |-> "blank", fact |-> NoFact, vec |-> NoVec]}

MCPatches ==
    {[tags |-> {"h"}, text |-> "y"],
     [vec |-> NoVec],
     [vec |-> "v", fact |-> <<2, "q", 2>>]}

(* mix64 sends ids 1 to 4 to buckets 812, 999, 206 and 117 of 1024.        *)
MCBuckets == <<3, 1, 2>>

(* A server that starts with two records, related or not.                  *)
First(i, n) == [id |-> i, ns |-> n, created |-> Clock(i), tags |-> {"g"}, text |-> "x",
                fact |-> NoFact, vec |-> "u", rels |-> <<>>, del |-> FALSE]
MCFilters == {{}, {"b"}}

PlainLogs == {<<First(1, "n1"), First(2, "n1")>>}
MCFirstLogs ==
    {<<First(1, "n1"), First(2, "n1")>>,
     <<[First(1, "n1") EXCEPT !.rels = << <<2, "a">> >>], First(2, "n1")>>}

NoPlan == [total |-> 4, insert |-> 0, update |-> 0, delete |-> 0, fault |-> 0, relate |-> 0,
           recall |-> 0, checkpoint |-> 0, restart |-> 0, compact |-> 0, walk |-> 0,
           sync |-> 0]

(* Writes around checkpoints, restarts and a compaction; a walk beside     *)
(* writes and a compaction; a replica that follows.                        *)
Durability == [NoPlan EXCEPT !.insert = 1, !.update = 1, !.delete = 1, !.fault = 1,
                 !.relate = 1, !.recall = 1, !.checkpoint = 1, !.restart = 1, !.compact = 1]
Walking == [NoPlan EXCEPT !.total = 3, !.walk = 1, !.insert = 1, !.update = 1, !.delete = 1,
                 !.relate = 1, !.compact = 1]
Following == [NoPlan EXCEPT !.total = 3, !.sync = 2, !.insert = 1, !.update = 1,
                 !.delete = 1, !.relate = 1, !.compact = 1]
MainPlans == {Durability, Walking, Following}
EdgePlans == {[NoPlan EXCEPT !.sync = 2, !.insert = 1, !.relate = 1, !.compact = 1]}
=============================================================================
