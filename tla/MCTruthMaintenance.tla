------------------------ MODULE MCTruthMaintenance ------------------------
(* Small instances: two entities and one declared predicate.               *)
EXTENDS TruthMaintenance

Plain == [object |-> "id", symmetric |-> FALSE, transitive |-> FALSE,
          single_valued |-> FALSE, inverse_of |-> NoPredicate, mutex_with |-> {}]
OneRank == [p |-> 1]

(* A fact and its mirror image; two values for one subject contradict,     *)
(* and a predicate may name itself in mutex_with.                          *)
MirrorRegistry == [p |-> [Plain EXCEPT !.symmetric = TRUE,
                            !.single_valued = TRUE, !.mutex_with = {"p"}]]
MirrorTriples == {<<1, "p", 2>>, <<1, "p", 1>>}
MainLimits == [total |-> 4, assert |-> 2, delete |-> 2, expire |-> 1,
               merge |-> 1, crash |-> 1, fault |-> 1]
(* A record asserted three times and merged twice, with a kill between.    *)
OneTriple == {<<1, "p", 2>>}
TwoMergesLimits == [total |-> 6, assert |-> 3, delete |-> 1, expire |-> 0,
                    merge |-> 2, crash |-> 1, fault |-> 0]
(* One fact, one kill, one delete.                                         *)
UnlinkedLimits == [total |-> 3, assert |-> 1, delete |-> 1, expire |-> 0,
                   merge |-> 0, crash |-> 1, fault |-> 0]
============================================================================
