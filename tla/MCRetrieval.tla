----------------------------- MODULE MCRetrieval -----------------------------
(***************************************************************************)
(* The read path: the search operators, the vector graph and the hash      *)
(* tables under the indexes.  Each is called under the locks of the one    *)
(* above and changes no state of it, so the instance runs one part at a    *)
(* time, which part says.                                                  *)
(***************************************************************************)
EXTENDS Search, Hnsw, ProbeTable

VARIABLE part

(* Search: one store for the ranked sources, one for filters, pages,       *)
(* counts and bulk deletes, three for subsumption, and one of records with *)
(* several vectors behind a graph.                                         *)
Rec(ns, created, imp, sims, bm25) ==
    [live |-> TRUE, expired |-> FALSE, ns |-> ns, type |-> "semantic", tags |-> {},
     created |-> created, imp |-> imp, conf |-> 1, sims |-> sims, bm25 |-> bm25, fact |-> <<>>]
Tagged(r, tags) == [r EXCEPT !.tags = tags]
Fact(r, s, p, o) == [r EXCEPT !.fact = <<s, p, o>>]
Gone(r) == [r EXCEPT !.live = FALSE]

NoPattern == [s |-> 0, p |-> "any", o |-> 0]
Query(op, src, k, offset) ==
    [op |-> op, src |-> src, k |-> k, offset |-> offset, ns |-> AnyNs, type |-> "any",
     tags |-> {}, all |-> TRUE, time |-> <<>>, oldest |-> FALSE, maxImp |-> -1,
     hasPat |-> FALSE, pat |-> NoPattern, subsume |-> FALSE, minScore |-> 0,
     track |-> FALSE, graph |-> FALSE]

Update(i, r) == [id |-> i, insert |-> FALSE, rec |-> r]
Insert(i, r) == [id |-> i, insert |-> TRUE, rec |-> r]

(* Ranked sources: the best answers belong to the other namespace, or lack *)
(* the tag.                                                                *)
RankedStore ==
    << Rec("b", 1, 1, {9}, 2), Tagged(Rec("a", 1, 3, {3}, 0), {"t"}), Rec("b", 2, 1, {8}, 5),
       Tagged(Rec("a", 2, 0, {5}, 7), {"t", "u"}), Rec("a", 3, 2, {}, 4), Rec("a", 3, 1, {2}, 6) >>
RankedPlan ==
    [store |-> RankedStore,
     queries |-> {[Query("search", src, k, off) EXCEPT !.ns = ns, !.tags = tags, !.all = FALSE,
                                                       !.minScore = min, !.track = (k = 2),
                                                       !.graph = (off = 0)] :
                     src \in {"semantic", "lexical", "hybrid"}, k \in {1, 2, 4}, off \in {0, 1},
                     ns \in {AnyNs, "a"}, tags \in {{}, {"t"}}, min \in {0, 4}},
     writes |-> {Update(4, Gone(RankedStore[4])), Update(1, [RankedStore[1] EXCEPT !.bm25 = 0])}]

(* One record holds the terms, and the matching ones come last by vector.  *)
SparsePlan ==
    [store |-> [i \in 1 .. 6 |-> [Rec("a", i, 1, {10 - i}, IF i = 1 THEN 1 ELSE 0)
                                     EXCEPT !.tags = IF i > 4 THEN {"t"} ELSE {}]],
     queries |-> {[Query("search", "hybrid", k, 0) EXCEPT !.tags = {"t"}] : k \in 1 .. 3},
     writes |-> {}]

(* Filters: five records, two in the same millisecond, one yet to be inserted.      *)
FilterStore ==
    << Tagged(Rec("a", 3, 1, {}, 0), {"t"}), Tagged(Rec("b", 1, 2, {}, 0), {"t"}),
       Tagged(Rec("a", 2, 3, {}, 0), {"t", "u"}), Tagged(Rec("a", 0, 0, {}, 0), {"t"}),
       Tagged(Rec("a", 1, 1, {}, 0), {"u"}), Gone(Tagged(Rec("a", 3, 1, {}, 0), {"t"})) >>
FilterQueries ==
    {[Query(op, "filter", k, off) EXCEPT !.ns = ns, !.tags = tags, !.all = all, !.time = time,
                                         !.oldest = old, !.maxImp = imp, !.track = TRUE,
                                         !.type = "semantic"] :
        op \in {"search", "count", "delete"}, k \in {1, 3}, off \in {0, 2}, ns \in {AnyNs, "a"},
        tags \in {{}, {"t", "u"}}, all \in {TRUE, FALSE}, time \in {<<>>, <<1, 2>>},
        old \in {TRUE, FALSE}, imp \in {-1, 2}}
FilterPlan ==
    [store |-> FilterStore,
     queries |-> {p \in FilterQueries : p.op # "search" => p.k = 1 /\ p.offset = 0},
     writes |-> {Insert(6, Tagged(Rec("a", 3, 1, {}, 0), {"t"})),
                 Update(3, [Tagged(FilterStore[3], {}) EXCEPT !.expired = TRUE])}]

(* Subsumption: 4 and 5 are a 1, by the caller's records or another's.     *)
MemberPlan(store, ops, ws) ==
    [store |-> store,
     queries |-> {[Query(op, "filter", 6, 0) EXCEPT !.ns = ns, !.hasPat = TRUE, !.subsume = sub,
                     !.pat = [s |-> 1, p |-> p, o |-> o]] :
                     op \in ops, ns \in {AnyNs, "a"}, sub \in {TRUE, FALSE},
                     p \in {"any", "uses"}, o \in {0, -1}}
                 \cup {[Query("search", "filter", 2, 0) EXCEPT !.hasPat = TRUE,
                          !.pat = [s |-> 0, p |-> "uses", o |-> o]] : o \in {0, -1}},
     writes |-> ws]
AFact(ns, s, p, o) == Fact(Rec(ns, 1, 1, {}, 0), s, p, o)
TwiceStore == << AFact("a", 1, "uses", -1), AFact("a", 4, "is_a", 1), AFact("a", 4, "is_a", 1),
                 AFact("a", 4, "uses", -1), AFact("b", 5, "uses", -1), AFact("a", 5, "uses", 2) >>
OtherStore == [TwiceStore EXCEPT ![3] = AFact("b", 5, "is_a", 1)]
ManyStore == [TwiceStore EXCEPT ![3] = AFact("a", 5, "is_a", 1), ![5] = AFact("a", 6, "is_a", 1),
                                ![6] = AFact("a", 6, "uses", -1)]

(* Records with two vectors each, behind a graph.                          *)
VectorPlan ==
    [store |-> << Rec("a", 1, 1, {20, 19, 18, 17}, 0), Rec("a", 1, 1, {16, 5}, 0),
                  Rec("a", 1, 1, {15, 4}, 0), Rec("a", 1, 1, {}, 1),
                  Gone(Rec("a", 1, 1, {}, 0)), Gone(Rec("a", 1, 1, {}, 0)) >>,
     queries |-> {[Query("search", "semantic", k, 0) EXCEPT !.graph = gr] :
                     k \in {1, 2}, gr \in BOOLEAN},
     writes |-> {}]

MCSearchPlans ==
    {RankedPlan, SparsePlan, FilterPlan, VectorPlan, MemberPlan(TwiceStore, {"search"}, {}),
     MemberPlan(OtherStore, {"search", "count"}, {Update(2, Gone(TwiceStore[2]))}),
     MemberPlan(ManyStore, {"search", "count"}, {})}

-----------------------------------------------------------------------------
(* The graph: additions in an order that splits the vectors into groups,   *)
(* with removals, with failures and reloads, and undisturbed.              *)
Budget(r, f, l) == [remove |-> r, fault |-> f, reload |-> l]
MCHnswPlans ==
    {[stream |-> <<0, 1, 4, 10, 12>>, budget |-> Budget(2, 0, 0)],
     [stream |-> <<12, 0, 10, 4>>, budget |-> Budget(1, 1, 1)],
     [stream |-> <<4, 10, 0, 12, 1, 17>>, budget |-> Budget(0, 0, 0)]}

(* The tables: 1 and 2 collide at the last slot, 3 runs into them, and 4   *)
(* comes after the wrap.                                                   *)
MCHash == (1 :> 7) @@ (2 :> 15) @@ (3 :> 6) @@ (4 :> 0)

-----------------------------------------------------------------------------
(* The parts that do not run have one initial state.                       *)
Pinned ==
    /\ part # "table" => table = "usage"
    /\ part # "graph" => budget = Budget(0, 0, 0)
    /\ part # "search" => db = VectorPlan.store /\ q.k = 1 /\ q.graph

RetrievalInit ==
    /\ part \in {"search", "graph", "table"}
    /\ SearchInit /\ HnswInit /\ TableInit /\ Pinned

RetrievalNext ==
    \/ part = "search" /\ SearchNext /\ UNCHANGED <<part, hvars, tvars>>
    \/ part = "graph" /\ HnswNext /\ UNCHANGED <<part, svars, tvars>>
    \/ part = "table" /\ TableNext /\ UNCHANGED <<part, svars, hvars>>

RetrievalSpec == RetrievalInit /\ [][RetrievalNext]_<<part, svars, hvars, tvars>>
=============================================================================
