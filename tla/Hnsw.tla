-------------------------------- MODULE Hnsw --------------------------------
(***************************************************************************)
(* The nearest-neighbour graph of src/src/storage/hnsw.c: nodes in an      *)
(* array, a bounded list of links per layer, a tombstone for every removed *)
(* or replaced vector, and a rebuild once tombstones are half the array.   *)
(*                                                                         *)
(* A vector is a position on a line and its distance to another their      *)
(* difference; positions are drawn so that no two differences are equal,   *)
(* since qsort leaves the order of equal distances open.  Quantisation and *)
(* an allocation that fails inside the beam search are left out.  rand_level *)
(* is a choice.                                                            *)
(***************************************************************************)
EXTENDS Integers, Sequences, SequencesExt, FiniteSets, FiniteSetsExt

CONSTANTS
    HIds,          \* vector ids
    HPlans,        \* bounds: the vectors to be added, in order, and how many
                   \* removals, failures and reloads happen beside
    MaxLevel,      \* bound on rand_level
    M,             \* links per node above layer 0; 2 * M at layer 0
    EfBuild,       \* ef_construction
    RebuildMin     \* HNSW_REBUILD_MIN

ASSUME HnswAssumption ==
    /\ M \in Nat /\ M >= 2 /\ EfBuild \in Nat \ {0} /\ MaxLevel \in Nat

VARIABLES
    g,        \* struct Hnsw
    stream,   \* the vectors still to be added
    budget,   \* bound: the removals, failures and reloads still to come
    failed    \* history: an addition failed

hvars == <<g, stream, budget, failed>>

NPOS == 0
Fresh == [nodes |-> <<>>, map |-> <<>>, live |-> 0, entry |-> NPOS, maxLayer |-> 0]

Dist(x, y) == IF x < y THEN y - x ELSE x - y
NodeDist(h, q, n) == Dist(q, h.nodes[n].vec)
LayerCap(l) == IF l = 0 THEN 2 * M ELSE M
Links(h, n, l) == h.nodes[n].links[l + 1]

Nearest(h, q, S) == CHOOSE n \in S : \A m \in S : NodeDist(h, q, n) <= NodeDist(h, q, m)
Farthest(h, q, S) == CHOOSE n \in S : \A m \in S : NodeDist(h, q, n) >= NodeDist(h, q, m)
ByDistance(h, q, S) ==
    [r \in 1 .. Cardinality(S) |-> CHOOSE n \in S :
        Cardinality({m \in S : NodeDist(h, q, m) < NodeDist(h, q, n)}) = r - 1]

-----------------------------------------------------------------------------
(* Search.                                                                 *)

(* greedy_descend: to the nearest neighbour while that is nearer.          *)
RECURSIVE GreedyDescend(_, _, _, _)
GreedyDescend(h, q, ep, l) ==
    IF l > h.nodes[ep].top THEN ep
    ELSE LET near == Nearest(h, q, ToSet(Links(h, ep, l)) \cup {ep})
         IN IF near = ep THEN ep ELSE GreedyDescend(h, q, near, l)

(* One neighbour of an expanded node.                                      *)
VisitLiveOnly(h, q, ef, acc, e) ==
    IF e \in acc.vis \/ h.nodes[e].dead THEN acc
    ELSE LET near == Cardinality(acc.w) < ef
                     \/ NodeDist(h, q, e) < NodeDist(h, q, Farthest(h, q, acc.w))
             w == acc.w \cup {e}
         IN [vis |-> acc.vis \cup {e},
             c |-> IF near THEN acc.c \cup {e} ELSE acc.c,
             w |-> IF ~near THEN acc.w
                   ELSE IF Cardinality(w) > ef THEN w \ {Farthest(h, q, w)} ELSE w]

Visit(h, q, ef, acc, e) ==
    IF e \in acc.vis THEN acc
    ELSE LET near == Cardinality(acc.w) < ef
                     \/ NodeDist(h, q, e) < NodeDist(h, q, Farthest(h, q, acc.w))
             w == acc.w \cup {e}
         IN [vis |-> acc.vis \cup {e},
             c |-> IF near THEN acc.c \cup {e} ELSE acc.c,
             w |-> IF ~near \/ h.nodes[e].dead THEN acc.w
                   ELSE IF Cardinality(w) > ef THEN w \ {Farthest(h, q, w)} ELSE w]

(* The beam: expand the nearest candidate until none is nearer than the    *)
(* worst one kept.  Tombstones are expanded and never kept.                *)
RECURSIVE Beam(_, _, _, _, _)
Beam(h, q, ef, l, acc) ==
    IF acc.c = {} THEN acc.w
    ELSE LET n == Nearest(h, q, acc.c)
             rest == [acc EXCEPT !.c = @ \ {n}]
             visit(a, e) == Visit(h, q, ef, a, e)
         IN IF Cardinality(acc.w) >= ef
               /\ NodeDist(h, q, n) > NodeDist(h, q, Farthest(h, q, acc.w)) THEN acc.w
            ELSE IF l > h.nodes[n].top THEN Beam(h, q, ef, l, rest)
            ELSE Beam(h, q, ef, l, FoldLeft(visit, rest, Links(h, n, l)))

SearchLayer(h, q, ep, ef, l) ==
    Beam(h, q, ef, l, [vis |-> {ep}, c |-> {ep},
                       w |-> IF h.nodes[ep].dead THEN {} ELSE {ep}])

RECURSIVE Descend(_, _, _, _, _)
Descend(h, q, ep, from, to) ==
    IF from <= to THEN ep ELSE Descend(h, q, GreedyDescend(h, q, ep, from), from - 1, to)

(* hnsw_search: the ids of the k nearest nodes kept, nearest first.        *)
Search(h, q, k, ef) ==
    IF h.entry = NPOS \/ k = 0 THEN <<>>
    ELSE LET w == SearchLayer(h, q, Descend(h, q, h.entry, h.maxLayer, 0),
                              IF ef < k THEN k ELSE ef, 0)
             sorted == ByDistance(h, q, w)
         IN [i \in 1 .. (IF Len(sorted) < k THEN Len(sorted) ELSE k) |-> sorted[i]]

-----------------------------------------------------------------------------
(* Insertion.                                                              *)

(* select_heuristic: up to m of the candidates nearer to v than to any one *)
(* already kept, filled up with the nearest of the rest.                   *)
Select(h, v, cands, m) ==
    LET sorted == ByDistance(h, v, cands)
        good(kept, n) == \A j \in DOMAIN kept :
            Dist(h.nodes[n].vec, h.nodes[kept[j]].vec) >= NodeDist(h, v, n)
        keep(kept, n) == IF Len(kept) < m /\ good(kept, n) THEN Append(kept, n) ELSE kept
        fill(kept, n) == IF Len(kept) < m /\ n \notin ToSet(kept) THEN Append(kept, n) ELSE kept
    IN FoldLeft(fill, FoldLeft(keep, <<>>, sorted), sorted)

(* A list that takes one link too many before it is pruned.                *)
ConnectPastCap(h, a, b, l) ==
    LET list == Links(h, a, l)
    IN [h EXCEPT !.nodes[a].links[l + 1] =
          IF Len(list) <= LayerCap(l) THEN Append(list, b)
          ELSE Select(h, h.nodes[a].vec, ToSet(list) \cup {b}, LayerCap(l))]

Connect(h, a, b, l) ==
    LET list == Links(h, a, l)
    IN [h EXCEPT !.nodes[a].links[l + 1] =
          IF Len(list) < LayerCap(l) THEN Append(list, b)
          ELSE Select(h, h.nodes[a].vec, ToSet(list) \cup {b}, LayerCap(l))]

(* The new node n at layers l .. 0, seeded from ep; a layer where only     *)
(* tombstones are found leaves it unlinked.                                *)
RECURSIVE LinkOneWay(_, _, _, _, _)
LinkOneWay(h, n, v, ep, l) ==
    LET w == SearchLayer(h, v, ep, EfBuild, l)
        both(acc, c) == Connect(acc, n, c, l)
    IN IF l < 0 THEN h
       ELSE IF w = {} THEN LinkOneWay(h, n, v, ep, l - 1)
       ELSE LinkOneWay(FoldLeft(both, h, Select(h, v, w, LayerCap(l))), n, v,
                       Nearest(h, v, w), l - 1)

RECURSIVE LinkFrom(_, _, _, _, _)
LinkFrom(h, n, v, ep, l) ==
    LET w == SearchLayer(h, v, ep, EfBuild, l)
        both(acc, c) == Connect(Connect(acc, n, c, l), c, n, l)
    IN IF l < 0 THEN h
       ELSE IF w = {} THEN LinkFrom(h, n, v, ep, l - 1)
       ELSE LinkFrom(FoldLeft(both, h, Select(h, v, w, LayerCap(l))), n, v,
                     Nearest(h, v, w), l - 1)

Mapped(h, id) == id \in DOMAIN h.map

(* A live node of the id is tombstoned before anything can fail.           *)
TombstonedUncounted(h, id) ==
    IF Mapped(h, id) THEN [h EXCEPT !.nodes[h.map[id]].dead = TRUE] ELSE h
Tombstoned(h, id) ==
    IF Mapped(h, id) /\ ~h.nodes[h.map[id]].dead
    THEN [h EXCEPT !.nodes[h.map[id]].dead = TRUE, !.live = @ - 1] ELSE h

(* node_create, map_put, live++.                                           *)
Node(id, v, level, dead) ==
    [id |-> id, vec |-> v, dead |-> dead, top |-> level,
     links |-> [l \in 1 .. level + 1 |-> <<>>]]
Created(h, id, v, level) ==
    [h EXCEPT !.nodes = Append(@, Node(id, v, level, FALSE)), !.live = @ + 1,
              !.map = (id :> Len(h.nodes) + 1) @@ @]

(* hnsw_add without the rebuild that ends it.                              *)
Inserted(h, id, v, level) ==
    LET c == Created(Tombstoned(h, id), id, v, level)
        n == Len(c.nodes)
        ep == Descend(c, v, c.entry, c.maxLayer, level)
        linked == LinkFrom(c, n, v, ep, IF level < c.maxLayer THEN level ELSE c.maxLayer)
    IN IF c.entry = NPOS THEN [c EXCEPT !.entry = n, !.maxLayer = level]
       ELSE IF level > c.maxLayer THEN [linked EXCEPT !.maxLayer = level, !.entry = n]
       ELSE linked

(* maybe_rebuild: the live nodes in array order into a fresh graph, at     *)
(* levels drawn anew.                                                      *)
MustRebuild(h) ==
    Len(h.nodes) >= RebuildMin /\ h.live > 0 /\ Len(h.nodes) >= 2 * h.live
Rebuilds(h) ==
    LET live == SelectSeq(h.nodes, LAMBDA n : ~n.dead)
        built(levels) ==
            LET add(acc, i) == Inserted(acc, live[i].id, live[i].vec, levels[i])
            IN FoldLeft(add, Fresh, [i \in DOMAIN live |-> i])
    IN {built(lv) : lv \in [DOMAIN live -> 0 .. MaxLevel]}
RebuiltPastHalf(h) ==
    IF MustRebuild(h) /\ Len(h.nodes) > 2 * h.live THEN Rebuilds(h) ELSE {h}
Rebuilt(h) == IF MustRebuild(h) THEN Rebuilds(h) ELSE {h}

-----------------------------------------------------------------------------
(* The operations.                                                         *)

(* One more removal, failure or reload, where the bound allows it.         *)
Uses(what) ==
    /\ budget[what] > 0
    /\ budget' = [budget EXCEPT ![what] = @ - 1]

(* An id is the caller's: one in use, or the next one.                     *)
Callable == {id \in HIds : \A j \in HIds : j < id => \E n \in DOMAIN g.nodes : g.nodes[n].id = j}

HnswAdd(id, level) ==
    /\ stream # <<>>
    /\ g' \in Rebuilt(Inserted(g, id, Head(stream), level))
    /\ stream' = Tail(stream)
    /\ UNCHANGED <<budget, failed>>

(* node_create fails: the previous vector of the id is gone all the same.  *)
HnswAddFails(id) ==
    /\ Uses("fault")
    /\ g' = Tombstoned(g, id)
    /\ failed' = TRUE
    /\ UNCHANGED stream

(* map_put fails, which takes an id without a slot: the node stays in the  *)
(* array as a tombstone.                                                   *)
HnswAddUnmapped(id, level) ==
    /\ stream # <<>> /\ ~Mapped(g, id)
    /\ Uses("fault")
    /\ g' = [g EXCEPT !.nodes = Append(@, Node(id, Head(stream), level, TRUE))]
    /\ stream' = Tail(stream)
    /\ failed' = TRUE

Removed(h, id) ==
    [Tombstoned(h, id) EXCEPT !.map = [j \in DOMAIN h.map \ {id} |-> h.map[j]]]

HnswRemove(id) ==
    /\ Mapped(g, id) /\ ~g.nodes[g.map[id]].dead
    /\ Uses("remove")
    /\ g' \in Rebuilt(Removed(g, id))
    /\ UNCHANGED <<stream, failed>>

(* hnsw_save, then hnsw_load: the nodes as they are, the map rebuilt from  *)
(* those that are live.                                                    *)
Loaded(h) ==
    LET live == {n \in DOMAIN h.nodes : ~h.nodes[n].dead}
    IN [h EXCEPT !.map = [id \in {h.nodes[n].id : n \in live} |->
                            CHOOSE n \in live : h.nodes[n].id = id]]

HnswReload ==
    /\ Uses("reload")
    /\ g' = Loaded(g)
    /\ UNCHANGED <<stream, failed>>

HnswInit ==
    /\ g = Fresh
    /\ \E p \in HPlans : stream = p.stream /\ budget = p.budget
    /\ failed = FALSE

HnswNext ==
    \/ \E id \in Callable, level \in 0 .. MaxLevel : HnswAdd(id, level)
    \/ \E id \in Callable : HnswAddFails(id) \/ HnswRemove(id)
    \/ \E id \in Callable, level \in 0 .. MaxLevel : HnswAddUnmapped(id, level)
    \/ HnswReload

HnswSpec == HnswInit /\ [][HnswNext]_hvars

-----------------------------------------------------------------------------
(* Properties.                                                             *)

LiveNodes == {n \in DOMAIN g.nodes : ~g.nodes[n].dead}
Vecs == UNION {ToSet(p.stream) : p \in HPlans}

(* The graph is well formed: every link leads to another node of the array *)
(* that exists at its layer, no list holds a node twice or exceeds the     *)
(* capacity of its layer, and the entry point is a node of the top layer.  *)
(* connect and search_layer index link arrays by layer without a check.    *)
GraphWellFormed ==
    /\ \A n \in DOMAIN g.nodes : \A l \in 0 .. g.nodes[n].top :
          LET list == Links(g, n, l)
          IN /\ Len(list) <= LayerCap(l)
             /\ Cardinality(ToSet(list)) = Len(list)
             /\ \A m \in ToSet(list) : m \in DOMAIN g.nodes \ {n} /\ g.nodes[m].top >= l
    /\ g.entry # NPOS => g.nodes[g.entry].top = g.maxLayer
    /\ g.entry = NPOS => LiveNodes = {}

(* The id map and the counter agree with the nodes: each live node is the  *)
(* one its id maps to, an id maps to a node of its own, and live counts    *)
(* the live nodes (hnsw_add replaces, hnsw_remove tombstones, hnsw_load    *)
(* rebuilds the map).                                                      *)
MapMatchesNodes ==
    /\ g.live = Cardinality(LiveNodes)
    /\ \A n \in LiveNodes : Mapped(g, g.nodes[n].id) /\ g.map[g.nodes[n].id] = n
    /\ \A id \in DOMAIN g.map : g.nodes[g.map[id]].id = id

(* The live nodes a search can come across: those that links of layer 0    *)
(* lead to from the node the upper layers end at.                          *)
Around(n) == {n} \cup ToSet(Links(g, n, 0))
ReachedFrom(ep) ==
    LET step(S, i) == UNION {Around(n) : n \in S}
    IN FoldLeft(step, {ep}, g.nodes)
Reached(q) ==
    IF g.entry = NPOS THEN {} ELSE ReachedFrom(Descend(g, q, g.entry, g.maxLayer, 0))

(* hnsw_search with a beam no narrower than the live set returns, nearest  *)
(* first, exactly the k nearest of the live nodes that can be reached:     *)
(* tombstones on the way neither end the search nor are returned.          *)
SearchExactWhereReached ==
    \A q \in Vecs, k \in {1, 2, Len(g.nodes)} :
        LET all == ByDistance(g, q, Reached(q) \cap LiveNodes)
            n == IF Len(all) < k THEN Len(all) ELSE k
        IN Search(g, q, k, Len(g.nodes) + 1) = SubSeq(all, 1, n)

(* While nothing was removed or replaced and no list was ever full, every  *)
(* vector added is found from every query: each insertion links its node   *)
(* both ways.                                                              *)
EveryAdditionFound ==
    (LiveNodes = DOMAIN g.nodes /\ Len(g.nodes) <= 2 * M + 1)
        => \A q \in Vecs : Reached(q) = LiveNodes

(* Once the array has RebuildMin nodes tombstones are fewer than half of   *)
(* it, or everything in it is a tombstone; hnsw.h says that the array      *)
(* stays within about twice the live count.  A failed addition tombstones  *)
(* without a rebuild.                                                      *)
TombstonesBounded == failed \/ ~MustRebuild(g)

(* Re-adding an id replaces its vector and the new direction is found.     *)
AddedIsFound ==
    \A q \in Vecs : {g.nodes[n].id : n \in ToSet(Search(g, q, Len(g.nodes), 0))}
                    = {g.nodes[n].id : n \in LiveNodes}
=============================================================================
