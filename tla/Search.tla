------------------------------- MODULE Search -------------------------------
(***************************************************************************)
(* Retrieval, src/src/query/qe_search.c: a query resolves its subsumption  *)
(* (resolve_subsume), gathers candidates from an index under the index     *)
(* lock and loads them off a pinned log (gather_candidates), widens a      *)
(* ranked fetch that came back short, selects and pages (select_top,       *)
(* search_ex_body), and counts the hits as recalls.  qe_count and          *)
(* qe_delete_by_query share the candidate path.  Another client may write  *)
(* between any two of these steps.                                         *)
(*                                                                         *)
(* The query text and its embedding are fixed; a record carries how well   *)
(* its vectors (sims) and its text (bm25) answer them.  The order of equal *)
(* similarities is left open by the code, so the best similarities of two  *)
(* records differ.  Failed allocations and recency decay are left out.     *)
(***************************************************************************)
EXTENDS Integers, Sequences, FiniteSets, SequencesExt, FiniteSetsExt

CONSTANTS
    SIds,          \* record ids
    Plans,         \* bounds: a store, the queries put to it, and the writes
                   \* another client may make meanwhile
    FetchMul,      \* 4  \ the first fetch of a ranked query is
    FetchBase,     \* 32 / FetchMul * want + FetchBase
    Widening,      \* 4: the factor of the next
    FetchCap,      \* SEARCH_FETCH_CAP
    ScanCap,       \* config query_scan_cap, 0 for none
    MaxSubsume     \* config inference_max_subsume, 0 for none

ASSUME SearchAssumption ==
    /\ SIds \subseteq Nat \ {0}
    /\ FetchMul \in Nat /\ FetchBase \in Nat /\ Widening \in Nat \ {0, 1}
    /\ FetchCap \in Nat \ {0} /\ ScanCap \in Nat /\ MaxSubsume \in Nat

VARIABLES
    db,       \* id |-> record: what the log and every index hold
    pc, q,    \* the query in progress and where it is
    todo,     \* ids still to load (subsume) or to delete
    subs,     \* the subjects of the expansion
    trunc,    \* subsume_truncated
    fetch,    \* how many the ranked sources are asked for
    out,      \* the answer: hits and count, capped
    usage,    \* id |-> recalls counted
    writes,   \* bound: the writes still to come
    base      \* history: the store at the last gather, whether it is that of
              \* the whole query, and the vectors the gather could reach

svars == <<db, pc, q, todo, subs, trunc, fetch, out, usage, writes, base>>

NoSubject == 0
AnyNs == "any"

-----------------------------------------------------------------------------
(* Filters.                                                                *)

Member(seq, x) == \E j \in DOMAIN seq : seq[j] = x

(* matches_pattern, on what the loaded record asserts.  An object above 0  *)
(* is an id and one below a literal; 0 leaves the position unbound.        *)
MatchesPattern(r, p, ss) ==
    /\ r.fact # <<>>
    /\ p.pat.s # NoSubject => r.fact[1] = p.pat.s \/ Member(ss, r.fact[1])
    /\ p.pat.p # "any" => r.fact[2] = p.pat.p
    /\ p.pat.o # 0 => r.fact[3] = p.pat.o

(* passes_filters.                                                         *)
PassesFilters(r, p, ss) ==
    /\ r.live
    /\ p.type # "any" => r.type = p.type
    /\ p.maxImp # -1 => r.imp <= p.maxImp
    /\ p.ns # AnyNs => r.ns = p.ns
    /\ p.time # <<>> => p.time[1] <= r.created /\ r.created <= p.time[2]
    /\ p.hasPat => MatchesPattern(r, p, ss)
    /\ p.tags # {} => IF p.all THEN p.tags \subseteq r.tags ELSE p.tags \cap r.tags # {}

Answers(r, p, ss) == ~r.expired /\ PassesFilters(r, p, ss)

-----------------------------------------------------------------------------
(* Sources of candidates.                                                  *)

Live(d) == {i \in SIds : d[i].live}
FirstOf(s, n) == SubSeq(s, 1, IF Len(s) < n THEN Len(s) ELSE n)
LastOf(s, n) == IF Len(s) <= n THEN s ELSE SubSeq(s, Len(s) - n + 1, Len(s))

(* The elements of S in the order lt, which is total on S.                 *)
Ordered(S, lt(_, _)) ==
    [r \in 1 .. Cardinality(S) |-> CHOOSE x \in S : Cardinality({y \in S : lt(y, x)}) = r - 1]
InIdOrder(S) == Ordered(S, <)

(* semantic_index_search: every vector of the dense array, or the 2 * n    *)
(* nearest of those the beam of hnsw_search reaches.  Which it reaches is  *)
(* the subject of Hnsw, and here any of them.  dedup_topk: a record counts *)
(* with its best vector.                                                   *)
Vectors(d) == UNION {{<<i, s>> : s \in d[i].sims} : i \in Live(d)}
Reachable(d, p) ==
    IF p.graph /\ p.src \in {"semantic", "hybrid"} THEN SUBSET Vectors(d) ELSE {Vectors(d)}
NearestVectors(vecs, n) == ToSet(FirstOf(Ordered(vecs, LAMBDA a, b : a[2] > b[2]), n))
DedupTopK(vecs, n) ==
    LET best(i) == Max({v[2] : v \in {w \in vecs : w[1] = i}})
    IN FirstOf(Ordered({v[1] : v \in vecs}, LAMBDA a, b : best(a) > best(b)), n)
SemanticSearch(reach, n, graph) ==
    DedupTopK(IF graph THEN NearestVectors(reach, 2 * n) ELSE reach, n)

Sim(d, i) == Max(d[i].sims)

(* lexical_index_search: every record that holds a term, best first.       *)
LexicalSearch(d, n) ==
    FirstOf(Ordered({i \in Live(d) : d[i].bm25 > 0},
                LAMBDA a, b : d[a].bm25 > d[b].bm25 \/ (d[a].bm25 = d[b].bm25 /\ a < b)), n)

(* rrf_fuse: one entry per id, in id order; 1/(60 + rank) from each list   *)
(* that holds it, in millionths.                                           *)
Rrf(list, i) ==
    IF Member(list, i)
    THEN 1000000 \div (60 + CHOOSE r \in DOMAIN list : list[r] = i) ELSE 0
FuseLexicalWins(sem, lex) ==
    [j \in DOMAIN InIdOrder(ToSet(sem) \cup ToSet(lex)) |->
        LET i == InIdOrder(ToSet(sem) \cup ToSet(lex))[j]
        IN [id |-> i, rel |-> IF Member(lex, i) THEN Rrf(lex, i) ELSE Rrf(sem, i)]]
Fuse(sem, lex) ==
    [j \in DOMAIN InIdOrder(ToSet(sem) \cup ToSet(lex)) |->
        LET i == InIdOrder(ToSet(sem) \cup ToSet(lex))[j]
        IN [id |-> i, rel |-> Rrf(sem, i) + Rrf(lex, i)]]

(* The ranked sources: the ids with their relevance, and whether asking    *)
(* for more can find more.  min_score trims the semantic list only.        *)
SpentEither(semShort, lexShort) == semShort \/ lexShort
Spent(semShort, lexShort) == semShort /\ lexShort
Ranked(d, p, n, reach) ==
    LET sem == SemanticSearch(reach, n, p.graph)
        kept == SelectSeq(sem, LAMBDA i : Sim(d, i) >= p.minScore)
        lex == LexicalSearch(d, n)
    IN CASE p.src = "semantic" ->
              [ids |-> [j \in DOMAIN kept |-> [id |-> kept[j], rel |-> Sim(d, kept[j])]],
               exhausted |-> Len(sem) < n]
         [] p.src = "lexical" ->
              [ids |-> [j \in DOMAIN lex |-> [id |-> lex[j], rel |-> d[lex[j]].bm25]],
               exhausted |-> Len(lex) < n]
         [] p.src = "hybrid" ->
              [ids |-> Fuse(kept, lex), exhausted |-> Spent(Len(sem) < n, Len(lex) < n)]

(* time_index_range and time_index_range_recent.                           *)
InTime(d, S) ==
    Ordered(S, LAMBDA a, b : d[a].created < d[b].created
                                  \/ (d[a].created = d[b].created /\ a < b))
Scan(d, S, cap, oldest) ==
    LET all == InTime(d, S)
        ids == IF cap = 0 THEN all ELSE IF oldest THEN FirstOf(all, cap) ELSE LastOf(all, cap)
    IN [ids |-> ids,
        exhausted |-> IF oldest THEN cap = 0 \/ Len(ids) < cap ELSE Len(ids) = Len(all)]

(* fact_index_by_subject, _by_object, _by_predicate.                       *)
Facts(d, s, pr, o) ==
    InIdOrder({i \in Live(d) : /\ d[i].fact # <<>>
                               /\ s # NoSubject => d[i].fact[1] = s
                               /\ pr # "any" => d[i].fact[2] = pr
                               /\ o # 0 => d[i].fact[3] = o})
Complete(ids) == [ids |-> ids, exhausted |-> TRUE]

(* The unranked source: the narrowest index that a filter can use.         *)
Filtered(d, p, ss, cap) ==
    LET bySubject(acc, s) == acc \o Facts(d, s, p.pat.p, 0)
    IN IF p.time # <<>>
       THEN Scan(d, {i \in Live(d) : d[i].created \in p.time[1] .. p.time[2]}, cap, p.oldest)
       ELSE IF p.hasPat /\ p.pat.s # NoSubject
       THEN Complete(FoldLeft(bySubject, <<>>, <<p.pat.s>> \o ss))
       ELSE IF p.hasPat THEN Complete(Facts(d, NoSubject, p.pat.p, p.pat.o))
       ELSE IF p.tags # {}
       THEN Complete(InIdOrder({i \in Live(d) : IF p.all THEN p.tags \subseteq d[i].tags
                                                ELSE p.tags \cap d[i].tags # {}}))
       ELSE Scan(d, Live(d), cap, FALSE)

(* gather_candidates: the source's ids whose record passes, with the score *)
(* they rank on; only a single source's relevance is weighted.             *)
Weight(r) == IF r.imp * r.conf <= 0 THEN 1 ELSE r.imp * r.conf
Gather(d, p, ss, n, cap, reach) ==
    LET ranked == p.src # "filter"
        from == IF ranked THEN Ranked(d, p, n, reach) ELSE Filtered(d, p, ss, cap)
        id(c) == IF ranked THEN c.id ELSE c
        score(c) == IF ~ranked THEN 0
                    ELSE IF p.src = "hybrid" THEN c.rel ELSE Weight(d[c.id]) * c.rel
        loaded == SelectSeq(from.ids, LAMBDA c : Answers(d[id(c)], p, ss))
    IN [cands |-> [j \in DOMAIN loaded |-> [id |-> id(loaded[j]), score |-> score(loaded[j]),
                                            created |-> d[id(loaded[j])].created]],
        exhausted |-> from.exhausted]

-----------------------------------------------------------------------------
(* Selection.                                                              *)

(* cmp_score_desc and cmp_created_asc: a ranks before b.                   *)
CreatedFirstNoTie(a, b) == a.created < b.created
ScoreFirstNoTie(a, b) == a.score > b.score
ScoreFirst(a, b) == a.score > b.score \/ (a.score = b.score /\ a.id < b.id)
CreatedFirst(a, b) == a.created < b.created \/ (a.created = b.created /\ a.id < b.id)
Before(p, a, b) == IF p.src = "filter" THEN CreatedFirst(a, b) ELSE ScoreFirst(a, b)

Swap(h, i, j) == [h EXCEPT ![i] = h[j], ![j] = h[i]]

(* A heap of indices into c whose root ranks last.                         *)
RECURSIVE SiftUp(_, _, _, _)
SiftUp(p, c, h, i) ==
    IF i = 1 \/ ~Before(p, c[h[i \div 2]], c[h[i]]) THEN h
    ELSE SiftUp(p, c, Swap(h, i, i \div 2), i \div 2)

RECURSIVE SiftDown(_, _, _, _)
SiftDown(p, c, h, i) ==
    LET later(w, j) == IF j <= Len(h) /\ Before(p, c[h[w]], c[h[j]]) THEN j ELSE w
        worst == later(later(i, 2 * i), 2 * i + 1)
    IN IF worst = i THEN h ELSE SiftDown(p, c, Swap(h, i, worst), worst)

Sorted(p, c) == SortSeq(c, LAMBDA a, b : Before(p, a, b))
SelectTop(p, c, n) ==
    LET offer(h, i) ==
            IF Len(h) < n THEN SiftUp(p, c, Append(h, i), Len(h) + 1)
            ELSE IF Before(p, c[i], c[h[1]]) THEN SiftDown(p, c, [h EXCEPT ![1] = i], 1)
            ELSE h
        heap == FoldLeft(offer, <<>>, [i \in DOMAIN c |-> i])
    IN IF n >= Len(c) THEN Sorted(p, c) ELSE Sorted(p, [j \in DOMAIN heap |-> c[heap[j]]])

(* search_ex_body ranks offset + top_k and hands back those past offset.   *)
Want(p) == p.offset + p.k
Page(p, c) ==
    LET top == SelectTop(p, c, IF Want(p) < Len(c) THEN Want(p) ELSE Len(c))
    IN [j \in 1 .. Max({0, Len(top) - p.offset}) |-> top[p.offset + j].id]

-----------------------------------------------------------------------------
(* The steps of a query.                                                   *)

LimitNone(n) == n
Limit(n) == IF n < FetchCap THEN n ELSE FetchCap
Subsumes(p) == p.hasPat /\ p.subsume /\ p.pat.s # NoSubject

(* qe_delete_by_query refuses a request without a positive filter, and     *)
(* does not resolve a subsumption.                                         *)
Begin(p) ==
    /\ pc = "idle"
    /\ p.op = "delete" => p.type # "any" \/ p.tags # {} \/ p.time # <<>>
    /\ q' = p
    /\ pc' = IF Subsumes(p) /\ p.op # "delete" THEN "subsume" ELSE "gather"
    /\ fetch' = Limit(Want(p) * FetchMul + FetchBase)
    /\ base' = [base EXCEPT !.quiet = TRUE]
    /\ UNCHANGED <<db, todo, subs, trunc, out, usage, writes>>

(* resolve_subsume: one lookup under the index lock ...                    *)
Subsume ==
    LET ids == Facts(db, NoSubject, "is_a", q.pat.s)
    IN /\ pc = "subsume"
       /\ trunc' = (MaxSubsume > 0 /\ Len(ids) > MaxSubsume)
       /\ todo' = IF trunc' THEN FirstOf(ids, MaxSubsume) ELSE ids
       /\ pc' = IF ids = <<>> THEN "gather" ELSE "members"
       /\ UNCHANGED <<db, q, subs, fetch, out, usage, writes, base>>

(* ... then each record, loaded for the caller ...                         *)
Readable(i, ns) == db[i].live /\ ~db[i].expired /\ (ns # AnyNs => db[i].ns = ns)
Joins(i) ==
    /\ Readable(i, q.ns)
    /\ db[i].fact # <<>> /\ db[i].fact[3] > 0 /\ db[i].fact[1] # q.pat.s

LoadMember ==
    /\ pc = "members" /\ todo # <<>>
    /\ subs' = IF Joins(Head(todo)) THEN Append(subs, db[Head(todo)].fact[1]) ELSE subs
    /\ todo' = Tail(todo)
    /\ UNCHANGED <<db, pc, q, trunc, fetch, out, usage, writes, base>>

(* ... and the subjects found sorted, each once.                           *)
UniqKeepAll(ss) == SortSeq(ss, <)
Uniq(ss) == InIdOrder(ToSet(ss))
MembersDone ==
    /\ pc = "members" /\ todo = <<>>
    /\ subs' = Uniq(subs)
    /\ pc' = "gather"
    /\ UNCHANGED <<db, q, todo, trunc, fetch, out, usage, writes, base>>

Hits(s) == [hits |-> s, count |-> Len(s), capped |-> FALSE]

(* search_ex_body: gather, and widen while the answer is short and a       *)
(* source may hold more.                                                   *)
SearchGather(reach) ==
    LET g == Gather(db, q, subs, fetch, ScanCap, reach)
        again == /\ q.src # "filter" /\ Len(g.cands) < Want(q)
                 /\ ~g.exhausted /\ fetch < FetchCap
    IN /\ pc = "gather" /\ q.op = "search"
       /\ base' = [base EXCEPT !.db = db, !.reach = reach]
       /\ IF again
          THEN fetch' = Limit(fetch * Widening) /\ UNCHANGED <<pc, out>>
          ELSE /\ out' = Hits(Page(q, g.cands))
               /\ pc' = IF q.track /\ out'.hits # <<>> THEN "usage" ELSE "done"
               /\ UNCHANGED fetch
       /\ UNCHANGED <<db, q, todo, subs, trunc, usage, writes>>

RecalledCandidates == ToSet(out.hits) \cup {i \in SIds : Answers(db[i], q, subs)}
Recalled == ToSet(out.hits)

(* usage_index_record counts a record that still has a slot.               *)
RecordUsage ==
    /\ pc = "usage"
    /\ usage' = [i \in SIds |-> usage[i] + IF i \in Recalled /\ db[i].live THEN 1 ELSE 0]
    /\ pc' = "done"
    /\ UNCHANGED <<db, q, todo, subs, trunc, fetch, out, writes, base>>

(* qe_count.                                                               *)
CappedByScan(g) == ~g.exhausted
Capped(g) == ~g.exhausted \/ trunc
Count ==
    LET g == Gather(db, [q EXCEPT !.src = "filter"], subs, 0, ScanCap, {})
    IN /\ pc = "gather" /\ q.op = "count"
       /\ out' = [hits |-> <<>>, count |-> Len(g.cands), capped |-> Capped(g)]
       /\ base' = [base EXCEPT !.db = db]
       /\ pc' = "done"
       /\ UNCHANGED <<db, q, todo, subs, trunc, fetch, usage, writes>>

(* qe_delete_by_query: the ids, without a cap ...                          *)
DeleteCapScan == ScanCap
DeleteCap == 0
DeleteGather ==
    LET g == Gather(db, [q EXCEPT !.src = "filter"], subs, 0, DeleteCap, {})
    IN /\ pc = "gather" /\ q.op = "delete"
       /\ todo' = [j \in DOMAIN g.cands |-> g.cands[j].id]
       /\ base' = [base EXCEPT !.db = db]
       /\ pc' = "deleting"
       /\ UNCHANGED <<db, q, subs, trunc, fetch, out, usage, writes>>

(* ... then qe_delete for each, which looks at the record anew.            *)
Deletable(i, ns) == db[i].live /\ (ns # AnyNs => db[i].ns = ns)
DeleteOne ==
    LET i == Head(todo)
    IN /\ pc = "deleting" /\ todo # <<>>
       /\ IF Deletable(i, q.ns)
          THEN /\ db' = [db EXCEPT ![i].live = FALSE]
               /\ usage' = [usage EXCEPT ![i] = 0]
               /\ out' = [out EXCEPT !.count = @ + 1]
          ELSE UNCHANGED <<db, usage, out>>
       /\ todo' = Tail(todo)
       /\ UNCHANGED <<pc, q, subs, trunc, fetch, writes, base>>

DeleteDone ==
    /\ pc = "deleting" /\ todo = <<>>
    /\ pc' = "done"
    /\ UNCHANGED <<db, q, todo, subs, trunc, fetch, out, usage, writes, base>>

(* Another client inserts, updates or deletes a record, or one expires.    *)
Write(w) ==
    /\ db[w.id].live = ~w.insert
    /\ db' = [db EXCEPT ![w.id] = w.rec]
    /\ usage' = [usage EXCEPT ![w.id] = IF w.rec.live THEN @ ELSE 0]
    /\ writes' = writes \ {w}
    /\ base' = [base EXCEPT !.quiet = FALSE]
    /\ UNCHANGED <<pc, q, todo, subs, trunc, fetch, out>>

SearchInit ==
    /\ \E pl \in Plans : \E p \in pl.queries : db = pl.store /\ writes = pl.writes /\ q = p
    /\ pc = "idle" /\ todo = <<>> /\ subs = <<>> /\ trunc = FALSE /\ fetch = 0
    /\ out = Hits(<<>>)
    /\ usage = [i \in SIds |-> 0]
    /\ base = [db |-> db, quiet |-> TRUE, reach |-> {}]

SearchNext ==
    \/ Begin(q) \/ Subsume \/ LoadMember \/ MembersDone
    \/ \E reach \in Reachable(db, q) : SearchGather(reach)
    \/ RecordUsage \/ Count \/ DeleteGather \/ DeleteOne \/ DeleteDone
    \/ \E w \in writes : Write(w)

SearchSpec == SearchInit /\ [][SearchNext]_svars

-----------------------------------------------------------------------------
(* Properties.                                                             *)

Delivered == pc \in {"usage", "done"} /\ q.op = "search"

(* Every type the steps rely on: the fetch stays within its cap, the       *)
(* expansion within its own, and an answer within top_k.                   *)
SearchTypeOK ==
    /\ fetch \in 0 .. FetchCap
    /\ ToSet(todo) \cup ToSet(subs) \cup ToSet(out.hits) \subseteq SIds
    /\ MaxSubsume > 0 => Len(subs) <= MaxSubsume
    /\ Len(out.hits) <= q.k

(* An answer holds no record twice, and every hit was live, visible to the *)
(* caller and passed the filters in the snapshot it was read from; the     *)
(* union over a subsumption issues a lookup for each subject.              *)
AnswerSound ==
    Delivered =>
        /\ \A i, j \in DOMAIN out.hits : out.hits[i] = out.hits[j] => i = j
        /\ \A i \in ToSet(out.hits) : Answers(base.db[i], q, subs)

(* The records a ranked query could answer with.                           *)
InSource(i) ==
    \/ q.src \in {"semantic", "hybrid"} /\ base.db[i].sims # {} /\ Sim(base.db, i) >= q.minScore
    \/ q.src \in {"lexical", "hybrid"} /\ base.db[i].bm25 > 0
Matching == {i \in SIds : Answers(base.db[i], q, subs)}
OneVector == \A i \in SIds : Cardinality(base.db[i].sims) <= 1

(* A first page that came back short although no source holds more than    *)
(* the fetch cap.                                                          *)
WithinCap ==
    /\ Cardinality({i \in Live(base.db) : base.db[i].sims # {}}) < FetchCap
    /\ Cardinality({i \in Live(base.db) : base.db[i].bm25 > 0}) < FetchCap
Short == Delivered /\ q.src # "filter" /\ q.offset = 0 /\ Len(out.hits) < q.k /\ WithinCap

AllReached == base.reach = Vectors(base.db)
Starves == ~({i \in Matching : InSource(i)} \subseteq ToSet(out.hits))

(* A selective filter never starves a ranked query: an answer shorter than *)
(* top_k lacks no matching record that a source ranks, unless a source     *)
(* holds more than the fetch cap (the widening loop of search_ex_body).    *)
(* Of a graph this holds when the last search reached every vector and a   *)
(* record has but one; the two statements below leave that out.            *)
NotStarved == (Short /\ (q.graph => OneVector /\ AllReached)) => ~Starves

(* The same of a graph over records with several vectors, and of one that  *)
(* does not reach every vector, where "Fewer returned than asked -> the    *)
(* index has nothing more to give" (gather_candidates) is not so.          *)
OverfetchLeavesEnough == (Short /\ AllReached) => ~Starves
ShortMeansSpent == (Short /\ (q.graph => OneVector)) => ~Starves

Rank(c) == IF q.src = "filter" THEN c.created ELSE -c.score

(* The answer is the page of the full ranking: the bounded heap of         *)
(* select_top keeps the best offset + top_k of whatever was gathered.      *)
PageOfRanking ==
    Delivered =>
        LET c == Gather(base.db, q, subs, fetch, ScanCap, base.reach).cands
            full == Ordered(ToSet(c), LAMBDA a, b : Rank(a) < Rank(b)
                                                    \/ (Rank(a) = Rank(b) /\ a.id < b.id))
        IN out.hits = [j \in DOMAIN SubSeq(full, q.offset + 1, Min({Want(q), Len(full)})) |->
                          full[q.offset + j].id]

(* Paging through an unranked query while nothing is written hands back    *)
(* every candidate once: each page runs a selection of its own.            *)
PagesPartition ==
    (Delivered /\ q.src = "filter") =>
        LET c == Gather(base.db, q, subs, fetch, ScanCap, base.reach).cands
            page(n) == Page([q EXCEPT !.offset = n * q.k], c)
            add(acc, n) == acc \o page(n - 1)
            all == FoldLeft(add, <<>>, [n \in 1 .. Len(c) + 1 |-> n])
        IN Len(all) = Len(c) /\ ToSet(all) = {c[j].id : j \in DOMAIN c}

(* Fusion rewards agreement: what both lists hold never ranks behind what  *)
(* one list alone holds at the same rank or a later one (rrf_fuse).        *)
AgreementRanksFirst ==
    (Delivered /\ q.src = "hybrid") =>
        LET sem == SelectSeq(SemanticSearch(base.reach, fetch, q.graph),
                             LAMBDA i : Sim(base.db, i) >= q.minScore)
            lex == LexicalSearch(base.db, fetch)
            rank(list, i) == CHOOSE r \in DOMAIN list : list[r] = i
            best(i) == Min({rank(l, i) : l \in {k \in {sem, lex} : Member(k, i)}})
            both(i) == Member(sem, i) /\ Member(lex, i)
        IN \A a, b \in DOMAIN out.hits :
              (both(out.hits[a]) /\ ~both(out.hits[b]) /\ best(out.hits[a]) <= best(out.hits[b]))
                  => a < b

(* The records of the caller that assert a membership of the subject.      *)
IsMember(x) ==
    \E i \in SIds : /\ base.db[i].live /\ ~base.db[i].expired
                    /\ q.ns # AnyNs => base.db[i].ns = q.ns
                    /\ base.db[i].fact = <<x, "is_a", q.pat.s>>
Expansion == IF Subsumes(q) THEN InIdOrder({x \in SIds : IsMember(x)}) ELSE <<>>

(* While nothing is written, a count that is not marked capped is exact:   *)
(* the records that pass the filters, with the subject's members as the    *)
(* caller's own records assert them (qe_count, resolve_subsume).           *)
CountExactUnlessCapped ==
    (pc = "done" /\ q.op = "count" /\ base.quiet /\ ~out.capped)
        => out.count = Cardinality({i \in SIds : Answers(base.db[i], q, Expansion)})

(* Whatever another client does meanwhile, a bulk delete leaves none of    *)
(* the records behind that matched when it began: "a partial delete would  *)
(* silently leave data behind" (qe_delete_by_query).                       *)
PurgeComplete ==
    (pc = "done" /\ q.op = "delete") => \A i \in Matching : ~db[i].live

(* Only what was handed back counts as recalled, once.                     *)
UsageCountsHits ==
    \A i \in SIds : usage[i] <= IF Member(out.hits, i) /\ q.track THEN 1 ELSE 0
=============================================================================
