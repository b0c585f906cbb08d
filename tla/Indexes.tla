------------------------------ MODULE Indexes ------------------------------
(***************************************************************************)
(* The in-memory secondary indexes of a server (src/src/storage/           *)
(* *_index.c) as operators: what one add, remove or lookup does to an      *)
(* index value.  How a table places its keys is the subject of ProbeTable; *)
(* an allocation that fails is left out.                                   *)
(***************************************************************************)
EXTENDS Integers, Sequences, SequencesExt, FiniteSets, FiniteSetsExt

CONSTANTS
    MaxKinds,   \* EDGE_MAX_KINDS
    MaxPreds,   \* FACT_MAX_PREDICATES
    Tokens      \* text |-> the terms lex_tokenizer_next yields for it

NoKind == "none"
NoFact == <<>>

(* A function without one point of its domain, and with one more.          *)
Without(f, x) == [y \in DOMAIN f \ {x} |-> f[y]]
With(f, x, v) == [y \in DOMAIN f \cup {x} |-> IF y = x THEN v ELSE f[y]]

-----------------------------------------------------------------------------
(* Time: (created, id) pairs in order.  A pair added twice is there twice. *)

TimeBefore(a, b) == a[1] < b[1] \/ (a[1] = b[1] /\ a[2] < b[2])

TimeAdd(t, created, id) ==
    InsertAt(t, Cardinality({i \in DOMAIN t : TimeBefore(t[i], <<created, id>>)}) + 1,
             <<created, id>>)

TimeRemove(t, created, id) ==
    LET pos == Cardinality({i \in DOMAIN t : TimeBefore(t[i], <<created, id>>)}) + 1
    IN IF pos <= Len(t) /\ t[pos] = <<created, id>> THEN RemoveAt(t, pos) ELSE t

(* time_index_range: the oldest max of the range; max 0 is no bound.       *)
TimeRange(t, from, to, max) ==
    LET in == SelectSeq(t, LAMBDA e : from <= e[1] /\ e[1] <= to)
    IN IF max > 0 /\ Len(in) > max THEN SubSeq(in, 1, max) ELSE in

(* Mutant: stops at the cap without saying so.                             *)
TimeRangeRecentSilent(t, from, to, max) ==
    LET in == SelectSeq(t, LAMBDA e : from <= e[1] /\ e[1] <= to)
    IN [ids |-> IF max > 0 /\ Len(in) > max THEN SubSeq(in, Len(in) - max + 1, Len(in))
                ELSE in, truncated |-> FALSE]

(* time_index_range_recent: the newest max of it, in the same order.       *)
TimeRangeRecent(t, from, to, max) ==
    LET in == SelectSeq(t, LAMBDA e : from <= e[1] /\ e[1] <= to)
    IN IF max > 0 /\ Len(in) > max
       THEN [ids |-> SubSeq(in, Len(in) - max + 1, Len(in)), truncated |-> TRUE]
       ELSE [ids |-> in, truncated |-> FALSE]

-----------------------------------------------------------------------------
(* Tags: (tag, id) pairs; a tag without ids has no node.                   *)
TagQuery(t, tags, matchAll) ==
    LET ids(tag) == {e[2] : e \in {d \in t : d[1] = tag}}
    IN IF tags = {} THEN {}
       ELSE IF matchAll THEN {i \in UNION {ids(g) : g \in tags} :
                                 \A g \in tags : i \in ids(g)}
            ELSE UNION {ids(g) : g \in tags}

-----------------------------------------------------------------------------
(* Reverse edges: [kinds, uses, live, posts, edges].  Kind number k is the *)
(* k-th kind interned, 0 is no kind, Unknown one the table has no room     *)
(* for.  The intern table never shrinks; `live` counts the kinds in use.   *)

Unknown == 65535
EdgeEmpty == [kinds |-> <<>>, uses |-> <<>>, live |-> 0, posts |-> {}, edges |-> 0]

KindLookup(e, kind) ==
    IF kind = NoKind THEN 0
    ELSE IF kind \in ToSet(e.kinds) THEN CHOOSE k \in DOMAIN e.kinds : e.kinds[k] = kind
    ELSE Unknown

KindIntern(e, kind) ==
    IF kind = NoKind \/ kind \in ToSet(e.kinds) \/ Len(e.kinds) >= MaxKinds THEN e
    ELSE [e EXCEPT !.kinds = Append(@, kind), !.uses = Append(@, 0)]

(* kind_use: `live` moves when the first user comes or the last one goes.  *)
KindUse(e, k, delta) ==
    IF k \notin DOMAIN e.kinds \/ (delta < 0 /\ e.uses[k] = 0) THEN e
    ELSE [e EXCEPT !.uses[k] = @ + delta,
                   !.live = IF delta > 0 /\ e.uses[k] = 0 THEN @ + 1
                            ELSE IF delta < 0 /\ e.uses[k] = 1 THEN @ - 1 ELSE @]

EdgeAdd(e, from, to, kind) ==
    LET i == KindIntern(e, kind)
        k == KindLookup(i, kind)
    IN IF <<to, from, k>> \in i.posts THEN i
       ELSE KindUse([i EXCEPT !.posts = @ \cup {<<to, from, k>>}, !.edges = @ + 1], k, 1)

EdgeRemove(e, from, to, kind) ==
    LET k == KindLookup(e, kind)
    IN IF <<to, from, k>> \notin e.posts THEN e
       ELSE KindUse([e EXCEPT !.posts = @ \ {<<to, from, k>>}, !.edges = @ - 1], k, -1)

(* Mutant: the postings go without giving their kinds back.                *)
EdgeRemoveTargetUncounted(e, id) ==
    LET gone == {p \in e.posts : p[1] = id}
    IN [e EXCEPT !.posts = @ \ gone, !.edges = @ - Cardinality(gone)]

EdgeRemoveTarget(e, id) ==
    LET gone == {p \in e.posts : p[1] = id}
        drop(acc, p) == KindUse(acc, p[3], -1)
    IN FoldLeft(drop, [e EXCEPT !.posts = @ \ gone,
                                !.edges = @ - Cardinality(gone)], SetToSeq(gone))

(* Mutant: a kind the table does not hold matches nothing.                 *)
EdgeSourcesInternedOnly(e, to, wanted) ==
    LET ids == {KindLookup(e, k) : k \in wanted \ {NoKind}} \ {Unknown}
    IN {p \in e.posts : p[1] = to /\ (wanted = {} \/ p[3] \in ids)}

(* edge_index_sources: a posting of unknown kind is a candidate only when  *)
(* the filter names a kind the table does not hold.                        *)
EdgeSources(e, to, wanted) ==
    LET named == {k \in wanted : k # NoKind}
        ids == {KindLookup(e, k) : k \in named}
    IN {p \in e.posts : p[1] = to /\ (wanted = {} \/ p[3] \in ids)}

-----------------------------------------------------------------------------
(* Facts: [preds, uses, live, subj, obj, byPred, facts].  A posting is     *)
(* <<key, predicate number, record>>; a predicate that cannot be interned  *)
(* leaves the fact unindexed.                                              *)

FactEmpty == [preds |-> <<>>, uses |-> <<>>, live |-> 0, subj |-> {}, obj |-> {},
              byPred |-> {}, facts |-> 0]

PredLookup(f, p) ==
    IF p \in ToSet(f.preds) THEN CHOOSE k \in DOMAIN f.preds : f.preds[k] = p ELSE 0

PredIntern(f, p) ==
    IF p \in ToSet(f.preds) \/ Len(f.preds) >= MaxPreds THEN f
    ELSE [f EXCEPT !.preds = Append(@, p), !.uses = Append(@, 0)]

PredUse(f, k, delta) ==
    IF k \notin DOMAIN f.preds \/ (delta < 0 /\ f.uses[k] = 0) THEN f
    ELSE [f EXCEPT !.uses[k] = @ + delta,
                   !.live = IF delta > 0 /\ f.uses[k] = 0 THEN @ + 1
                            ELSE IF delta < 0 /\ f.uses[k] = 1 THEN @ - 1 ELSE @]

FactAdd(f, id, fact) ==
    LET i == PredIntern(f, fact[2])
        k == PredLookup(i, fact[2])
        put == [i EXCEPT !.subj = @ \cup {<<fact[1], k, id>>},
                         !.obj = @ \cup {<<fact[3], k, id>>},
                         !.byPred = @ \cup {<<k, id>>}]
    IN IF k = 0 THEN i
       ELSE IF <<fact[1], k, id>> \in i.subj THEN put
       ELSE PredUse([put EXCEPT !.facts = @ + 1], k, 1)

FactRemove(f, id, fact) ==
    LET k == PredLookup(f, fact[2])
        cut == [f EXCEPT !.subj = @ \ {<<fact[1], k, id>>},
                         !.obj = @ \ {<<fact[3], k, id>>}]
    IN IF k = 0 THEN f
       ELSE IF <<fact[1], k, id>> \notin f.subj THEN cut
       ELSE PredUse([cut EXCEPT !.byPred = @ \ {<<k, id>>}, !.facts = @ - 1], k, -1)

(* Lookups by subject and by object, pred "any" for no predicate.          *)
FactCollect(f, posts, key, pred) ==
    {p[3] : p \in {q \in posts : /\ q[1] = key
                                 /\ \/ pred = "any"
                                    \/ PredLookup(f, pred) # 0 /\ q[2] = PredLookup(f, pred)}}
FactBySubject(f, s, pred) == FactCollect(f, f.subj, s, pred)
FactByObject(f, o, pred) == FactCollect(f, f.obj, o, pred)
FactByPredicate(f, pred) ==
    {p[2] : p \in {q \in f.byPred : q[1] = PredLookup(f, pred)}}

(* fact_index_all_records refuses when the postings exceed the count.      *)
FactAllRecords(f) ==
    [ok |-> Cardinality(f.byPred) <= f.facts, ids |-> {p[2] : p \in f.byPred}]

-----------------------------------------------------------------------------
(* Text: [docs, posts, total]: a document's length, the frequency of each  *)
(* (term, document), and the sum of the lengths.                           *)

LexEmpty == [docs |-> <<>>, posts |-> <<>>, total |-> 0]

LexAdd(x, id, text) ==
    LET terms == Tokens[text]
        tf(t) == Cardinality({i \in DOMAIN terms : terms[i] = t})
        new == {<<t, id>> : t \in ToSet(terms)}
    IN IF id \in DOMAIN x.docs \/ terms = <<>> THEN x
       ELSE [docs |-> With(x.docs, id, Len(terms)),
             posts |-> [p \in DOMAIN x.posts \cup new |->
                          IF p \in new THEN tf(p[1]) ELSE x.posts[p]],
             total |-> x.total + Len(terms)]

LexRemove(x, id, text) ==
    LET gone == {<<t, id>> : t \in ToSet(Tokens[text])}
    IN IF id \notin DOMAIN x.docs THEN x
       ELSE [docs |-> Without(x.docs, id),
             posts |-> [p \in DOMAIN x.posts \ gone |-> x.posts[p]],
             total |-> x.total - x.docs[id]]

-----------------------------------------------------------------------------
(* Usage: recalls per tracked record.  Tracking a record again keeps its   *)
(* counter; a restored count lands only on a record that is tracked.       *)

UsageTrack(u, id) == IF id \in DOMAIN u THEN u ELSE With(u, id, 0)
UsageUntrack(u, id) == Without(u, id)
UsageRecord(u, id) == IF id \in DOMAIN u THEN [u EXCEPT ![id] = @ + 1] ELSE u
UsageSerialize(u) == [id \in {i \in DOMAIN u : u[i] > 0} |-> u[id]]

(* A load that creates the slots it finds in the image.                    *)
UsageLoadAll(u, image) ==
    [id \in DOMAIN u \cup DOMAIN image |-> IF id \in DOMAIN image THEN image[id] ELSE u[id]]

UsageLoad(u, image) ==
    [id \in DOMAIN u |-> IF id \in DOMAIN image THEN image[id] ELSE u[id]]
=============================================================================
