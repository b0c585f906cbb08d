-------------------------- MODULE TruthMaintenance --------------------------
(***************************************************************************)
(* Inference and truth maintenance on a running server: the maintenance    *)
(* thread derives conclusions from a snapshot of the facts, writes each    *)
(* one and links it to its premises, and drains the queue of conclusions   *)
(* that may have lost their premises (src/src/query/qe_infer.c), while     *)
(* clients assert and delete facts and merge duplicates                    *)
(* (src/src/query/qe_maint.c), and while the server may be killed and      *)
(* recovered (src/src/storage/recovery.c).                                 *)
(*                                                                         *)
(* Every action is what one thread does between two releases of            *)
(* index_lock.  An append that returned is taken as durable: losing one is *)
(* the subject of Storage.  Records without a fact are left out: no rule   *)
(* reads one.                                                              *)
(***************************************************************************)
EXTENDS Inference

CONSTANTS
    Ns,            \* namespaces, as integers in the order of their names
    Assertable,    \* triples clients assert
    Mergers,       \* clients that may run consolidate
    MaxId,         \* bound: records ever written; past it an insert fails
    MaxDepth,      \* inference_max_depth
    MaxDerived,    \* inference_max_derived: conclusions and retractions a tick
    MaxCandidates, \* inference_max_candidates
    MaxHops,       \* SUPERSEDE_MAX_HOPS
    MaxSup,        \* SUPERSEDE_MAX
    CursorMod,     \* a common multiple of 1..MaxId, which the cursor is kept to
    Limits         \* bound: how often clients and faults act

VARIABLES
    rec,        \* the log: id |-> latest version of the record
    factIdx,    \* ids in the fact index
    edges,      \* the derived_from edges of the reverse index, <<from, to>>
    queue,      \* retract.ids
    sup,        \* retract.sup_from / sup_to, oldest first
    mt,         \* the maintenance thread
    mg,         \* the merge each client is in
    cursor,     \* infer_cursor, modulo CursorMod
    nsCursor,   \* infer_ns_cursor
    conflicts,  \* the published conflict list and its count
    missed,     \* history: conclusions the queue can no longer hear of
    claims,     \* history: what clients asserted and have not taken back
    destroyed,  \* history: the claims whose last record a merge took
    merged,     \* history: merges that were completed, <<loser, survivor>>
    stood,      \* history: routes that stood all through the judgement
    left        \* what is left of Limits

db == <<rec, factIdx, edges>>
pending == <<queue, sup>>
infer == <<cursor, nsCursor, conflicts>>
ghost == <<missed, claims, destroyed, merged>>
vars == <<db, pending, mt, mg, infer, ghost, stood, left>>

-----------------------------------------------------------------------------
(* Reading records.                                                        *)

Ids == DOMAIN rec
Live(i) == rec[i].live
(* qe_get: an expired record is hidden before the sweep removes it.        *)
Visible(i) == rec[i].live /\ ~rec[i].expired
Derived(i) == rec[i].routes # <<>>
FactOf(i) ==
    [id |-> i, s |-> rec[i].fact[1], p |-> rec[i].fact[2], o |-> rec[i].fact[3],
     depth |-> DerivationDepth(rec[i].routes)]
Sources(i) == {e[1] : e \in {d \in edges : d[2] = i}}

(* supersede_lookup: the newest merge of an id, 0 if there is none.        *)
SupersedeLookup(i) ==
    LET hits == {k \in DOMAIN sup : sup[k][1] = i}
    IN IF hits = {} THEN 0 ELSE sup[Max(hits)][2]

(* db_supersede_resolve: follow merges, at most MaxHops of them.           *)
SupersedeResolve(i) ==
    LET hop[k \in 0..MaxHops] ==
            IF k = 0 THEN i
            ELSE LET cur == hop[k - 1]
                     next == SupersedeLookup(cur)
                 IN IF next = 0 THEN cur ELSE next
    IN IF hop[MaxHops] = i THEN 0 ELSE hop[MaxHops]

IdIsLive(i) ==
    \/ Visible(i)
    \/ SupersedeResolve(i) # 0 /\ Visible(SupersedeResolve(i))

(* One route has all its premises among these.                             *)
SomeRouteHolds(i, S) == \E k \in DOMAIN rec[i].routes : ToSet(rec[i].routes[k].prem) \subseteq S

(* db_derivation_stands, if nothing moved while it runs: support is        *)
(* disjunctive.                                                            *)
Stands(i) == ~Derived(i) \/ SomeRouteHolds(i, {p \in Ids : IdIsLive(p)})

-----------------------------------------------------------------------------
(* The maintenance thread's locals, and its resting state.                 *)

Asleep ==
    [pc |-> "sleep", snap |-> <<>>, found |-> NoConflicts, notes |-> <<>>,
     groups |-> <<>>, g0 |-> 0, reached |-> 0, cand |-> 0, derived |-> 0,
     deferred |-> FALSE, todo |-> <<>>, ns |-> 0, cur |-> 0, links |-> <<>>,
     batch |-> <<>>, route |-> 0, prem |-> 0, heir |-> 0]

NoMerge == [pc |-> "idle", s |-> 0, losers |-> <<>>, rels |-> {}, srcs |-> {}]

Init ==
    /\ rec = <<>> /\ factIdx = {} /\ edges = {}
    /\ queue = <<>> /\ sup = <<>>
    /\ mt = Asleep
    /\ mg = [m \in Mergers |-> NoMerge]
    /\ cursor = 0 /\ nsCursor = 0
    /\ conflicts = [list |-> <<>>, count |-> 0, truncated |-> FALSE]
    /\ missed = {} /\ claims = {} /\ destroyed = {} /\ merged = {} /\ stood = {}
    /\ left = Limits

Spend(what) ==
    /\ left[what] > 0 /\ left["total"] > 0
    /\ left' = [left EXCEPT ![what] = @ - 1, !["total"] = @ - 1]

-----------------------------------------------------------------------------
(* Writes, each under index_lock.                                          *)

(* An insert that indexes the fact under the id before its own.            *)
InsertRecordOffByOne(ns, triple, routes) ==
    /\ rec' = Append(rec, [live |-> TRUE, expired |-> FALSE, ns |-> ns,
                           fact |-> triple, routes |-> routes, rels |-> {}])
    /\ factIdx' = factIdx \cup {Len(rec)}

InsertRecord(ns, triple, routes) ==
    /\ rec' = Append(rec, [live |-> TRUE, expired |-> FALSE, ns |-> ns,
                           fact |-> triple, routes |-> routes, rels |-> {}])
    /\ factIdx' = factIdx \cup {Len(rec) + 1}

(* The part of qe_delete before its append: the fact and the edges leave   *)
(* the indexes, and the conclusions that cite the record join the queue.   *)
Unindex(i) ==
    /\ factIdx' = factIdx \ {i}
    /\ queue' = queue \o Ascending(Sources(i))
    /\ edges' = {e \in edges : i \notin {e[1], e[2]}}

Tombstone(i) == rec' = [rec EXCEPT ![i].live = FALSE] /\ Unindex(i)

(* The append fails: the record is live and in no index.                   *)
TombstoneFails(i) ==
    /\ UNCHANGED rec /\ Unindex(i)
    /\ missed' = missed \cup Sources(i) \cup (IF Derived(i) THEN {i} ELSE {})

(* qe_relate finds both ends or answers NOT_FOUND; repeating it changes    *)
(* nothing.                                                                *)
BothEnds(f, t) == Live(f) /\ Live(t)
Relate(f, t, kind) ==
    IF f # t /\ BothEnds(f, t) /\ <<t, kind>> \notin rec[f].rels
    THEN /\ rec' = [rec EXCEPT ![f].rels = @ \cup {<<t, kind>>}]
         /\ edges' = IF kind = "derived_from" THEN edges \cup {<<f, t>>} ELSE edges
    ELSE UNCHANGED <<rec, edges>>

-----------------------------------------------------------------------------
(* Clients.                                                                *)

Claim(i) == <<rec[i].ns, rec[i].fact>>

(* A record that goes takes its claim along unless another one asserts it. *)
AssertsOf(c) == {j \in Ids : Visible(j) /\ ~Derived(j) /\ Claim(j) = c}
LastAssertion(i) == AssertsOf(Claim(i)) \subseteq {i}
TakeBack(i) == claims' = IF LastAssertion(i) THEN claims \ {Claim(i)} ELSE claims

AssertFact(ns, t) ==
    /\ Spend("assert") /\ Len(rec) < MaxId
    /\ PredicateAccepts(t[2], t[3])
    /\ InsertRecord(ns, t, <<>>)
    /\ claims' = claims \cup {<<ns, t>>} /\ destroyed' = destroyed \ {<<ns, t>>}
    /\ UNCHANGED <<edges, pending, mt, mg, infer, missed, merged>>

Delete(i) ==
    /\ Spend("delete") /\ Live(i)
    /\ Tombstone(i)
    /\ UNCHANGED <<sup, mt, mg, infer, missed, destroyed, merged>>
    /\ TakeBack(i)

DeleteFails(i) ==
    /\ Spend("fault") /\ Live(i)
    /\ TombstoneFails(i)
    /\ UNCHANGED <<sup, mt, mg, infer, claims, destroyed, merged>>

(* A record written with a time to live reaches its horizon.               *)
Expire(i) ==
    /\ Spend("expire") /\ Visible(i) /\ ~Derived(i)
    /\ rec' = [rec EXCEPT ![i].expired = TRUE]
    /\ UNCHANGED <<factIdx, edges, pending, mt, mg, infer, missed, destroyed, merged>>
    /\ TakeBack(i)

-----------------------------------------------------------------------------
(* consolidate: merge_cluster of one cluster, a step per call it makes.    *)
(* The survivor is the latest updated member, so any of them; members that *)
(* assert another fact take no part.                                       *)

Mergeable(s) == {i \in Ids \ {s} : Visible(i) /\ Claim(i) = Claim(s)}

MergeBegin(m) ==
    /\ mg[m].pc = "idle" /\ Spend("merge")
    /\ \E s \in Ids : \E L \in SUBSET Mergeable(s) :
          /\ Visible(s) /\ L # {}
          /\ mg' = [mg EXCEPT ![m] =
                [pc |-> "update", s |-> s, losers |-> Ascending(L),
                 rels |-> UNION {rec[i].rels : i \in L}, srcs |-> {}]]
    /\ UNCHANGED <<db, pending, mt, infer, ghost>>

(* qe_update of the survivor; if it is gone the cluster is left alone.     *)
MergeUpdate(m) ==
    /\ mg[m].pc = "update"
    /\ mg' = [mg EXCEPT ![m] =
                 IF ~Live(@.s) THEN NoMerge
                 ELSE [@ EXCEPT !.pc = IF mg[m].rels = {} THEN "supersede"
                                       ELSE "migrate"]]
    /\ UNCHANGED <<db, pending, mt, infer, ghost, left>>

MergeMigrate(m) ==
    /\ mg[m].pc = "migrate"
    /\ \E r \in mg[m].rels :
          /\ Relate(mg[m].s, r[1], r[2])
          /\ mg' = [mg EXCEPT ![m].rels = @ \ {r},
                              ![m].pc = IF mg[m].rels = {r} THEN "supersede"
                                        ELSE "migrate"]
    /\ UNCHANGED <<factIdx, pending, mt, infer, ghost, left>>

(* The supersedes edge, then db_supersede_note; nothing reads the edge     *)
(* between the two.                                                        *)
MergeSupersede(m) ==
    /\ mg[m].pc = "supersede"
    /\ LET l == Head(mg[m].losers)
       IN /\ Relate(mg[m].s, l, "supersedes")
          /\ sup' = IF Len(sup) < MaxSup THEN Append(sup, <<l, mg[m].s>>) ELSE sup
    /\ mg' = [mg EXCEPT ![m].pc = "sources"]
    /\ UNCHANGED <<factIdx, queue, mt, infer, ghost, left>>

(* repoint_dependents: read who cites the loser, then link each to the     *)
(* survivor.                                                               *)
MergeSources(m) ==
    /\ mg[m].pc = "sources"
    /\ LET srcs == Sources(Head(mg[m].losers))
       IN mg' = [mg EXCEPT ![m].srcs = srcs,
                           ![m].pc = IF srcs = {} THEN "delete" ELSE "repoint"]
    /\ UNCHANGED <<db, pending, mt, infer, ghost, left>>

MergeRepoint(m) ==
    /\ mg[m].pc = "repoint"
    /\ \E c \in mg[m].srcs :
          /\ Relate(c, mg[m].s, "derived_from")
          /\ mg' = [mg EXCEPT ![m].srcs = @ \ {c},
                              ![m].pc = IF mg[m].srcs = {c} THEN "delete"
                                        ELSE "repoint"]
    /\ UNCHANGED <<factIdx, pending, mt, infer, ghost, left>>

(* The loser goes whatever became of the survivor since the update.        *)
(* `destroyed` records a claim that goes with it because the survivor is   *)
(* a conclusion, or is gone.                                               *)
MergeDelete(m) ==
    /\ mg[m].pc = "delete"
    /\ LET s == mg[m].s
           l == Head(mg[m].losers)
           rest == Tail(mg[m].losers)
       IN /\ IF Live(l) THEN Tombstone(l) ELSE UNCHANGED <<db, queue>>
          /\ destroyed' = IF Live(l) /\ LastAssertion(l) /\ (Derived(s) \/ ~Visible(s))
                          THEN destroyed \cup {Claim(l)} ELSE destroyed
          /\ merged' = IF Live(l) THEN merged \cup {<<l, s>>} ELSE merged
          /\ mg' = [mg EXCEPT ![m] =
                       IF rest = <<>> THEN NoMerge
                       ELSE [@ EXCEPT !.losers = rest, !.pc = "supersede"]]
    /\ UNCHANGED <<sup, mt, infer, missed, claims, left>>

MergeStep(m) ==
    \/ MergeUpdate(m) \/ MergeMigrate(m) \/ MergeSupersede(m)
    \/ MergeSources(m) \/ MergeRepoint(m) \/ MergeDelete(m)

-----------------------------------------------------------------------------
(* The maintenance thread.  One tick: an inference pass when it is due,    *)
(* then one batch of retractions, then the expiry sweep.                   *)

FactsOf(ns) == SelectSeq([k \in DOMAIN mt.snap |-> FactOf(mt.snap[k])],
                         LAMBDA f : rec[f.id].ns = ns)

(* load_facts and the contradiction scan.  A record deleted between the    *)
(* read of the index and its own read is one the pass finds gone later.    *)
(* note_conflict links a pair unless both records already say so.          *)
BeginPass ==
    /\ mt.pc = "sleep"
    /\ LET snap == Ascending({i \in factIdx : Visible(i)})
           spaces == Ascending({rec[i].ns : i \in ToSet(snap)})
           g0 == nsCursor % Len(spaces)
           groups == [k \in DOMAIN spaces |->
                        spaces[((g0 + k - 1) % Len(spaces)) + 1]]
           scan(cs, ns) == FindConflicts(cs, {FactOf(i) : i \in {j \in ToSet(snap) :
                                                               rec[j].ns = ns}})
           found == FoldLeft(scan, NoConflicts, groups)
           says(i, j) == <<j, "conflicts_with">> \in rec[i].rels
           new == SelectSeq(found.noted, LAMBDA p : ~(says(p[1], p[2])
                                                      /\ says(p[2], p[1])))
       IN mt' = IF snap = <<>> THEN [Asleep EXCEPT !.pc = "derive"]
                ELSE [Asleep EXCEPT !.pc = "derive", !.snap = snap,
                        !.found = found, !.groups = groups, !.g0 = g0,
                        !.notes = FlattenSeq([k \in DOMAIN new |->
                                     <<new[k], <<new[k][2], new[k][1]>>>>]),
                        !.cand = MaxCandidates, !.derived = MaxDerived]
    /\ UNCHANGED <<db, pending, mg, infer, ghost, left>>

NoteConflict ==
    /\ mt.pc = "derive" /\ mt.notes # <<>>
    /\ Relate(mt.notes[1][1], mt.notes[1][2], "conflicts_with")
    /\ mt' = [mt EXCEPT !.notes = Tail(@)]
    /\ UNCHANGED <<factIdx, pending, mg, infer, ghost, left>>

Between == /\ mt.pc = "derive" /\ mt.notes = <<>>
           /\ mt.todo = <<>> /\ mt.links = <<>>

(* run_namespace up to its writes; or a budget is spent and the groups not *)
(* reached wait for the next tick.                                         *)
RunNamespace ==
    /\ Between /\ mt.groups # <<>>
    /\ IF mt.derived = 0 \/ mt.cand = 0
       THEN /\ mt' = [mt EXCEPT !.groups = <<>>, !.deferred = TRUE]
            /\ UNCHANGED cursor
       ELSE LET ns == Head(mt.groups)
                res == InferRun(FactsOf(ns), cursor, MaxDepth, mt.derived, mt.cand)
            IN /\ mt' = [mt EXCEPT !.groups = Tail(@), !.reached = @ + 1,
                            !.ns = ns, !.todo = res.out,
                            !.cand = @ - Min({res.cands, @}),
                            !.deferred = @ \/ res.truncated]
               /\ cursor' = IF res.truncated
                            THEN (cursor + res.scanned) % CursorMod ELSE cursor
    /\ UNCHANGED <<db, pending, mg, nsCursor, conflicts, ghost, left>>

(* write_conclusion: qe_insert, which fails when the store is full ...     *)
WriteConclusion ==
    /\ mt.pc = "derive" /\ mt.notes = <<>> /\ mt.links = <<>> /\ mt.todo # <<>>
    /\ LET c == Head(mt.todo)
       IN IF Len(rec) >= MaxId
          THEN mt' = [mt EXCEPT !.todo = Tail(@)] /\ UNCHANGED <<rec, factIdx>>
          ELSE /\ InsertRecord(mt.ns, c.triple, c.routes)
               /\ mt' = [mt EXCEPT !.todo = Tail(@), !.derived = @ - 1,
                            !.cur = Len(rec) + 1,
                            !.links = FlattenSeq([k \in DOMAIN c.routes |->
                                                    c.routes[k].prem])]
    /\ UNCHANGED <<edges, pending, mg, infer, ghost, left>>

(* The conclusion is not queued when its premise is already gone.          *)
LinkPremiseUnqueued ==
    /\ mt.pc = "derive" /\ mt.links # <<>>
    /\ Relate(mt.cur, Head(mt.links), "derived_from")
    /\ mt' = [mt EXCEPT !.links = Tail(@)]
    /\ UNCHANGED <<factIdx, pending, mg, infer, ghost, left>>

(* ... then one qe_relate per premise.  A premise gone since the snapshot  *)
(* puts the conclusion on the queue.                                       *)
LinkPremise ==
    /\ mt.pc = "derive" /\ mt.links # <<>>
    /\ LET p == Head(mt.links)
       IN /\ Relate(mt.cur, p, "derived_from")
          /\ queue' = IF BothEnds(mt.cur, p) THEN queue ELSE Append(queue, mt.cur)
    /\ mt' = [mt EXCEPT !.links = Tail(@)]
    /\ UNCHANGED <<factIdx, sup, mg, infer, ghost, left>>

(* Any other failure to link is only logged.                               *)
LinkFails ==
    /\ mt.pc = "derive" /\ mt.links # <<>> /\ Spend("fault")
    /\ missed' = missed \cup {mt.cur}
    /\ mt' = [mt EXCEPT !.links = Tail(@)]
    /\ UNCHANGED <<db, pending, mg, infer, claims, destroyed, merged>>

(* The end of db_inference_step: list and count are replaced whole.        *)
PublishPass ==
    /\ Between /\ mt.groups = <<>>
    /\ conflicts' = [list |-> mt.found.list, count |-> Len(mt.found.noted),
                     truncated |-> mt.found.truncated]
    /\ nsCursor' = IF mt.deferred
                   THEN (mt.g0 + mt.reached)
                          % Cardinality({rec[i].ns : i \in ToSet(mt.snap)})
                   ELSE nsCursor
    /\ mt' = [Asleep EXCEPT !.pc = "retract"]
    /\ UNCHANGED <<db, pending, mg, cursor, ghost, left>>

PassNotDue ==
    /\ mt.pc = "sleep" /\ mt' = [Asleep EXCEPT !.pc = "retract"]
    /\ UNCHANGED <<db, pending, mg, infer, ghost, left>>

(* db_retract_step: take at most MaxDerived ids, then judge each.          *)
TakeBatch ==
    /\ mt.pc = "retract"
    /\ LET n == Min({Len(queue), MaxDerived})
       IN /\ mt' = [mt EXCEPT !.pc = "drain", !.batch = SubSeq(queue, 1, n)]
          /\ queue' = SubSeq(queue, n + 1, Len(queue))
    /\ UNCHANGED <<db, sup, mg, infer, ghost, left>>

Unsupported(i) == Visible(i) /\ ~Stands(i)

(* Each id of the batch is judged by reads that take and drop index_lock   *)
(* one by one; a conclusion stays in the batch until it is decided.        *)
Judging == mt.pc \in {"premise", "resolve", "heir", "reap"}
Premise == rec[Head(mt.batch)].routes[mt.route].prem[mt.prem]
Decided == [mt EXCEPT !.pc = "drain", !.batch = Tail(@), !.route = 0, !.prem = 0, !.heir = 0]

(* The loops of db_derivation_stands: a premise that holds leads to the    *)
(* next one or settles that the conclusion stands, a lost one leads to the *)
(* next route or to the delete.                                            *)
PremiseHolds ==
    IF mt.prem = Len(rec[Head(mt.batch)].routes[mt.route].prem) THEN Decided
    ELSE [mt EXCEPT !.pc = "premise", !.prem = @ + 1, !.heir = 0]
PremiseLost ==
    IF mt.route = Len(rec[Head(mt.batch)].routes) THEN [mt EXCEPT !.pc = "reap", !.heir = 0]
    ELSE [mt EXCEPT !.pc = "premise", !.route = @ + 1, !.prem = 1, !.heir = 0]

(* Judging without the early return for a record that has no routes.       *)
ReadConclusionUnchecked ==
    /\ mt.pc = "drain" /\ mt.batch # <<>>
    /\ LET i == Head(mt.batch)
       IN mt' = IF i \notin Ids \/ ~Visible(i) THEN Decided
                ELSE [mt EXCEPT !.pc = IF Derived(i) THEN "premise" ELSE "reap",
                                !.route = 1, !.prem = 1]
    /\ UNCHANGED <<db, pending, mg, infer, ghost, left>>

(* qe_get of a known id.  Routes never change, so they are read later.     *)
ReadConclusion ==
    /\ mt.pc = "drain" /\ mt.batch # <<>>
    /\ LET i == Head(mt.batch)
       IN mt' = IF i \in Ids /\ Visible(i) /\ Derived(i)
                THEN [mt EXCEPT !.pc = "premise", !.route = 1, !.prem = 1] ELSE Decided
    /\ UNCHANGED <<db, pending, mg, infer, ghost, left>>

(* A look that reads a merged premise as a lost one.                       *)
LookAtPremiseOnly ==
    /\ mt.pc = "premise"
    /\ mt' = IF Visible(Premise) THEN PremiseHolds ELSE PremiseLost
    /\ UNCHANGED <<db, pending, mg, infer, ghost, left>>

(* db_id_is_live: the premise, then the merges, then the heir they name.   *)
LookAtPremise ==
    /\ mt.pc = "premise"
    /\ mt' = IF Visible(Premise) THEN PremiseHolds ELSE [mt EXCEPT !.pc = "resolve"]
    /\ UNCHANGED <<db, pending, mg, infer, ghost, left>>

ResolvePremise ==
    /\ mt.pc = "resolve"
    /\ LET h == SupersedeResolve(Premise)
       IN mt' = IF h = 0 THEN PremiseLost ELSE [mt EXCEPT !.pc = "heir", !.heir = h]
    /\ UNCHANGED <<db, pending, mg, infer, ghost, left>>

(* `missed` records a conclusion that may leave the queue with no edge to  *)
(* the heir it now rests on.                                               *)
LookAtHeir ==
    /\ mt.pc = "heir"
    /\ LET i == Head(mt.batch)
       IN missed' = IF Visible(mt.heir) /\ <<i, mt.heir>> \notin edges
                    THEN missed \cup {i} ELSE missed
    /\ mt' = IF Visible(mt.heir) THEN PremiseHolds ELSE PremiseLost
    /\ UNCHANGED <<db, pending, mg, infer, claims, destroyed, merged, left>>

(* No route held: qe_delete, if the conclusion is still there.             *)
Reap ==
    /\ mt.pc = "reap"
    /\ LET i == Head(mt.batch)
       IN IF Live(i) THEN Tombstone(i) ELSE UNCHANGED <<db, queue>>
    /\ mt' = Decided
    /\ UNCHANGED <<sup, mg, infer, ghost, left>>

ReapFails ==
    /\ mt.pc = "reap" /\ Live(Head(mt.batch))
    /\ Spend("fault") /\ TombstoneFails(Head(mt.batch))
    /\ mt' = Decided
    /\ UNCHANGED <<sup, mg, infer, claims, destroyed, merged>>

(* collect_ids over the hash, for qe_sweep_expired.                        *)
ExpiredIds == {i \in Ids : Live(i) /\ rec[i].expired}

(* A sweep that spares the records a conclusion cites.                     *)
BeginSweepUncited ==
    /\ mt.pc = "drain" /\ mt.batch = <<>>
    /\ LET old == {i \in ExpiredIds : Sources(i) = {}}
       IN mt' = [mt EXCEPT !.pc = IF old = {} THEN "sleep" ELSE "sweep",
                           !.batch = Ascending(old)]
    /\ UNCHANGED <<db, pending, mg, infer, ghost, left>>

(* qe_sweep_expired: collect, then delete each.                            *)
BeginSweep ==
    /\ mt.pc = "drain" /\ mt.batch = <<>>
    /\ mt' = [mt EXCEPT !.pc = IF ExpiredIds = {} THEN "sleep" ELSE "sweep",
                        !.batch = Ascending(ExpiredIds)]
    /\ UNCHANGED <<db, pending, mg, infer, ghost, left>>

SweepOne ==
    /\ mt.pc = "sweep"
    /\ IF Live(Head(mt.batch)) THEN Tombstone(Head(mt.batch))
       ELSE UNCHANGED <<db, queue>>
    /\ mt' = [mt EXCEPT !.batch = Tail(@),
                        !.pc = IF Len(mt.batch) = 1 THEN "sleep" ELSE "sweep"]
    /\ UNCHANGED <<sup, mg, infer, ghost, left>>

MaintStep ==
    \/ BeginPass \/ NoteConflict \/ RunNamespace \/ WriteConclusion
    \/ LinkPremise \/ PublishPass \/ PassNotDue
    \/ TakeBatch \/ ReadConclusion \/ LookAtPremise \/ ResolvePremise
    \/ LookAtHeir \/ Reap \/ BeginSweep \/ SweepOne

-----------------------------------------------------------------------------
(* A kill and the recovery of what only memory held: the edges whose       *)
(* target is live, the merges a live record remembers, the fact index, and *)
(* the queue of conclusions none of whose routes is live on its own.       *)
RecoveredEdges ==
    {e \in Ids \X Ids :
        Live(e[1]) /\ Live(e[2]) /\ <<e[2], "derived_from">> \in rec[e[1]].rels}

RecoveredMerges ==
    LET olds(i) == {r[1] : r \in {q \in rec[i].rels : q[2] = "supersedes"}}
    IN FlattenSeq([i \in Ids |->
          IF ~Live(i) THEN <<>>
          ELSE LET gone == Ascending({t \in olds(i) : ~Live(t)})
               IN [k \in DOMAIN gone |-> <<gone[k], i>>]])

RecoveredQueue ==
    LET seen == {p \in Ids : Visible(p)}
    IN Ascending({i \in Ids : Live(i) /\ Derived(i) /\ ~SomeRouteHolds(i, seen)})

(* The kill came between a conclusion and its links, which nothing adds    *)
(* later: what it rests on, or the heir of that, has no edge from it.      *)
UnlinkedAfter(i) ==
    \E k \in DOMAIN rec[i].routes : \E p \in ToSet(rec[i].routes[k].prem) :
    \E h \in {p} \cup {m[2] : m \in {n \in ToSet(RecoveredMerges) : n[1] = p}} :
        Live(h) /\ <<i, h>> \notin RecoveredEdges

Crash ==
    /\ Spend("crash")
    /\ factIdx' = {i \in Ids : Live(i)}
    /\ edges' = RecoveredEdges
    /\ sup' = RecoveredMerges
    /\ queue' = RecoveredQueue
    /\ mt' = Asleep /\ mg' = [m \in Mergers |-> NoMerge]
    /\ cursor' = 0 /\ nsCursor' = 0
    /\ conflicts' = [list |-> <<>>, count |-> 0, truncated |-> FALSE]
    /\ missed' = {i \in Ids : Live(i) /\ UnlinkedAfter(i)}
    /\ UNCHANGED <<rec, claims, destroyed, merged>>

-----------------------------------------------------------------------------
(* The history of a judgement: the routes of the conclusion all of whose   *)
(* premises were held at every moment since it was read.                   *)

(* A merge that will delete x has already noted a survivor in its place.   *)
MergingAway(x) ==
    \E m \in Mergers : mg[m].pc \notin {"idle", "update"} /\ x \in ToSet(mg[m].losers)

(* Visible, or folded by a completed merge into a visible record that is   *)
(* not being folded itself.  A record that an earlier merge, cut short by  *)
(* a kill, was to fold elsewhere has two heirs, and is left out.           *)
HeldByHeir(p) ==
    \/ Visible(p)
    \/ \E s \in Ids : /\ Visible(s) /\ <<p, s>> \in merged /\ ~MergingAway(s)
                      /\ \A h \in Ids : <<p, "supersedes">> \in rec[h].rels => h = s

Watch ==
    stood' = IF ~Judging' THEN {}
             ELSE LET i == Head(mt.batch)
                      before == IF Judging THEN stood ELSE DOMAIN rec[i].routes
                  IN {k \in before : \A p \in ToSet(rec[i].routes[k].prem) : HeldByHeir(p)'}

-----------------------------------------------------------------------------
Client ==
    \/ \E ns \in Ns, t \in Assertable : AssertFact(ns, t)
    \/ \E i \in Ids : Delete(i) \/ Expire(i)
    \/ \E m \in Mergers : MergeBegin(m)

Fault == LinkFails \/ ReapFails \/ (\E i \in Ids : DeleteFails(i)) \/ Crash

Step == Client \/ Fault \/ MaintStep \/ \E m \in Mergers : MergeStep(m)

Next == Step /\ Watch

Spec == Init /\ [][Next]_vars

(* The maintenance thread and a client's merge keep running, and a pass is *)
(* due again and again (maint_loop runs it every inference_interval_sec).  *)
FairSpec ==
    /\ Spec
    /\ []<><<TRUE>>_mt /\ []<>(mt.pc = "derive")
    /\ \A m \in Mergers : []<>(mg[m].pc = "idle")

-----------------------------------------------------------------------------
(* Every variable stays in its type.                                       *)
TypeOK ==
    /\ Len(rec) <= MaxId
    /\ factIdx \subseteq Ids /\ edges \subseteq Ids \X Ids
    /\ ToSet(queue) \subseteq Ids /\ missed \subseteq Ids
    /\ \A k \in DOMAIN sup : ToSet(sup[k]) \subseteq Ids
    /\ mt.pc \in {"sleep", "derive", "retract", "drain", "premise", "resolve", "heir",
                 "reap", "sweep"}
    /\ \A m \in Mergers :
          mg[m].pc \in {"idle", "update", "migrate", "supersede", "sources",
                        "repoint", "delete"}

(* A visible conclusion without a standing route is always known to the    *)
(* machinery: it is queued or in the batch being judged, its links are     *)
(* still being written, or it hangs from a record that the sweep or a      *)
(* merge will delete.  The capture in qe_delete, the NOT_FOUND branch of   *)
(* write_conclusion, the repointing of a merge and the reconciliation of   *)
(* recovery only give this together.  It exempts `missed`: a conclusion    *)
(* one of whose links was never made (the link failed, or a kill came      *)
(* first), and one that was judged to rest on an heir it has no edge to.   *)
NoStrandedConclusion ==
    \A i \in Ids : Unsupported(i) /\ i \notin missed =>
        \/ i \in ToSet(queue)
        \/ (mt.pc = "drain" \/ Judging) /\ i \in ToSet(mt.batch)
        \/ i = mt.cur /\ mt.links # <<>>
        \/ \E x \in Ids : /\ Live(x) /\ <<i, x>> \in edges
                          /\ rec[x].expired \/ MergingAway(x)

(* An unsupported conclusion is eventually deleted (db_retract_step) or    *)
(* supported again by a merge, in batches, across kills, whatever clients  *)
(* do meanwhile; except the ones whose link to a premise or its heir was   *)
(* never made.                                                             *)
RetractionHappens ==
    \A i \in 1..MaxId :
        (i \in Ids /\ Unsupported(i) /\ i \notin missed)
            ~> (i \in Ids /\ (~Unsupported(i) \/ i \in missed))

(* The same without the exception: what §6 of the inference design says    *)
(* of a conclusion whose edges did not attach.                             *)
EveryRetractionHappens ==
    \A i \in 1..MaxId :
        (i \in Ids /\ Unsupported(i)) ~> (i \in Ids /\ ~Unsupported(i))

(* No write has failed: a delete whose append fails leaves its record live *)
(* and unknown to the fact index, so the next pass derives it once more.   *)
NoFailure == left["fault"] = Limits["fault"]

(* The visible records that rest, in any number of steps, on asserted ones.*)
Grounded ==
    LET ok(S) == {p \in Ids : p \in S \/ SupersedeResolve(p) \in S}
        g[k \in 0..MaxId] ==
            IF k = 0 THEN {i \in Ids : Visible(i) /\ ~Derived(i)}
            ELSE LET S == g[k - 1]
                 IN S \cup {i \in Ids : Visible(i) /\ SomeRouteHolds(i, ok(S))}
    IN g[MaxId]

(* Conclusions do not hold each other up: when every visible record        *)
(* stands, each one rests, through routes and merges, on asserted records. *)
NoCircularSupport ==
    NoFailure /\ (\A i \in Ids : Visible(i) => Stands(i))
        => \A i \in Ids : Visible(i) => i \in Grounded

(* No triple is held by two live conclusions: a pass never derives what an *)
(* earlier one derived, across kills and merges.                           *)
NoDuplicateConclusion ==
    NoFailure =>
        \A i, j \in Ids : Live(i) /\ Live(j) /\ Derived(i) /\ Derived(j)
                          /\ Claim(i) = Claim(j) => i = j

(* What a client asserted and did not take back is still asserted by a     *)
(* visible record: merges keep it (merge_cluster), retraction and the      *)
(* sweep never take it.  The exceptions are `destroyed`, the two ways in   *)
(* which merge_cluster loses an assertion: it folds the last record of it  *)
(* into a conclusion, or into a survivor that was deleted, expired or      *)
(* merged away after the update.                                           *)
AssertionSurvives == \A c \in claims \ destroyed : AssertsOf(c) # {}

(* The same without the exceptions: "A merge must not destroy an           *)
(* assertion" (merge_cluster), which TLC refutes.                          *)
MergeDestroysNoAssertion == \A c \in claims : AssertsOf(c) # {}

(* A merged premise is not a lost one: judging deletes no conclusion that  *)
(* had a route which stood from the read of the record to its delete, each *)
(* premise being visible or folded by a completed merge into a visible     *)
(* record, before a restart or after.                                      *)
MergedPremiseCounts ==
    [][Reap /\ Live(Head(mt.batch)) => stood = {}]_vars

(* The same of the state the delete is made in, which TLC refutes: a       *)
(* premise that expired is read as lost, its merge then completes, and the *)
(* conclusion is deleted although its premise has an heir.                 *)
DeletedOnlyUnsupported ==
    [][Reap /\ Live(Head(mt.batch)) =>
          ~SomeRouteHolds(Head(mt.batch), {p \in Ids : HeldByHeir(p)})]_vars

(* Two facts of a subject that cannot both hold, by the registry.          *)
Contradict(i, j) ==
    /\ rec[i].ns = rec[j].ns /\ rec[i].fact[1] = rec[j].fact[1]
    /\ LET p == rec[i].fact[2]
           q == rec[j].fact[2]
       IN \/ p = q /\ Registry[p].single_valued /\ rec[i].fact[3] # rec[j].fact[3]
          \/ MutuallyExclusive(p, q)

(* The published count is the length of the published list unless the list *)
(* is capped, and each subject that contradicts itself is in it: the scan  *)
(* of qe_infer.c fills a new ConflictSet and swaps it in.                  *)
ConflictsAgree ==
    [][PublishPass =>
        LET shown == ToSet(conflicts'.list)
            snap == ToSet(mt.snap)
        IN /\ conflicts'.truncated \/ conflicts'.count = Cardinality(shown)
           /\ \A pr \in shown : Contradict(pr[1], pr[2])
           /\ \A i, j \in snap : i # j /\ Contradict(i, j) =>
                 \/ conflicts'.truncated
                 \/ \E pr \in shown : rec[pr[1]].fact[1] = rec[i].fact[1]
                                      /\ rec[pr[1]].ns = rec[i].ns]_vars
=============================================================================
