------------------------------ MODULE Records ------------------------------
(***************************************************************************)
(* The record operations (src/src/query/query_engine.c) against the log    *)
(* and every index they maintain, with the three other places that build   *)
(* the same indexes: recovery, compaction's copy, and a replica applying   *)
(* the stream.  A traversal runs beside the writers, one lock hold at a    *)
(* time.                                                                   *)
(*                                                                         *)
(* One write is one hold of index_lock, hence one action; offsets are      *)
(* positions in the log.  Durability, crashes in the middle of compaction, *)
(* the hash checkpoint and next_id are Storage's subject, the graph build  *)
(* behind the vectors SemanticBuild's, the retraction queue                *)
(* TruthMaintenance's.                                                     *)
(***************************************************************************)
EXTENDS Indexes

CONSTANTS
    MaxId,          \* bound: record ids
    Namespaces,     \* agent ids (tokens are configured: tenants are accounted)
    Kinds,          \* relation kinds
    Inputs,         \* insert bodies [ns, tags, text, fact, vec]
    Patches,        \* update bodies: functions on a subset of the fields
    Buckets,        \* ids in the order of their hash buckets
    MaxRecords,     \* tenant_max_records
    MaxBytes,       \* tenant_max_bytes
    AnnMin,         \* ann_threshold: vectors from which a graph is checkpointed
    MaxNodes,       \* TRAVERSE_MAX_NODES
    WalkDepth,      \* depth a traversal asks for
    Filters,        \* kind filters a traversal may ask for, {} for none
    FirstLogs,      \* logs a server may start from
    Plans           \* bounds: how often each kind of operation happens

ASSUME RecordsAssumption ==
    /\ MaxId \in Nat /\ MaxKinds \in Nat /\ MaxPreds \in Nat
    /\ MaxRecords \in Nat /\ MaxBytes \in Nat
    /\ MaxNodes \in Nat \ {0} /\ WalkDepth \in Nat
    /\ ToSet(Buckets) = 1 .. MaxId

Ids == 1 .. MaxId
NoVec == "none"

VARIABLES
    log,        \* memory.log: a sequence of record versions
    hash,       \* id |-> offset of its latest version
    ix,         \* the secondary indexes of the server
    usage,      \* UsageIndex: id |-> recalls
    tenants,    \* TenantTable: ns |-> [records, bytes]
    nextId,     \* AegisDB.next_id
    gen,        \* log_generation
    disk,       \* memory.usage and the semantic checkpoint
    replica,    \* a follower's log, hash, indexes and generation
    walk,       \* a traversal in progress
    hist,       \* history: see NoHistory
    left        \* bound: the operations still to come

vars == <<log, hash, ix, usage, tenants, nextId, gen, disk, replica, walk,
          hist, left>>

-----------------------------------------------------------------------------
(* The log and the hash.                                                   *)

LiveIn(h, l) == {i \in DOMAIN h : ~l[h[i]].del}
Live == LiveIn(hash, log)
Current(i) == log[hash[i]]

(* The length of a version's payload: what tenant accounting counts.       *)
Size(v) == 1 + Cardinality(v.tags) + Len(v.rels) + (IF v.fact = NoFact THEN 0 ELSE 1)

(* Pass 1 of recovery: the latest frame of an id wins.                     *)
HashOf(l) ==
    [i \in {l[k].id : k \in DOMAIN l} |-> CHOOSE k \in DOMAIN l :
        l[k].id = i /\ \A m \in DOMAIN l : l[m].id = i => m <= k]

InBucketOrder(ids) == SelectSeq(Buckets, LAMBDA i : i \in ids)

-----------------------------------------------------------------------------
(* What a version adds to the indexes, and what dropping it removes.       *)

(* History the code does not keep: `unindexed' holds the ids whose delete   *)
(* failed after the indexes dropped them, `novec' those whose vector may   *)
(* be missing since, `top' the greatest id given out and `reused' the ids  *)
(* given out twice since the last restart.                                 *)
NoHistory == [unindexed |-> {}, novec |-> {}, top |-> Len(log), reused |-> {}]

NoIndexes == [time |-> <<>>, tags |-> {}, lex |-> LexEmpty, edges |-> EdgeEmpty,
              facts |-> FactEmpty, sem |-> <<>>]

TagsAdded(t, v) == t \cup {<<g, v.id>> : g \in v.tags}
TagsRemoved(t, v) == t \ {<<g, v.id>> : g \in v.tags}

(* db_fact_index_apply.                                                    *)
FactApply(f, v, add) ==
    IF v.fact = NoFact THEN f
    ELSE IF add THEN FactAdd(f, v.id, v.fact) ELSE FactRemove(f, v.id, v.fact)

(* semantic_index_add replaces a record's vectors.                         *)
SemSet(s, v) == IF v.vec = NoVec THEN s ELSE With(s, v.id, v.vec)
SemRemove(s, id) == Without(s, id)

(* edge_index_add for the relations whose target is in `targets'.          *)
EdgesAdded(e, v, targets) ==
    LET add(acc, r) == IF r[1] \in targets THEN EdgeAdd(acc, v.id, r[1], r[2]) ELSE acc
    IN FoldLeft(add, e, v.rels)

EdgesRemoved(e, v) ==
    LET drop(acc, r) == EdgeRemove(acc, v.id, r[1], r[2])
    IN FoldLeft(drop, e, v.rels)

(* Everything but the edges and the vectors, which the callers treat       *)
(* differently.                                                            *)
Indexed(x, v) ==
    [x EXCEPT !.time = TimeAdd(@, v.created, v.id),
              !.tags = TagsAdded(@, v),
              !.lex = LexAdd(@, v.id, v.text),
              !.facts = FactApply(@, v, TRUE)]

Unindexed(x, v) ==
    [x EXCEPT !.time = TimeRemove(@, v.created, v.id),
              !.tags = TagsRemoved(@, v),
              !.lex = LexRemove(@, v.id, v.text),
              !.edges = EdgesRemoved(@, v),
              !.facts = FactApply(@, v, FALSE)]

-----------------------------------------------------------------------------
(* Pass 2 of recovery over the live records in bucket order.  `ckpt' is    *)
(* the semantic checkpoint, trusted when it covers no more than the log.   *)

NoSem == [covered |-> -1, map |-> <<>>]

RecoverVector(s, v, off, ckpt, loaded) ==
    IF v.vec # NoVec /\ (~loaded \/ off > ckpt.covered) THEN SemSet(s, v)
    ELSE IF loaded /\ off > ckpt.covered THEN SemRemove(s, v.id) ELSE s

Recovered(l, ckpt) ==
    LET h == HashOf(l)
        live == LiveIn(h, l)
        loaded == ckpt.covered >= 0 /\ ckpt.covered <= Len(l)
        one(x, i) ==
            LET v == l[h[i]]
                base == Indexed(x, v)
            IN [base EXCEPT !.edges = EdgesAdded(@, v, live),
                            !.sem = RecoverVector(@, v, h[i], ckpt, loaded)]
        all == FoldLeft(one, [NoIndexes EXCEPT !.sem = IF loaded THEN ckpt.map ELSE <<>>],
                        InBucketOrder(live))
        reconciled == [i \in DOMAIN all.sem \cap live |-> all.sem[i]]
    IN [all EXCEPT !.sem = reconciled]

UsageRecovered(l, image) ==
    UsageLoad([i \in LiveIn(HashOf(l), l) |-> 0], image)

(* Tenants are seeded from the live records.                               *)
UsageOfTenant(l, n) ==
    LET own == {i \in LiveIn(HashOf(l), l) : l[HashOf(l)[i]].ns = n}
    IN [records |-> Cardinality(own),
        bytes |-> FoldSet(LAMBDA i, acc : acc + Size(l[HashOf(l)[i]]), 0, own)]

-----------------------------------------------------------------------------
(* append_and_hash: tenant accounting around the append.                   *)

DeltaRecords(v) == (IF v.del THEN 0 ELSE 1) - (IF v.id \in Live THEN 1 ELSE 0)
(* Mutant: an update is charged in full.                                   *)
DeltaBytesOfNew(v) == IF v.del THEN 0 - Size(Current(v.id)) ELSE Size(v)

DeltaBytes(v) == (IF v.del THEN 0 ELSE Size(v))
                 - (IF v.id \in Live THEN Size(Current(v.id)) ELSE 0)

(* A check that forgets the byte quota.                                    *)
WouldExceedRecordsOnly(v) ==
    /\ MaxRecords > 0 /\ DeltaRecords(v) > 0
    /\ tenants[v.ns].records + DeltaRecords(v) > MaxRecords

(* tenant_usage_would_exceed: a delta that is not positive never exceeds.  *)
WouldExceed(v) ==
    \/ MaxRecords > 0 /\ DeltaRecords(v) > 0
         /\ tenants[v.ns].records + DeltaRecords(v) > MaxRecords
    \/ MaxBytes > 0 /\ DeltaBytes(v) > 0
         /\ tenants[v.ns].bytes + DeltaBytes(v) > MaxBytes

Saturated(n, d) == IF d < 0 /\ -d > n THEN 0 ELSE n + d

AppendAndHash(v) ==
    /\ ~WouldExceed(v)
    /\ log' = Append(log, v)
    /\ hash' = With(hash, v.id, Len(log) + 1)
    /\ tenants' = [tenants EXCEPT
          ![v.ns].records = Saturated(@, DeltaRecords(v)),
          ![v.ns].bytes = Saturated(@, DeltaBytes(v))]
    /\ walk' = IF walk.pc = "idle" THEN walk ELSE [walk EXCEPT !.current = @ \cup {v}]

Count(op) ==
    /\ left[op] > 0 /\ left.total > 0
    /\ left' = [left EXCEPT ![op] = @ - 1, !.total = @ - 1]

-----------------------------------------------------------------------------
(* The operations.                                                         *)

(* created: the clock of the write, which two inserts may share.           *)
Clock(id) == (id + 1) \div 2

(* qe_insert.  The id is taken before the lock and lost if the quota       *)
(* refuses the write.                                                      *)
Insert(b) ==
    LET v == [id |-> nextId, ns |-> b.ns, created |-> Clock(nextId), tags |-> b.tags,
              text |-> b.text, fact |-> b.fact, vec |-> b.vec, rels |-> <<>>, del |-> FALSE]
    IN /\ nextId <= MaxId
       /\ Count("insert")
       /\ nextId' = nextId + 1
       /\ hist' = [hist EXCEPT !.top = Max({@, nextId}),
                                !.reused = IF nextId <= hist.top THEN @ \cup {nextId} ELSE @]
       /\ \/ /\ AppendAndHash(v)
             /\ LET x == Indexed(ix, v)
                IN ix' = [x EXCEPT !.edges = EdgesAdded(@, v, Ids), !.sem = SemSet(@, v)]
             /\ usage' = UsageTrack(usage, v.id)
          \/ /\ WouldExceed(v)
             /\ UNCHANGED <<log, hash, tenants, walk, ix, usage>>
       /\ UNCHANGED <<gen, disk, replica>>

(* The caller's namespace must own the record; "any" is a caller with none.*)
Denies(ns, v) == ns # "any" /\ v.ns # ns

Patched(v, p) ==
    [v EXCEPT !.tags = IF "tags" \in DOMAIN p THEN p.tags ELSE @,
              !.text = IF "text" \in DOMAIN p THEN p.text ELSE @,
              !.fact = IF "fact" \in DOMAIN p THEN p.fact ELSE @,
              !.vec = IF "vec" \in DOMAIN p THEN p.vec ELSE @]

(* What a committed update does to the indexes, old version to new.  The   *)
(* fact of a record that had none is added; an existing one never changes. *)
SwungKeepsText(x, old, new, p) ==
    [x EXCEPT !.tags = IF "tags" \in DOMAIN p THEN TagsAdded(TagsRemoved(@, old), new) ELSE @,
              !.facts = IF "fact" \in DOMAIN p THEN FactApply(@, new, TRUE) ELSE @,
              !.lex = IF "text" \in DOMAIN p THEN LexAdd(@, new.id, new.text) ELSE @,
              !.sem = IF "vec" \notin DOMAIN p THEN @
                      ELSE IF new.vec # NoVec THEN SemSet(@, new)
                      ELSE IF old.vec # NoVec THEN SemRemove(@, new.id) ELSE @]

Swung(x, old, new, p) ==
    [x EXCEPT !.tags = IF "tags" \in DOMAIN p THEN TagsAdded(TagsRemoved(@, old), new) ELSE @,
              !.facts = IF "fact" \in DOMAIN p THEN FactApply(@, new, TRUE) ELSE @,
              !.lex = IF "text" \in DOMAIN p
                      THEN LexAdd(LexRemove(@, old.id, old.text), new.id, new.text) ELSE @,
              !.sem = IF "vec" \notin DOMAIN p THEN @
                      ELSE IF new.vec # NoVec THEN SemSet(@, new)
                      ELSE IF old.vec # NoVec THEN SemRemove(@, new.id) ELSE @]

(* qe_update of a semantic record.                                         *)
Update(i, p, ns) ==
    LET new == Patched(Current(i), p)
    IN /\ i \in Live /\ ~Denies(ns, Current(i))
       /\ "fact" \in DOMAIN p => Current(i).fact = NoFact
       /\ Count("update")
       /\ AppendAndHash(new)
       /\ ix' = Swung(ix, Current(i), new, p)
       /\ UNCHANGED <<usage, nextId, gen, disk, replica, hist>>

(* qe_delete: the indexes are dropped before the tombstone is appended.    *)
Dropped(x, v) ==
    LET u == Unindexed(x, v)
    IN [u EXCEPT !.edges = EdgeRemoveTarget(@, v.id), !.sem = SemRemove(@, v.id)]

Delete(i, ns) ==
    LET v == Current(i)
    IN /\ i \in Live /\ ~Denies(ns, v)
       /\ Count("delete")
       /\ AppendAndHash([v EXCEPT !.del = TRUE])
       /\ ix' = Dropped(ix, v)
       /\ usage' = UsageUntrack(usage, i)
       /\ hist' = [hist EXCEPT !.unindexed = @ \ {i}]
       /\ UNCHANGED <<nextId, gen, disk, replica>>

(* The same call when log_append fails: the record stays live.             *)
DeleteFails(i, ns) ==
    /\ i \in Live /\ ~Denies(ns, Current(i))
    /\ Count("fault")
    /\ ix' = Dropped(ix, Current(i))
    /\ usage' = UsageUntrack(usage, i)
    /\ hist' = [hist EXCEPT !.unindexed = @ \cup {i}, !.novec = @ \cup {i}]
    /\ UNCHANGED <<log, hash, tenants, walk, nextId, gen, disk, replica>>

(* qe_relate.  A relation the record holds already is a no-op.             *)
Relate(i, j, kind, ns) ==
    LET new == [Current(i) EXCEPT !.rels = Append(@, <<j, kind>>)]
    IN /\ i # j /\ i \in Live /\ j \in Live
       /\ ~Denies(ns, Current(i)) /\ ~Denies(ns, Current(j))
       /\ <<j, kind>> \notin ToSet(Current(i).rels)
       /\ Count("relate")
       /\ AppendAndHash(new)
       /\ ix' = [ix EXCEPT !.edges = EdgeAdd(@, i, j, kind)]
       /\ UNCHANGED <<usage, nextId, gen, disk, replica, hist>>

(* A get or a search hit is observed: usage_index_record.                  *)
Recall(i) ==
    /\ i \in Live
    /\ Count("recall")
    /\ usage' = UsageRecord(usage, i)
    /\ UNCHANGED <<log, hash, ix, tenants, nextId, gen, disk, replica, walk, hist>>

-----------------------------------------------------------------------------
(* Maintenance and restarts.                                               *)

(* db_checkpoint.  The vectors are saved once a graph holds them, which    *)
(* takes AnnMin of them and a build; without one the old file is removed.  *)
Checkpoints ==
    {[usage |-> UsageSerialize(usage), nextId |-> nextId, meta |-> disk.meta,
      sem |-> IF graph THEN [covered |-> Len(log), map |-> ix.sem] ELSE NoSem] :
        graph \in {FALSE} \cup {Cardinality(DOMAIN ix.sem) >= AnnMin}}

Checkpoint ==
    /\ Count("checkpoint")
    /\ disk' \in Checkpoints
    /\ UNCHANGED <<log, hash, ix, usage, tenants, nextId, gen, replica, walk, hist>>

NoWalk == [pc |-> "idle", front |-> <<>>, seen |-> {}, offs |-> <<>>, found |-> <<>>,
           level |-> 0, dir |-> "out", kinds |-> {}, ns |-> "any", start |-> 0,
           capped |-> FALSE, current |-> {}, base |-> 0]

(* The process stops and recovery_run rebuilds.  db_close writes the       *)
(* checkpoint and metadata.db first; a killed process does neither, and    *)
(* next_id is then what the checkpoint, the log and an older metadata.db   *)
(* give.                                                                   *)
Restart(d) ==
    /\ Count("restart")
    /\ disk' = d
    /\ hash' = HashOf(log)
    /\ ix' = Recovered(log, d.sem)
    /\ usage' = UsageRecovered(log, d.usage)
    /\ tenants' = [n \in Namespaces |-> UsageOfTenant(log, n)]
    /\ nextId' = Max({d.nextId, d.meta, 1} \cup {log[k].id + 1 : k \in DOMAIN log})
    /\ walk' = NoWalk
    /\ hist' = [hist EXCEPT !.unindexed = {}, !.reused = {},
                            !.novec = IF d.sem.covered >= 0 THEN @ ELSE {}]
    /\ UNCHANGED <<log, gen, replica>>

Kill == Restart(disk)
CloseAndOpen == \E d \in Checkpoints : Restart([d EXCEPT !.meta = nextId])

(* compaction_run_once: the live frames, in bucket order, become the log;  *)
(* the swap waits for readers (log_lock), and the checkpoints that name    *)
(* offsets are removed.                                                    *)
Compact ==
    LET kept == InBucketOrder(Live)
    IN /\ walk.pc # "read"
       /\ Count("compact")
       /\ log' = [k \in DOMAIN kept |-> Current(kept[k])]
       /\ hash' = [i \in Live |-> CHOOSE k \in DOMAIN kept : kept[k] = i]
       /\ gen' = gen + 1
       /\ disk' = [disk EXCEPT !.sem = NoSem, !.nextId = 0]
       /\ UNCHANGED <<ix, usage, tenants, nextId, replica, walk, hist>>

-----------------------------------------------------------------------------
(* A replica.                                                              *)

(* Mutant: the new version's entries join those of the old one.            *)
AppliedBeside(r, v) ==
    LET live == LiveIn(r.hash, r.log)
        come == Indexed(r.ix, v)
    IN [r EXCEPT !.log = Append(@, v),
                 !.hash = With(@, v.id, Len(r.log) + 1),
                 !.ix = IF v.del
                        THEN [Unindexed(r.ix, v) EXCEPT !.edges = EdgeRemoveTarget(@, v.id),
                                                        !.sem = SemRemove(@, v.id)]
                        ELSE [come EXCEPT !.edges = EdgesAdded(@, v, live \cup {v.id}),
                                          !.sem = SemSet(@, v)]]

(* db_replica_apply: the prior live version goes, the new one comes, with  *)
(* the edges whose target is live by now.                                  *)
Applied(r, v) ==
    LET live == LiveIn(r.hash, r.log)
        gone == IF v.id \in live
                THEN LET p == r.log[r.hash[v.id]]
                         u == Unindexed(r.ix, p)
                     IN [u EXCEPT !.sem = IF p.vec # NoVec THEN SemRemove(@, p.id) ELSE @]
                ELSE r.ix
        targets == IF v.del THEN live \ {v.id} ELSE live \cup {v.id}
        come == Indexed(gone, v)
    IN [r EXCEPT !.log = Append(@, v),
                 !.hash = With(@, v.id, Len(r.log) + 1),
                 !.ix = IF v.del
                        THEN [gone EXCEPT !.edges = EdgeRemoveTarget(@, v.id)]
                        ELSE [come EXCEPT !.edges = EdgesAdded(@, v, targets),
                                          !.sem = SemSet(@, v)]]

ReplicaApply ==
    /\ replica.gen = gen /\ Len(replica.log) < Len(log)
    /\ replica' = Applied(replica, log[Len(replica.log) + 1])
    /\ UNCHANGED <<log, hash, ix, usage, tenants, nextId, gen, disk, walk, hist, left>>

(* db_reset_replica, when the primary announces a new generation.          *)
ReplicaReset ==
    /\ replica.gen # gen
    /\ left.sync > 0
    /\ left' = [left EXCEPT !.sync = @ - 1]
    /\ replica' = [gen |-> gen, log |-> <<>>, hash |-> <<>>, ix |-> NoIndexes]
    /\ UNCHANGED <<log, hash, ix, usage, tenants, nextId, gen, disk, walk, hist>>

-----------------------------------------------------------------------------
(* qe_traverse_ex: breadth first, one level per round.  A level resolves   *)
(* its ids under index_lock, takes log_lock before letting it go, reads    *)
(* the versions, and asks the edge index under index_lock again.           *)

(* kind_wanted: a named filter never passes an edge without a kind.        *)
KindWanted(wanted, kind) == wanted = {} \/ (kind # NoKind /\ kind \in wanted)

WalkBegin(start, dir, wanted, ns) ==
    /\ walk.pc = "idle"
    /\ Count("walk")
    /\ walk' = [NoWalk EXCEPT !.pc = "resolve", !.start = start, !.dir = dir,
                              !.kinds = wanted, !.ns = ns,
                              !.front = <<[id |-> start, via |-> 0, sure |-> TRUE]>>,
                              !.current = {Current(i) : i \in DOMAIN hash},
                              !.base = Len(log)]
    /\ UNCHANGED <<log, hash, ix, usage, tenants, nextId, gen, disk, replica, hist>>

(* Mutant: the cap is checked after the node is taken.                     *)
ResolvedPastCap(w) ==
    LET step(acc, e) ==
            IF acc.capped \/ Cardinality(acc.seen) > MaxNodes
            THEN [acc EXCEPT !.capped = TRUE]
            ELSE IF e.id \in acc.seen THEN acc
            ELSE [acc EXCEPT !.seen = @ \cup {e.id},
                             !.offs = IF e.id \in Live
                                      THEN Append(@, [off |-> hash[e.id], via |-> e.via,
                                                      sure |-> e.sure]) ELSE @]
    IN FoldLeft(step, [w EXCEPT !.offs = <<>>], w.front)

(* The ids of a level not seen before, up to the node cap, with the        *)
(* offsets of those that are live.                                         *)
Resolved(w) ==
    LET step(acc, e) ==
            IF acc.capped \/ Cardinality(acc.seen) >= MaxNodes
            THEN [acc EXCEPT !.capped = TRUE]
            ELSE IF e.id \in acc.seen THEN acc
            ELSE [acc EXCEPT !.seen = @ \cup {e.id},
                             !.offs = IF e.id \in Live
                                      THEN Append(@, [off |-> hash[e.id], via |-> e.via,
                                                      sure |-> e.sure]) ELSE @]
    IN FoldLeft(step, [w EXCEPT !.offs = <<>>], w.front)

WalkResolve ==
    /\ walk.pc = "resolve"
    /\ walk' = [Resolved(walk) EXCEPT !.pc = "read", !.front = <<>>]
    /\ UNCHANGED <<log, hash, ix, usage, tenants, nextId, gen, disk, replica,
                   hist, left>>

(* The next level, or the end of the walk.                                 *)
LevelDone(w) ==
    IF w.level < WalkDepth /\ w.front # <<>> /\ ~w.capped
    THEN [w EXCEPT !.pc = "resolve", !.level = @ + 1]
    ELSE [w EXCEPT !.pc = "done"]

(* Mutant: a level reads what it resolved without asking for the owner.    *)
WalkReadUnscoped ==
    LET visible(h) == ~log[h.off].del
        hits == SelectSeq(walk.offs, visible)
        out(v) == IF walk.dir = "in" THEN <<>>
                  ELSE SelectSeq(v.rels, LAMBDA r : KindWanted(walk.kinds, r[2]))
        edges(acc, h) == acc \o [k \in DOMAIN out(log[h.off]) |->
                            [id |-> out(log[h.off])[k][1], via |-> log[h.off].id, sure |-> TRUE]]
        w == [walk EXCEPT
                !.found = @ \o [k \in DOMAIN hits |->
                     [v |-> log[hits[k].off], level |-> walk.level, via |-> hits[k].via,
                      sure |-> hits[k].sure]],
                !.front = FoldLeft(edges, <<>>, hits)]
    IN /\ walk.pc = "read"
       /\ walk' = IF walk.dir = "out" THEN LevelDone(w) ELSE [w EXCEPT !.pc = "reverse"]
       /\ UNCHANGED <<log, hash, ix, usage, tenants, nextId, gen, disk, replica,
                      hist, left>>

WalkRead ==
    LET visible(h) == ~log[h.off].del /\ ~Denies(walk.ns, log[h.off])
        hits == SelectSeq(walk.offs, visible)
        out(v) == IF walk.dir = "in" THEN <<>>
                  ELSE SelectSeq(v.rels, LAMBDA r : KindWanted(walk.kinds, r[2]))
        edges(acc, h) == acc \o [k \in DOMAIN out(log[h.off]) |->
                            [id |-> out(log[h.off])[k][1], via |-> log[h.off].id, sure |-> TRUE]]
        w == [walk EXCEPT
                !.found = @ \o [k \in DOMAIN hits |->
                     [v |-> log[hits[k].off], level |-> walk.level, via |-> hits[k].via,
                      sure |-> hits[k].sure]],
                !.front = FoldLeft(edges, <<>>, hits)]
    IN /\ walk.pc = "read"
       /\ walk' = IF walk.dir = "out" THEN LevelDone(w) ELSE [w EXCEPT !.pc = "reverse"]
       /\ UNCHANGED <<log, hash, ix, usage, tenants, nextId, gen, disk, replica,
                      hist, left>>

(* Mutant: the sources replace the targets the read found.                 *)
WalkReverseOnly ==
    LET level == SelectSeq(walk.found, LAMBDA h : h.level = walk.level)
        order(a, b) == a[2] < b[2] \/ (a[2] = b[2] /\ a[3] < b[3])
        posts(t) == SetToSortSeq(EdgeSources(ix.edges, t, walk.kinds), order)
        add(acc, h) == acc \o [k \in DOMAIN posts(h.v.id) |->
                         [id |-> posts(h.v.id)[k][2], via |-> h.v.id,
                          sure |-> posts(h.v.id)[k][3] # Unknown]]
    IN /\ walk.pc = "reverse"
       /\ walk' = LevelDone([walk EXCEPT !.front = FoldLeft(add, <<>>, level)])
       /\ UNCHANGED <<log, hash, ix, usage, tenants, nextId, gen, disk, replica,
                      hist, left>>

(* The sources of this level's hits.  A posting of unknown kind is only a  *)
(* candidate (kind_unknown).                                               *)
WalkReverse ==
    LET level == SelectSeq(walk.found, LAMBDA h : h.level = walk.level)
        order(a, b) == a[2] < b[2] \/ (a[2] = b[2] /\ a[3] < b[3])
        posts(t) == SetToSortSeq(EdgeSources(ix.edges, t, walk.kinds), order)
        add(acc, h) == acc \o [k \in DOMAIN posts(h.v.id) |->
                         [id |-> posts(h.v.id)[k][2], via |-> h.v.id,
                          sure |-> posts(h.v.id)[k][3] # Unknown]]
    IN /\ walk.pc = "reverse"
       /\ walk' = LevelDone([walk EXCEPT !.front = FoldLeft(add, @, level)])
       /\ UNCHANGED <<log, hash, ix, usage, tenants, nextId, gen, disk, replica,
                      hist, left>>

WalkEnd ==
    /\ walk.pc = "done"
    /\ walk' = NoWalk
    /\ UNCHANGED <<log, hash, ix, usage, tenants, nextId, gen, disk, replica,
                   hist, left>>

-----------------------------------------------------------------------------
Init ==
    /\ log \in FirstLogs
    /\ hash = HashOf(log)
    /\ ix = Recovered(log, NoSem)
    /\ usage = UsageRecovered(log, <<>>)
    /\ tenants = [n \in Namespaces |-> UsageOfTenant(log, n)]
    /\ nextId = Len(log) + 1
    /\ gen = 1
    /\ disk = [usage |-> <<>>, sem |-> NoSem, nextId |-> 0, meta |-> 0]
    /\ replica = [gen |-> 0, log |-> <<>>, hash |-> <<>>, ix |-> NoIndexes]
    /\ walk = NoWalk
    /\ hist = NoHistory
    /\ left \in Plans

Callers == Namespaces \cup {"any"}

Next ==
    \/ \E b \in Inputs : Insert(b)
    \/ \E i \in DOMAIN hash, ns \in Callers :
         \/ \E p \in Patches : Update(i, p, ns)
         \/ Delete(i, ns)
         \/ DeleteFails(i, ns)
         \/ \E j \in DOMAIN hash, k \in Kinds \cup {NoKind} : Relate(i, j, k, ns)
         \/ \E d \in {"out", "in", "both"}, k \in Filters :
                WalkBegin(i, d, k, ns)
    \/ \E i \in DOMAIN hash : Recall(i)
    \/ Checkpoint \/ Kill \/ CloseAndOpen \/ Compact
    \/ ReplicaApply \/ ReplicaReset
    \/ WalkResolve \/ WalkRead \/ WalkReverse \/ WalkEnd

Spec == Init /\ [][Next]_vars

-----------------------------------------------------------------------------
(* Properties.                                                             *)

(* The state is well formed: the hash names the frame of its id, counters  *)
(* stay within their bounds, a walk respects TRAVERSE_MAX_NODES.           *)
TypeOK ==
    /\ \A i \in DOMAIN hash : hash[i] \in DOMAIN log /\ log[hash[i]].id = i
    /\ DOMAIN hash \subseteq 1 .. nextId - 1 /\ nextId <= MaxId + 1
    /\ \A n \in Namespaces : tenants[n] \in [records : Nat, bytes : Nat]
    /\ walk.pc \in {"idle", "resolve", "read", "reverse", "done"}
    /\ Cardinality(walk.seen) <= MaxNodes

(* The postings of the edge and of the fact index, by name instead of by   *)
(* number.  "any" stands for the edge whatever its kind.                   *)
EdgesOf(e, ids, kinds) ==
    LET within == {p \in e.posts : p[1] \in ids /\ p[2] \in ids}
        name(k) == IF k = 0 THEN NoKind ELSE e.kinds[k]
    IN {<<p[2], p[1], "any">> : p \in within}
       \cup {<<p[2], p[1], name(p[3])>> :
               p \in {q \in within : q[3] # Unknown /\ name(q[3]) \in kinds}}
FactsOf(f, ids, preds) ==
    LET named(S) == {<<q[1], f.preds[q[2]], q[3]>> : q \in {r \in S : r[3] \in ids}}
        of(S) == {q \in S : q[2] \in preds}
    IN [subj |-> of(named(f.subj)), obj |-> of(named(f.obj)),
        pred |-> of({<<"any", f.preds[q[1]], q[2]>> : q \in {r \in f.byPred : r[2] \in ids}})]

(* What x holds about the records in `ids', to be compared with y: by      *)
(* kind and by predicate as far as both tables have room for it.           *)
About(x, y, ids) ==
    [time |-> SelectSeq(x.time, LAMBDA e : e[2] \in ids),
     tags |-> {t \in x.tags : t[2] \in ids},
     docs |-> [i \in DOMAIN x.lex.docs \cap ids |-> x.lex.docs[i]],
     posts |-> [t \in {u \in DOMAIN x.lex.posts : u[2] \in ids} |-> x.lex.posts[t]],
     sem |-> [i \in DOMAIN x.sem \cap ids |-> x.sem[i]],
     facts |-> FactsOf(x.facts, ids, ToSet(x.facts.preds) \cap ToSet(y.facts.preds)),
     edges |-> EdgesOf(x.edges, ids,
                  {NoKind} \cup (ToSet(x.edges.kinds) \cap ToSet(y.edges.kinds)))]

(* Only a full table leaves out the predicate of a live record's fact or   *)
(* the kind of an edge (intern tables never shrink).                       *)
LeftOutByCap(x, ids) ==
    /\ (\E p \in x.edges.posts : p[3] = Unknown) => Len(x.edges.kinds) = MaxKinds
    /\ (\E i \in ids : Current(i).fact # NoFact /\ PredLookup(x.facts, Current(i).fact[2]) = 0)
         => Len(x.facts.preds) = MaxPreds

Onto(edges, targets) == {e \in edges : e[2] \in targets}

(* After any sequence of inserts, updates, relations, deletes, restarts    *)
(* and compactions the indexes hold, of every record, what a rebuild from  *)
(* the log would give it: nothing stale after an update, no cleared vector *)
(* back after a restart from a semantic checkpoint, no document counted    *)
(* twice, every fact and edge there.  Named differences: a predicate or a  *)
(* kind for which one of the two tables had no room (the server's still    *)
(* holds the names of deleted records); an edge to an id that was given    *)
(* out twice, which the server may lack; a record whose delete failed,     *)
(* until the next restart, and its vector longer, because a semantic       *)
(* checkpoint taken in between covers the record without holding the       *)
(* vector, and recovery believes it.                                       *)
IndexesMatchLog ==
    LET ids == Ids \ hist.unindexed
        fresh == Recovered(log, NoSem)
        x == About(ix, fresh, ids)
        y == About(fresh, ix, ids)
        known(m) == [i \in DOMAIN m \ hist.novec |-> m[i]]
        part(z) == [z EXCEPT !.sem = known(@), !.edges = Onto(@, Ids \ hist.reused)]
    IN /\ part(x) = part(y) /\ x.edges \subseteq y.edges
       /\ LeftOutByCap(ix, Live \ hist.unindexed)

Carry(P(_)) == {i \in Live \ hist.unindexed : P(Current(i))}

(* A failed delete hides a record, it never leaves an index entry that the *)
(* log does not justify; and the tags, times, facts an index lookup        *)
(* answers are those of live records that carry them.                      *)
LookupsAnswerFromLog ==
    LET tags == {t[1] : t \in ix.tags}
        hide(ids) == ids \ hist.unindexed
        indexedFact(v) == v.fact # NoFact /\ PredLookup(ix.facts, v.fact[2]) # 0
    IN /\ \A t \in tags, u \in tags :
            /\ hide(TagQuery(ix.tags, {t, u}, TRUE)) =
                  Carry(LAMBDA v : {t, u} \subseteq v.tags)
            /\ hide(TagQuery(ix.tags, {t, u}, FALSE)) =
                  Carry(LAMBDA v : {t, u} \cap v.tags # {})
       /\ \A from \in 1 .. 2, max \in 0 .. 2 :
            LET recent == TimeRangeRecent(ix.time, from, 2, max)
                oldest == TimeRange(ix.time, from, 2, max)
                within == {i \in Live \ hist.unindexed : from <= Current(i).created
                                                    /\ Current(i).created <= 2}
            IN hist.unindexed = {} =>
                 /\ {e[2] : e \in ToSet(recent.ids)} \subseteq within
                 /\ recent.truncated = (max > 0 /\ Cardinality(within) > max)
                 /\ ~recent.truncated => Len(recent.ids) = Cardinality(within)
                 /\ \A e \in ToSet(recent.ids), i \in within :
                      TimeBefore(e, <<Current(i).created, i>>) =>
                         \E f \in ToSet(recent.ids) : f[2] = i
                 /\ \A e \in ToSet(oldest), i \in within :
                      TimeBefore(<<Current(i).created, i>>, e) =>
                         \E f \in ToSet(oldest) : f[2] = i
       /\ \A i \in Carry(indexedFact) :
            /\ i \in FactBySubject(ix.facts, Current(i).fact[1], Current(i).fact[2])
            /\ i \in FactByObject(ix.facts, Current(i).fact[3], "any")
            /\ i \in FactByPredicate(ix.facts, Current(i).fact[2])
       /\ FactAllRecords(ix.facts).ok
       /\ hide(FactAllRecords(ix.facts).ids) = Carry(indexedFact)

(* The edge index never names an endpoint that is not live, and for every  *)
(* live target a lookup by kind returns each live source that holds such a *)
(* relation, with no false match except among postings flagged as of       *)
(* unknown kind: even when there are more kinds than the table interns.    *)
SourcesComplete ==
    LET holds(s, t, k) == <<t, k>> \in ToSet(Current(s).rels)
    IN /\ \A p \in ix.edges.posts : p[1] \in Live /\ p[2] \in Live
       /\ \A t \in Live \ (hist.unindexed \cup hist.reused), s \in Live \ hist.unindexed, k \in Kinds :
            LET found == {p \in EdgeSources(ix.edges, t, {k}) : p[2] = s}
            IN /\ holds(s, t, k) => found # {}
               /\ (\E p \in found : p[3] # Unknown) => holds(s, t, k)

(* The counters `stats' reports are those of the postings: edges, kinds    *)
(* and predicates in use, facts, text length.                              *)
CountersExact ==
    /\ ix.edges.edges = Cardinality(ix.edges.posts)
    /\ ix.edges.live = Cardinality({p[3] : p \in ix.edges.posts} \ {0, Unknown})
    /\ ix.facts.facts = Cardinality(ix.facts.subj)
    /\ ix.facts.live = Cardinality({p[1] : p \in ix.facts.byPred})
    /\ ix.lex.total = FoldSet(LAMBDA i, acc : acc + ix.lex.docs[i], 0, DOMAIN ix.lex.docs)

(* Tenant usage is what the tenant's live records add up to, through       *)
(* updates that grow or shrink them, deletes, restarts and compaction.     *)
TenantUsageExact == \A n \in Namespaces : tenants[n] = UsageOfTenant(log, n)

(* No tenant is above a quota it was within at the start.                  *)
QuotaHolds ==
    \A n \in Namespaces : /\ MaxRecords > 0 => UsageOfTenant(log, n).records <= MaxRecords
                          /\ MaxBytes > 0 => UsageOfTenant(log, n).bytes <= MaxBytes

(* A recall counter belongs to a live record: a count checkpointed before  *)
(* a delete does not come back with a restart.                             *)
UsageOfLiveRecords == DOMAIN usage = Live \ hist.unindexed

(* The target was live at every moment since the source's latest frame.    *)
LiveSince(l, source, target) ==
    \A m \in HashOf(l)[source] .. Len(l) :
        LET before == SubSeq(l, 1, m) IN target \in LiveIn(HashOf(before), before)

(* A replica that has applied the whole log holds what recovery of that    *)
(* log would build: times, tags, texts, vectors, facts and edges.  Named   *)
(* differences: kinds and predicates for which one of the two tables had   *)
(* no room, and the edges db_replica_apply skips or drops, which are       *)
(* exactly those whose target was not live when the source's latest frame  *)
(* was applied, or was deleted since.                                      *)
ReplicaMatchesLog ==
    replica.gen = gen /\ replica.log = log =>
        LET fresh == Recovered(log, NoSem)
            r == About(replica.ix, fresh, Ids)
            p == About(fresh, replica.ix, Ids)
        IN /\ r = [p EXCEPT !.edges = {e \in @ : LiveSince(log, e[1], e[2])}]
           /\ LeftOutByCap(replica.ix, Live)

(* db.c:297 to 304: the edges too are those recovery would build.          *)
ReplicaEdgesMatchRecovery ==
    replica.gen = gen /\ replica.log = log =>
        LET fresh == Recovered(log, NoSem)
        IN About(replica.ix, fresh, Ids).edges = About(fresh, replica.ix, Ids).edges

(* What a traversal returns was the current version of a visible record at *)
(* some moment of the walk, whatever was written or compacted meanwhile,   *)
(* and no record comes twice.                                              *)
WalkSound ==
    /\ \A k \in DOMAIN walk.found :
         LET v == walk.found[k].v
         IN v \in walk.current /\ ~v.del /\ ~Denies(walk.ns, v)
    /\ \A k, m \in DOMAIN walk.found : walk.found[k].v.id = walk.found[m].v.id => k = m

(* The ids a walk should reach, by definition: neighbours of visible       *)
(* records, level by level.                                                *)
Neighbours(ids) ==
    UNION {{r[1] : r \in {q \in ToSet(Current(i).rels) :
                 walk.dir # "in" /\ KindWanted(walk.kinds, q[2])}} : i \in ids}
    \cup {s \in Live : walk.dir # "out" /\ \E t \in ids : \E q \in ToSet(Current(s).rels) :
                 q[1] = t /\ KindWanted(walk.kinds, q[2])}
Visible(ids) == {i \in ids \cap Live : ~Denies(walk.ns, Current(i))}
Within == LET reach[d \in 0 .. WalkDepth] ==
                 IF d = 0 THEN Visible({walk.start})
                 ELSE LET r == reach[d - 1] IN r \cup Visible(Neighbours(r))
          IN reach[WalkDepth]

(* A traversal that nothing was written beside returns every visible       *)
(* record within its depth, unless it says it was capped; what it returns  *)
(* beyond that it reached over an edge whose kind it calls uncertain.      *)
WalkComplete ==
    LET ids == {walk.found[k].v.id : k \in DOMAIN walk.found}
        quiet == Len(log) = walk.base /\ walk.current = {Current(i) : i \in DOMAIN hash}
                 /\ hist.unindexed = {} /\ hist.reused = {}
    IN walk.pc = "done" /\ quiet =>
         /\ ~walk.capped => Within \subseteq ids
         /\ (\A k \in DOMAIN walk.found : walk.found[k].sure) => ids \subseteq Within
=============================================================================
