--------------------------- MODULE SemanticBuild ---------------------------
(***************************************************************************)
(* The semantic index (src/src/storage/semantic_index.c) and the build of  *)
(* its HNSW graph off the lock (db_semantic_build_step, storage/db.c).     *)
(*                                                                         *)
(* Vectors live in a dense array until AnnThreshold of them are there; the *)
(* maintenance thread then snapshots the array, builds one graph per shard *)
(* with no lock held, replays the changes journalled meanwhile and swaps   *)
(* the graph in.  Every action below is one critical section of index_lock *)
(* or one stretch of the maintenance thread outside it.                    *)
(*                                                                         *)
(* What a graph finds is the subject of Hnsw; here a graph is the set of   *)
(* vectors it holds.                                                       *)
(***************************************************************************)
EXTENDS Integers, Sequences, SequencesExt, FiniteSets, FiniteSetsExt, TLC

CONSTANTS
    Recs,           \* record ids
    Inputs,         \* sequences of vectors a record may be given
    AnnThreshold,   \* ann_threshold
    ShardTarget,    \* shard_target: vectors per shard
    ShardMax,       \* SHARD_MAX, or the CPUs online
    Mix,            \* mix64 of a synthetic id
    CommitMax,      \* SEM_BUILD_COMMIT_MAX
    MaxRounds,      \* SEM_BUILD_MAX_ROUNDS
    Limits          \* bounds: writes, faults, saves, restarts, resets, total

ASSUME SemanticAssumption ==
    /\ AnnThreshold \in Nat \ {0} /\ ShardTarget \in Nat \ {0} /\ ShardMax \in Nat \ {0}
    /\ CommitMax \in Nat /\ MaxRounds \in Nat \ {0}

VARIABLES
    s,          \* the SemanticIndex
    job,        \* the SemBuildJob and where its thread is
    want,       \* the vectors the log gives each record
    saved,      \* the checkpoint file
    hist,       \* history: torn (an add failed), dirty (changed since the save),
                \* lapsed (a graph of discarded data may serve, see Clear)
    did         \* history: how often each bounded thing happened

vars == <<s, job, want, saved, hist, did>>

Without(f, x) == [y \in DOMAIN f \ {x} |-> f[y]]
With(f, x, v) == (x :> v) @@ f

-----------------------------------------------------------------------------
(* The index as data.  A synthetic id is <<record, slot>>; `dense' is the  *)
(* array e[0..n), `map' its id -> position map, `rc' the vectors of each   *)
(* record, `shards' the graphs (none until a build commits).               *)

Empty == [dense |-> <<>>, map |-> <<>>, rc |-> <<>>, shards |-> <<>>,
          building |-> FALSE, failed |-> FALSE, deltas |-> <<>>]

GraphPresent(x) == DOMAIN x.shards # {}
NShards(g) == Cardinality(DOMAIN g)
ShardIndex(id, n) == IF n > 1 THEN Mix[id] % n ELSE 0
PickNShards(n) ==
    IF n \div ShardTarget < 2 THEN 1 ELSE Min({n \div ShardTarget, ShardMax})

GraphPut(g, id, v) == [g EXCEPT ![ShardIndex(id, NShards(g))] = With(@, id, v)]
GraphRemove(g, id) == [g EXCEPT ![ShardIndex(id, NShards(g))] = Without(@, id)]

RcGet(x, r) == IF r \in DOMAIN x.rc THEN x.rc[r] ELSE 0

DensePut(x, id, v) ==
    IF id \in DOMAIN x.map THEN [x EXCEPT !.dense[x.map[id]] = <<id, v>>]
    ELSE [x EXCEPT !.dense = Append(@, <<id, v>>), !.map = With(@, id, Len(x.dense) + 1)]

(* Mutant: the entry moved into the hole keeps its old position.           *)
DenseRemoveUnrepointed(x, id) ==
    IF id \notin DOMAIN x.map THEN x
    ELSE [x EXCEPT !.dense = Front([@ EXCEPT ![x.map[id]] = Last(x.dense)]),
                   !.map = Without(@, id)]

(* dense_remove: the last entry moves into the hole.                       *)
DenseRemove(x, id) ==
    IF id \notin DOMAIN x.map THEN x
    ELSE LET idx == x.map[id]
             moved == Last(x.dense)[1]
         IN [x EXCEPT !.dense = Front([@ EXCEPT ![idx] = Last(x.dense)]),
                      !.map = Without([@ EXCEPT ![moved] = idx], id)]

(* delta_push; `oom' when the journal cannot grow.                         *)
NoVec == "none"
DeltaPush(x, id, v, oom) ==
    IF oom THEN [x EXCEPT !.failed = TRUE] ELSE [x EXCEPT !.deltas = Append(@, <<id, v>>)]

VecAdd(x, id, v, oom) ==
    IF GraphPresent(x) THEN [x EXCEPT !.shards = GraphPut(@, id, v)]
    ELSE IF x.building THEN DeltaPush(DensePut(x, id, v), id, v, oom)
    ELSE DensePut(x, id, v)

(* Mutant: a removal beside a build is not journalled.                     *)
VecRemoveUnjournalled(x, id, oom) ==
    IF GraphPresent(x) THEN [x EXCEPT !.shards = GraphRemove(@, id)] ELSE DenseRemove(x, id)

VecRemove(x, id, oom) ==
    IF GraphPresent(x) THEN [x EXCEPT !.shards = GraphRemove(@, id)]
    ELSE IF x.building THEN DeltaPush(DenseRemove(x, id), id, NoVec, oom)
    ELSE DenseRemove(x, id)

Slots(r, n) == [k \in 1 .. n |-> <<r, k - 1>>]
RemoveSlots(x, r, oom) ==
    FoldLeft(LAMBDA acc, id : VecRemove(acc, id, oom), x, Slots(r, RcGet(x, r)))
AddSlots(x, r, vs, n, oom) ==
    FoldLeft(LAMBDA acc, id : VecAdd(acc, id, vs[id[2] + 1], oom), x, Slots(r, n))

(* semantic_index_add: the old slots go, the new ones come, then the count.*)
SemAdd(x, r, vs, oom) ==
    LET y == AddSlots(RemoveSlots(x, r, oom), r, vs, Len(vs), oom)
    IN [y EXCEPT !.rc = With(@, r, Len(vs))]

(* The same when the n+1st vector finds no memory.                         *)
SemAddFails(x, r, vs, n, oom) == AddSlots(RemoveSlots(x, r, oom), r, vs, n, oom)

SemRemove(x, r, oom) ==
    LET y == RemoveSlots(x, r, oom) IN [y EXCEPT !.rc = Without(@, r)]

-----------------------------------------------------------------------------
(* Writes, under the write lock of index_lock.                             *)

Spends(what, oom) ==
    /\ did[what] < Limits[what] /\ did.total < Limits.total
    /\ oom => did.faults < Limits.faults
    /\ did' = [did EXCEPT ![what] = @ + 1, !.total = @ + 1,
                          !.faults = IF oom \/ what = "faults" THEN did.faults + 1 ELSE @]
Spend(what) == Spends(what, FALSE)

(* Only a journal that is in use can fail to grow.                         *)
MayOom == IF s.building THEN BOOLEAN ELSE {FALSE}

Add(r, vs) ==
    \E oom \in MayOom :
        /\ Spends("writes", oom)
        /\ s' = SemAdd(s, r, vs, oom)
        /\ want' = With(want, r, vs)
        /\ hist' = [hist EXCEPT !.dirty = @ \cup {r}]
        /\ UNCHANGED <<job, saved>>

AddFails(r, vs) ==
    \E n \in 0 .. Len(vs) - 1 :
        /\ Spends("writes", TRUE)
        /\ s' = SemAddFails(s, r, vs, n, FALSE)
        /\ want' = With(want, r, vs)
        /\ hist' = [hist EXCEPT !.dirty = @ \cup {r}, !.torn = @ \cup {r}]
        /\ UNCHANGED <<job, saved>>

Drop(r) ==
    \E oom \in MayOom :
        /\ Spends("writes", oom)
        /\ r \in DOMAIN want
        /\ s' = SemRemove(s, r, oom)
        /\ want' = Without(want, r)
        /\ hist' = [hist EXCEPT !.dirty = @ \cup {r}]
        /\ UNCHANGED <<job, saved>>

(* semantic_index_clear, when a replica starts over (db_reset_replica).    *)
(* The job of a build that is out lives on, and so does the checkpoint     *)
(* file, which covers offsets of the log that was truncated.               *)
Clear ==
    /\ Spend("resets")
    /\ s' = Empty
    /\ want' = <<>>
    /\ hist' = [dirty |-> Recs, torn |-> {},
                lapsed |-> hist.lapsed \/ job.pc \in {"run", "take", "apply", "commit"}]
    /\ saved' = [saved EXCEPT !.stale = saved.ok]
    /\ UNCHANGED job

-----------------------------------------------------------------------------
(* The maintenance thread.                                                 *)

NoJob == [pc |-> "idle", snap |-> <<>>, shards |-> <<>>, todo |-> {}, pending |-> <<>>,
          took |-> 0, round |-> 0]

(* Mutant: needs one vector more than the threshold.                       *)
NeedsBuildAbove(x) == ~GraphPresent(x) /\ ~x.building /\ Len(x.dense) > AnnThreshold
NeedsBuild(x) == ~GraphPresent(x) /\ ~x.building /\ Len(x.dense) >= AnnThreshold

Poll ==
    /\ job.pc = "idle"
    /\ NeedsBuild(s)
    /\ job' = [job EXCEPT !.pc = "begin"]
    /\ UNCHANGED <<s, want, saved, hist, did>>

(* The need is asked again: it may have raced away since the poll.         *)
Begin ==
    /\ job.pc = "begin"
    /\ IF NeedsBuild(s)
       THEN LET n == PickNShards(Len(s.dense))
            IN /\ job' = [NoJob EXCEPT !.pc = "run", !.snap = s.dense, !.todo = 0 .. n - 1,
                                       !.shards = [k \in 0 .. n - 1 |-> <<>>]]
               /\ s' = [s EXCEPT !.building = TRUE, !.failed = FALSE]
       ELSE job' = NoJob /\ s' = s
    /\ UNCHANGED <<want, saved, hist, did>>

(* Mutant: a worker takes the whole snapshot.                              *)
BuildShardOfAll(k) ==
    LET put(g, e) == With(g, e[1], e[2])
    IN /\ job.pc = "run" /\ k \in job.todo
       /\ job' = [job EXCEPT !.shards[k] = FoldLeft(put, <<>>, job.snap), !.todo = @ \ {k},
                             !.pc = IF job.todo = {k} THEN "take" ELSE "run"]
       /\ UNCHANGED <<s, want, saved, hist, did>>

(* One worker thread per shard; the last one to end lets the builder go on.*)
BuildShard(k) ==
    LET own == SelectSeq(job.snap, LAMBDA e : ShardIndex(e[1], NShards(job.shards)) = k)
        put(g, e) == With(g, e[1], e[2])
    IN /\ job.pc = "run" /\ k \in job.todo
       /\ job' = [job EXCEPT !.shards[k] = FoldLeft(put, <<>>, own), !.todo = @ \ {k},
                             !.pc = IF job.todo = {k} THEN "take" ELSE "run"]
       /\ UNCHANGED <<s, want, saved, hist, did>>

(* A worker finds no memory: the build is given up once all have ended.    *)
BuildFails ==
    /\ job.pc = "run"
    /\ Spend("faults")
    /\ job' = [job EXCEPT !.pc = "abort"]
    /\ UNCHANGED <<s, want, saved, hist>>

TakeDeltas ==
    /\ job.pc = "take"
    /\ IF s.failed
       THEN job' = [job EXCEPT !.pc = "abort"] /\ s' = s
       ELSE /\ job' = [job EXCEPT !.pc = "apply", !.pending = s.deltas, !.took = Len(s.deltas)]
            /\ s' = [s EXCEPT !.deltas = <<>>]
    /\ UNCHANGED <<want, saved, hist, did>>

(* semantic_index_build_apply.                                             *)
Replay(g, deltas) ==
    LET one(acc, d) == IF d[2] = NoVec THEN GraphRemove(acc, d[1])
                       ELSE GraphPut(acc, d[1], d[2])
    IN FoldLeft(one, g, deltas)

(* Mutant: the rounds are not counted out.                                 *)
ApplyDeltasForever ==
    /\ job.pc = "apply"
    /\ job' = [job EXCEPT
         !.shards = Replay(@, job.pending), !.pending = <<>>, !.round = @ + 1,
         !.pc = IF job.took <= CommitMax THEN "commit" ELSE "take"]
    /\ UNCHANGED <<s, want, saved, hist, did>>

ApplyDeltas ==
    /\ job.pc = "apply"
    /\ job' = [job EXCEPT
         !.shards = Replay(@, job.pending), !.pending = <<>>, !.round = @ + 1,
         !.pc = IF job.took <= CommitMax THEN "commit"
                ELSE IF job.round + 1 >= MaxRounds THEN "abort" ELSE "take"]
    /\ UNCHANGED <<s, want, saved, hist, did>>

ApplyFails ==
    /\ job.pc = "apply"
    /\ Spend("faults")
    /\ job' = [job EXCEPT !.pc = "abort"]
    /\ UNCHANGED <<s, want, saved, hist>>

Aborted(x) == [x EXCEPT !.building = FALSE, !.failed = FALSE, !.deltas = <<>>]

Abort ==
    /\ job.pc = "abort"
    /\ s' = Aborted(s) /\ job' = NoJob
    /\ UNCHANGED <<want, saved, hist, did>>

(* Mutant: the graph is installed as the last round left it.               *)
InstalledWithoutResidual(x, g) ==
    [x EXCEPT !.shards = g, !.building = FALSE, !.deltas = <<>>, !.dense = <<>>, !.map = <<>>]

(* The residual deltas are replayed under the lock and the graph swapped in.*)
Installed(x, g) ==
    [x EXCEPT !.shards = Replay(g, x.deltas), !.building = FALSE, !.deltas = <<>>,
              !.dense = <<>>, !.map = <<>>]

Commit ==
    /\ job.pc = "commit"
    /\ s' = IF s.failed THEN Aborted(s) ELSE Installed(s, job.shards)
    /\ job' = NoJob
    /\ UNCHANGED <<want, saved, hist, did>>

CommitFails ==
    /\ job.pc = "commit" /\ s.deltas # <<>>
    /\ Spend("faults")
    /\ s' = Aborted(s) /\ job' = NoJob
    /\ UNCHANGED <<want, saved, hist>>

-----------------------------------------------------------------------------
(* The checkpoint and a restart.                                           *)

NoFile == [ok |-> FALSE, graph |-> <<>>, torn |-> {}, stale |-> FALSE]

(* semantic_index_save: the file holds one graph, so a sharded index, like *)
(* a dense one, only removes it.                                           *)
Save ==
    /\ Spend("saves")
    /\ saved' = IF NShards(s.shards) = 1
                THEN [NoFile EXCEPT !.ok = TRUE, !.graph = s.shards[0], !.torn = hist.torn]
                ELSE NoFile
    /\ hist' = [hist EXCEPT !.dirty = {}]
    /\ UNCHANGED <<s, job, want>>

(* Mutant: the count is the last slot.                                     *)
RcRebuiltToLastSlot(g) ==
    [r \in {id[1] : id \in DOMAIN g} |-> Max({id[2] : id \in {i \in DOMAIN g : i[1] = r}})]

(* rc_rebuild_cb: one more than the last slot.                             *)
RcRebuilt(g) ==
    [r \in {id[1] : id \in DOMAIN g} |->
        Max({id[2] : id \in {i \in DOMAIN g : i[1] = r}}) + 1]

(* semantic_index_load (loads: whether the file is trusted), the tail of   *)
(* the log, semantic_index_reconcile.                                      *)
Recovered(loads, tail) ==
    LET start == IF loads THEN [Empty EXCEPT !.shards = 0 :> saved.graph,
                                                !.rc = RcRebuilt(saved.graph)] ELSE Empty
        one(x, r) == IF r \in DOMAIN want THEN SemAdd(x, r, want[r], FALSE)
                     ELSE SemRemove(x, r, FALSE)
        all == FoldSet(LAMBDA r, x : one(x, r), start, tail)
        drop(x, r) == IF r \in DOMAIN want THEN x ELSE SemRemove(x, r, FALSE)
    IN FoldSet(LAMBDA r, x : drop(x, r), all, DOMAIN all.rc)

(* A file is trusted when the log is at least as long as it covers.  One   *)
(* left from before a reset is, once the new log has grown that far, and   *)
(* then only the records past that offset are replayed.                    *)
Restart ==
    \E loads \in IF saved.stale THEN BOOLEAN ELSE {saved.ok} :
    \E tail \in IF ~loads THEN {Recs} ELSE IF saved.stale THEN SUBSET Recs ELSE {hist.dirty} :
        /\ Spend("restarts")
        /\ s' = Recovered(loads, tail)
        /\ job' = NoJob
        /\ hist' = [hist EXCEPT !.torn = IF loads THEN saved.torn \ tail ELSE {},
                                !.lapsed = loads /\ (@ \/ saved.stale)]
        /\ UNCHANGED <<want, saved>>

-----------------------------------------------------------------------------
Init ==
    /\ s = Empty /\ job = NoJob /\ want = <<>> /\ saved = NoFile
    /\ hist = [torn |-> {}, dirty |-> {}, lapsed |-> FALSE]
    /\ did = [w \in DOMAIN Limits |-> 0]

Write == \E r \in Recs : Drop(r) \/ \E vs \in Inputs : Add(r, vs) \/ AddFails(r, vs)

(* What the maintenance thread does next when nothing fails.               *)
Maintain ==
    \/ Poll \/ Begin \/ TakeDeltas \/ ApplyDeltas \/ Abort \/ Commit
    \/ \E k \in 0 .. ShardMax - 1 : BuildShard(k)

Next ==
    \/ Write \/ Clear \/ Save \/ Restart
    \/ Maintain \/ BuildFails \/ ApplyFails \/ CommitFails

(* The maintenance loop calls the build step on every tick, so its next    *)
(* step is always taken; nothing makes a client write.                     *)
Spec == Init /\ [][Next]_vars /\ WF_vars(Maintain)

-----------------------------------------------------------------------------
(* Properties.                                                             *)

(* The index and the job are well formed: counts, flags, at most           *)
(* SEM_BUILD_MAX_ROUNDS rounds and ShardMax shards.                        *)
TypeOK ==
    /\ s.rc \in [DOMAIN s.rc -> Nat] /\ DOMAIN s.rc \subseteq Recs
    /\ s.building \in BOOLEAN /\ s.failed \in BOOLEAN
    /\ job.pc \in {"idle", "begin", "run", "take", "apply", "abort", "commit"}
    /\ job.round \in 0 .. MaxRounds
    /\ NShards(s.shards) <= ShardMax

Merged(g) == FoldSet(LAMBDA k, m : g[k] @@ m, <<>>, DOMAIN g)
ToMap(seq) == FoldLeft(LAMBDA m, e : With(m, e[1], e[2]), <<>>, seq)
Held == IF GraphPresent(s) THEN Merged(s.shards) ELSE ToMap(s.dense)

(* A search sees, of every record whose last reindex did not run out of    *)
(* memory, exactly the vectors its latest version has: through the dense   *)
(* array before, during and after a build, through the graph that replaced *)
(* it whatever was written while it was built, and after a restart.        *)
HeldIsWantedAlways ==
    /\ \A id \in DOMAIN Held : id[1] \notin hist.torn =>
          /\ id[1] \in DOMAIN want /\ id[2] < Len(want[id[1]])
          /\ Held[id] = want[id[1]][id[2] + 1]
    /\ \A r \in DOMAIN want \ hist.torn : \A k \in DOMAIN want[r] : <<r, k - 1>> \in DOMAIN Held

(* The same, unless a replica was reset while a build was out, or was      *)
(* restarted on a semantic checkpoint from before its reset.               *)
HeldIsWanted == ~hist.lapsed => HeldIsWantedAlways

(* The id map points at the entry of its id, through every swap-remove.    *)
MapPointsAtEntries ==
    /\ DOMAIN s.map = {s.dense[k][1] : k \in DOMAIN s.dense}
    /\ \A id \in DOMAIN s.map : s.map[id] \in DOMAIN s.dense /\ s.dense[s.map[id]][1] = id
    /\ Cardinality(DOMAIN s.map) = Len(s.dense)

(* The count of a record's vectors is what it holds, so that a replace or  *)
(* a removal takes all of them; also after a load rebuilt the counts.      *)
CountsCoverSlots ==
    ~hist.lapsed =>
    \A r \in Recs \ hist.torn : RcGet(s, r) = Cardinality({id \in DOMAIN Held : id[1] = r})

(* Every vector is in the shard its id hashes to, where a removal looks    *)
(* for it; in the graph that serves and in the one being built.            *)
ShardsPartition ==
    LET right(g) == \A k \in DOMAIN g : \A id \in DOMAIN g[k] : ShardIndex(id, NShards(g)) = k
    IN right(s.shards) /\ right(job.shards)

(* While a build is out and its journal is whole, the snapshot (or what    *)
(* was built from it), the deltas taken and the deltas journalled since    *)
(* give the dense array: what a commit would install is what is served.    *)
JournalCatchesUp ==
    LET flat(m, d) == IF d[2] = NoVec THEN Without(m, d[1]) ELSE With(m, d[1], d[2])
        base == IF job.pc = "run" THEN ToMap(job.snap) ELSE Merged(job.shards)
    IN job.pc \in {"run", "take", "apply", "commit"} /\ ~s.failed /\ ~hist.lapsed =>
         FoldLeft(flat, FoldLeft(flat, base, job.pending), s.deltas) = Held

(* Once enough vectors are there a graph comes to serve them, unless so    *)
(* many are removed that none is needed: a failed or outrun attempt is     *)
(* tried again.                                                            *)
GraphComes ==
    (Len(s.dense) >= AnnThreshold) ~> (GraphPresent(s) \/ Len(s.dense) < AnnThreshold)
=============================================================================
