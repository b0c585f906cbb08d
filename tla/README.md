# AegisDB in TLA+

AegisDB is a memory store for agents: a single C server that appends encoded
records to `memory.log`, keeps all its indexes in memory, derives facts from
facts, and answers JSON requests. This directory holds TLA+ modules of its state
machines, the TLC configurations that check them, and TLAPS proofs.
`PROJECT.json` lists components, runs, mutants, the map from definitions to
source lines, findings, hazards and theorems. Paths without a prefix are under
`src/src/`, `docs/` and `tests/` under `src/`.

## 1. The system

| Part | State | Hard behaviour | Module |
|---|---|---|---|
| Log (`storage/log.c`) | file, size, `since_fsync` | one fsync shared by many writers; failing fsync; what a crash leaves | GroupCommit |
| Engine (`storage/db.c`, `hash_index.c`, `recovery.c`, `compaction.c`) | hash index, `next_id`, `memory.index`, `metadata.db` | writers racing a three-phase compaction; crash between rename and unlink | Storage |
| Record operations and secondary indexes (`query/query_engine.c`, `storage/*_index.c`) | time, tag, lexical, edge, fact and usage indexes, tenant usage | agreement with the log on every path: client, recovery, compaction, replica | Indexes, Records |
| Hash tables (in `storage/*_index.c`) | slots, tombstones | probe chains through deletion and growth | ProbeTable, KeyMap |
| Semantic index (`storage/semantic_index.c`) | dense array, shards, delta journal | changes during an off-lock build; reset during it | SemanticBuild |
| Vector graph (`storage/hnsw.c`) | nodes, links, tombstones | links lost by pruning; rebuild | Hnsw |
| Search (`query/qe_search.c`) | a query in progress | filters over capped lists; writes between the index and the load | Search |
| Inference and truth maintenance (`query/inference.c`, `qe_infer.c`, `qe_maint.c`, `conflict_set.c`) | cursors, retraction queue, supersessions | conclusions whose premises are deleted, merged or expire, kills in between | Inference, TruthMaintenance |
| Working memory (`memory/working_buffer.c`) | a ring per session | take racing add and sweep; stale clock | WorkingBuffer |
| Replication (`server/replication.c`) | cursor, generation, connection | reconnects, compactions and crashes on both sides | Replication |
| Replication source (`server/replication.c`, `main.c`) | acceptor, streamer threads, two counters | shutdown against a thread between its counters | ReplicaSource |
| Client port (`server/tcp_server.c`) | event loops, connections | pipelined requests and responses that do not fit; a cap shared by loops | Connections |
| Admission (`query/qe_dispatch.c`, `util/tenant.c`, `util/config.c`) | token list and file, token buckets | time read before the lock; a file written by one parser and read by another | Admission |

How they interact: an event loop reads a request line, admission finds the
caller and charges its rate, and the handler runs on the loop's thread. A write
takes `index_lock`, appends to the log, updates the hash and secondary indexes,
releases the lock, and only then flushes and answers. Readers take `index_lock`
for reading and hand over to `log_lock`. The maintenance thread flushes, sweeps,
derives and retracts, builds the vector graph, checkpoints and compacts;
compaction copies without a lock and swaps under `index_lock` and `log_lock`. A
streamer thread per replica reads the log under `log_lock`; on the replica the
follower thread is the only writer.

Each module takes from its neighbours what they promise: Records assumes of the
log what Storage shows, TruthMaintenance assumes of a delete what Records shows,
Search reads a store whose indexes agree with it (Records) and takes a graph as
a ranking of what is in it (SemanticBuild, Hnsw).

## 2. Modules and runs

Time, offsets and payloads are abstracted: an offset counts frames, a record
version or a vector is an opaque value, a clock has a few ticks. An action is
what one thread does between two releases of a lock, every call in it included.
History variables record what a property does not survive, so that one run can
include every fault; each is named in its module. Bounds on how often things
happen are constants of the modules (`Limits`, `Plans`, `HPlans`, `Max...`).
Deadlock is not checked where the bounds end every behaviour.

A run checks the properties that carry most. The modules state more, and
`TruthAll.cfg`, `RecordsAll.cfg`, `SemanticAll.cfg`, `RetrievalAll.cfg` and
`ServerAll.cfg` check all of them; TLC passes each. Four use the instance of
the run, `TruthAll.cfg` one namespace and two merges instead (9.9 million
states, over an hour with one worker).

### GroupCommit

Append and flush of any number of writers. `size`, `since` and `synced` are the
log's size, `since_fsync` and what an fsync has covered; `frame[w]` is the frame
a writer has appended and not answered. A writer appends under `index_lock`
(`Append`) and flushes after releasing it (`FlushNotDue`, `FlushDue`,
`FlushFails`), so all other actions fall in between: the timed flush, the log
swap of compaction, clean restarts, kills, power failures. A failed fsync marks
the dirty frames `dropped`: the kernel reports the error once and later fsyncs
succeed.

*GroupCommitBatch*: all modes, failing fsyncs and renames, kills and power
failures. Until an fsync fails, at most `BatchSize - 1` acknowledged writes of
the process are at risk and none in sync mode; `log_flush_pending` is never true
for a clean log; in interval mode what a living process acknowledged is flushed.
Two writers, batch size 2, five frames and two crashes let two batches fill,
both writers be between append and flush when either fires, and a crash follow a
crash; the proofs remove these bounds. Fairness: the maintenance thread ticks
every second and a request that has appended runs to its answer.

### Storage

The log as a sequence of frames, the hash index, checkpoint, metadata and the
phases of compaction: snapshot under the lock, copy without it, drain of the
tail, rename, installation of the new index, unlink of the checkpoint. Inserts
allocate their id in one step and append in another. A kill keeps the page
cache; a power failure keeps the fsynced frames, any of the later ones, possibly
with damaged ones among them (`Holes`), and may undo directory changes that were
not fsynced. The fsync of the directory after the swap, and the one that ends a
checkpoint, may fail, which the code logs and ignores: `oldLogs` and `oldCkpts`
are the files a power failure may then bring back, however much was written and
fsynced to the new log meanwhile. `undone` names the records whose fsynced write
was lost that way. Recovery trusts a checkpoint that does not cover more than the log,
as the code does. `stale` records that a checkpoint of another log was trusted,
or that the new index could not be allocated after the log was swapped.

*StorageMain*: two ids, three writes, two crashes of both kinds with holes, at
most one file to come back (`MaxOld`): the index is what a full scan gives, reads
return the last write except of the records in `undone`, fresh ids are fresh,
unless a foreign index was put in use. The run does not continue
behaviours beyond a state with `stale` (its `CONSTRAINT`); what happens there is
the subject of *StorageStaleAfterSwap*, which is *violated*: a kill between
rename and unlink pairs the old checkpoint with the new log. Two ids suffice for
one record's frames to be taken for another's; three writes allow an insert, a
delete or update racing a compaction, and one fsynced to the new log before it
is taken back. The proofs remove these bounds.

### WorkingBuffer

The ring per session with `Capacity` slots, expiry by a time the worker read
before it took the mutex, eviction, take, sweep, and promote as a take followed
by an insert that may fail.

*WorkingBufferRing*: two workers, capacity 2, four adds: eviction order,
retention, at most one promotion, and expired records are eventually freed. Four
adds overwrite a ring of two twice; the two TTLs are the default and one beyond
the largest time, where `expires_at` saturates. Fairness: the maintenance thread
sweeps.

### Replication

One subscription. `plog`, `psynced` and `pgen` are the primary's log, what is
fsynced of it and `log_generation`; `rlog`, `rindex`, `rckpt` and `rgen` are the
replica's log, the frames its indexes reflect, its checkpoint and
`ReplicationFollower.gen`. The streamer reads the generation and the log size in
two steps, then sends one frame per step with the generation checked under
`log_lock`. The connection is a FIFO that may break at any time; after a crash
of the primary what it had sent may still arrive. `Faults` names the failures
the code logs and ignores, `MaxFaults` how many happen; `mishaps` records a
restart of the primary, an ignored failure, and a trusted checkpoint that is not
of the log as it is. A restart of the replica keeps any part of its log
(`Survivors`): frames may be missing at the end, or damaged with readable ones
behind them, which recovery leaves in place (`ScanEnd`). The replica then
resumes behind the damage, and a primary that has never compacted finds its
generation 0 equal and sends no reset (`server/replication.c:268`): the damaged
frame stays for good. All frames have one
size, so a stale cursor always falls on a frame; in the real log it may also
fall inside one, where the streamer stalls as on a damaged frame. Compaction
copies the live records in the order the hash table is walked, which is any
order (`Walks`). `held` records every frame at every position a log of the
primary has had it.

*ReplicationStream*: every crash and one ignored failure of any kind: a subscribed replica holds a prefix of the log of a primary that has not
restarted, up to frames its own power failures damaged; its index reflects its
log unless a checkpoint that is not of it was trusted; every readable frame it
holds stands where a log of the primary held it (`AppliedAtOffset`); it catches
up, damaged frames aside, with a primary that keeps running. Three writes and one compaction
let a cursor be valid in one log and stale in the next; one connection loss and
two crashes let each fall between any two steps, on either node. Fairness: the
follower redials every second, and both threads and the network make progress;
none is assumed of writes, compactions, drops or crashes.

### Indexes and Records

Indexes gives each secondary index as a value with its add, remove and lookup:
the ordered time index with its capped scans, tags, terms and document lengths,
reverse edges with a capped table of interned kinds, facts by subject and by
predicate, recall counters. Records runs the operations of `query_engine.c`
against the log and all of them: insert, update, delete, relate, recall,
traverse, failing deletes, checkpoint, restart, compaction, and a replica that
applies the same log. `tenants` is the usage that quotas are checked against,
`hist` records deletes whose append failed. A traversal takes one step per lock
hold, so writes and a compaction fall between the level it resolved and the
records it reads.

*RecordsMain*: after any sequence the indexes hold of every record what a
rebuild from the log would give it (`IndexesMatchLog`); tenant usage is what the
live records add up to; a replica that has applied the log holds what recovery
would build (`ReplicaMatchesLog`); an undisturbed
traversal returns everything within its depth or says it was capped. A server
starts with two records and does at most four things out of inserts, updates,
deletes, relations, recalls, a checkpoint, a restart, a compaction, a walk or
syncs of a replica (`MainPlans`); two kinds where one can be interned and a node
cap of two make every cap bite. The two comparisons cover times, tags, texts,
vectors, facts and edges, by name. Where the code differs from a rebuild the
property says how: predicates and kinds beyond the cap of a table that never
shrinks (`storage/fact_index.c:100-111`), edges to an id given out twice, records
whose delete failed; and on the replica the edges whose target was not live when
the source's latest frame was applied, or was deleted since, which are exactly
the ones it lacks. In RecordsAll: capped and uncapped lookups,
interned kinds, the reported counters, quotas, recall counters and what a
disturbed walk may return.

### ProbeTable and KeyMap

The six open-addressing tables of the server, each with its own growth and
deletion (tombstones, backward shift, or none), shown to implement KeyMap, a map
that changes at the key of the call only (`IsKeyMap`). Four keys collide at the
last slot of the table, run into each other and wrap; tables grow from 4 to 8
slots. RetrievalAll adds that every probe ends and the counters are exact.

### Hnsw

The graph over vectors on a line: levels drawn freely, greedy descent, beam
search, neighbour selection, connection with pruning, tombstones, rebuild at
half, reload from a checkpoint and failing allocations. Distances are pairwise
different, since `qsort` leaves ties open. *Retrieval* checks that as long as
nothing was removed or replaced and no list was ever full every vector added is
found from every query; RetrievalAll that the structure is well formed, that a
wide beam is exact on what can be reached, and that tombstones stay bounded.
What the tests expect beyond that does not hold, see section 5.

### Search

A query from subsumption through gathering, loading, widening, fusion, the
selection heap and paging to recall counting; `qe_count` and
`qe_delete_by_query` share its path. Another client may write between any two
steps. Scores are inputs: a record carries how well its vectors and its text
answer the one query.

*Retrieval*: no duplicate or foreign hit (`AnswerSound`), a selective filter
never starves a ranked query below the fetch cap (`NotStarved`), and pages of an
unranked query partition its answer. A graph search may reach any part of the
vectors (`Reachable`), since what a beam reaches is the matter of Hnsw, where
`AddedIsFound` is refuted; `NotStarved` speaks of a graph whose last search
reached all of them, over records with one vector, `AnswerSound` of any. The stores of `MCSearchPlans` put the best
answers into another namespace, give equal times, members of a subject by the
caller's records and by another's, and several vectors per record. Search, graph
and tables run one at a time in one run (`part`): each is called under the locks
of the one above and changes no state of it.

### SemanticBuild

The dense array with its id map, the counts of each record's vectors, and the
build by the maintenance thread: poll, snapshot, one worker per shard, rounds of
taking and replaying the journal, commit or abort, each a step that writes fall
between. `hist.torn` names records whose reindex ran out of memory. A replica
reset (`Clear`) leaves the job of a running build and the file `memory.sem`
alone, as the code does; a file from before the reset may be refused or, once
the log is long enough, trusted with any tail. `hist.lapsed` records that one of
the two happened.

*SemanticMain*: searches see exactly the vectors the log gives, through build,
writes, faults, checkpoint and restart, unless `lapsed`; and once there are
enough vectors a graph comes. *SemanticReset* drops the exception and is
*violated*: a reset during a build lets the graph of the discarded data be
installed. Two records with one or two vectors reach a threshold of two, give
one or two shards, and a catch-up of two rounds can be outrun. Fairness: the
maintenance loop calls the build step on every tick.

### Inference and TruthMaintenance

Inference holds the pure part: the rules of the predicate registry, the routes
kept for a conclusion, the rotation and budgets of a pass, contradictions.
TruthMaintenance runs it: the maintenance thread derives from a snapshot, writes
each conclusion and links it to its premises, drains the queue of conclusions
that may have lost support, and sweeps expired records, while clients assert,
delete and consolidate, operations fail, and the server is killed and recovered.
Judging a conclusion takes `index_lock` for its record, for each premise, for
the heir of a merged one and for the delete, each a step of its own
(`ReadConclusion` to `Reap`), so merges and deletes fall in between. `missed`
names conclusions whose links were never made, or that were judged to rest on an
heir they have no edge to; `merged` and `claims` are the completed merges and
what clients have asserted, `destroyed` the claims a merge lost, `stood` the
routes that held during the whole of a judgement.

*TruthMain*: an unsupported conclusion is always known to the machinery and is
eventually deleted or supported again, those in `missed` aside; conclusions do
not hold each other up; no assertion is lost but those in `destroyed`; a
conclusion is not deleted that had a route standing throughout, its premises
visible or merged into visible records. One symmetric, single-valued predicate that excludes itself derives,
contradicts and cycles with two entities; four operations of which one may be a
kill, one a fault and one a merge; budgets of one conclusion a tick make every
pass and batch stop early. Fairness: `maint_loop` keeps running and a pass is
due again and again; a client that has begun a merge ends it.

### ReplicaSource, Connections, Admission

ReplicaSource has the acceptor, a thread per replica from accept to exit, the
counters `pending` and `replicas`, the registry of sockets, and
`replication_source_stop` followed by `db_close`. The stop reads the two
counters in two steps, `replicas` first: C leaves the order open, and read the
other way round a thread is always seen in one of them. Connections has the event loops, the shared
`g_conns`, reading, request lines up to a limit, staged responses, half-close,
idle reaping and stop; the peer takes bytes when it likes. Admission has the
operation table, identity and scope, the read-only replica, the token bucket
with a clock read up to `Delay` before the lock, and token changes with their
file.

*ServerMain*: loops overshoot the connection cap by less than their number;
pipelined requests are answered in order, each once, and all of them if the
client stays and reads; the source is freed after the last stream unless a slot
was claimed between the two reads; in no window is more let through than a burst
and the rate's share. *SourceFreedEarly* drops that exception and is *violated*.
Two loops and three clients for one slot, a buffer shorter than two responses
and a line limit of three bytes reach every early return; three peers for one
replica slot and two pending ones. The three parts share no variable and no
lock, so they run one at a time. Fairness: a loop blocks only in `poll`, which
has a timeout; a client reads what it is sent; `accept` times out every second,
a handshake has a deadline, and a stream ends on the stop flag or on its socket
being shut down. That stop is called is not assumed.

## 3. Proofs

Every theorem holds for all values of the constants under the named assumption
of its module (`ConfigAssumption`, `StorageAssumption`, `WorkingAssumption`,
`ReplicationAssumption`, `ReplicaSourceAssumption`, `ConnectionsAssumption`,
`AdmissionAssumption`, `ProbeTableAssumption`), which say that bounds are naturals, that the sets of
faults are among those modelled, and that sets that are counted are finite.

`GroupCommitProofs` (any set of writers, batch size and bounds):

- `TypeCorrect`: the type invariant;
- `LossBounded`: `AckedLossBound`;
- `SyncDurable`: `SyncAckedIsDurable`;
- `PendingNeverStale`: `PendingIsReal`.

None of them is inductive by itself. `IInv` adds that an unanswered frame is not
acknowledged (`FrameFresh`) and, while no frame is dropped, `Accounted`: the
counter `since` counts the frames of this process that no fsync has covered
(`CounterExact`), and the two properties themselves. Failing fsyncs are part of
the proof: an error drops a frame or finds none to drop (`ErrorStep`), and what
clears `dropped` again also covers every frame (`SyncedStep`). The counting step
uses that a set of frame numbers between `synced` and `size` has at most
`size - synced` members.

`StorageProofs` (any number of ids, writes, crashes and compactions, any holes):

- `TypeCorrect`: the type invariant, offsets within the log included;
- `IndexFollowsLog`: `IndexIsFullScan`;
- `NoWriteLost`: `ReadsLastWrite`;
- `FreshIds`: `NextIdFresh`.

What the index must be follows from what was put aside earlier, so `IInv` speaks
of all of it: a checkpoint is the index of the log it was made over
(`CkptRight`), the snapshot of a compaction is the index of the prefix it covers
(`SnapshotRight`), each copy is the last version before that and none is missing
(`CopiesRight`), and after the swap the locations describe the new log
(`SwapRight`). A log that was swapped out and may come back shows the durable
records but for those written to a later log since (`OldLogsRight`).
`DurableInLog` says what the fsynced prefix shows, without which a power failure
could lose a write. Index and reader are stated by what they mean
(`IsLast`, `IsEntry`, `Sees`: the last frame of a record in a prefix), and lemmas
connect this to the scans of the code: a scan from a checkpoint continues the
index of its prefix, the drained tail follows the copies, a log cut behind its
fsynced prefix keeps what that prefix shows. `~stale` guards this part alone;
types, and that damage lies in the fsynced part, hold without it.

`WorkingBufferProofs` (any capacity, sessions, namespaces and workers):

- `WorkingTypeCorrect`: the type invariant;
- `RingOrdered`: the slot to be overwritten holds the oldest record or none;
- `RecordsRetained`: a record is there until `Capacity` later adds, a take, or
  its due time;
- `PromotedAtMostOnce`: racing promotes insert a record once.

Retention needs ring order (what is evicted is the oldest), that a slot's expiry
is the record's due time, and that a worker's time is never ahead of the clock.
Promotion adds that a taken record is in no slot and in no second job.

`ReplicationProofs` (any number of writes, compactions, drops, checkpoints and
crashes, any ignored failures):

- `TypeCorrect`: the type invariant;
- `FollowsRunningPrimary`: `PrefixOfRunningPrimary`;
- `IndexesFollowLog`: `IndexIsLogUnlessStale`;
- `FramesKeepOffsets`: `AppliedAtOffset`.

A prefix is kept only if what is under way fits. `SameGeneration` says that,
while the primary has not restarted and nothing failed, a generation names one
history of its log: a replica of that generation holds a prefix of it, up to
damaged frames, and every
frame on a connection of that generation is still at its offset. `Handshake`
says that the reply comes first and once, and that the replica is until then
what it was when it sent its offset and generation. `Recorded` does the same for
`held` and makes no exception.

`ServerProofs`, the replication source (any number of connections and both caps):

- `CountersAlwaysExact`: the counters count the threads, the registry is the set
  of their sockets, both caps hold;
- `StopWaitsForStreams`: `FreedAfterStreams`.

The invariant adds that the acceptor has at most one connection in hand and the
room it found is still there when it counts it (`OneInHand`), and that a zero
the stopper read still stands at its second read unless a slot was claimed since
(`StopState`). The lemma `CountMoves` says what a thread's step does to a count.

`ServerProofs`, the connections (any loops, clients, cap and input):

- `CountAlwaysExact`: `g_conns` is the number of connections held;
- `CapOvershoot`: `CapNearlyHolds`;
- `RepliesInOrder`: `AnswersInOrder`;
- `RequestsNeverStranded`: `NoRequestStranded` (checked in ServerAll).

The bound on the count does not say which loops have passed the test and not yet
counted; `CapWithAdds` does. `ReadyIsOpen` says that what `poll` reported is
still open when it is handled. `Answering` adds to the order of the answers that
a connection at rest has no line left to handle. `conn_advance` takes as many
turns as there are lines; that a turn keeps the invariant and that so many turns
leave none over is shown by induction on their number (`Induction`, `Turns`).

`ServerProofs`, admission (any rate, tenants and delay):

- `RateLimitHolds`: `RateBound`;
- `RateLimitOpens`: a tenant that waits as long as its rate asks is served.

Both properties speak of the present time; `Paid` and `Growing` say the same of
the bucket's own time, which is what a request changes.

`ProbeTableProofs` (any keys and hashes, any first size above one, no bound on
growth but `MaxCap`, the value 0 reserved as the hash index reserves it):

- `TableIsKeyMap`: each of the six tables implements KeyMap (`IsKeyMap`);
- `TableProbesEnd`: `ProbesEnd`;
- `TableSlotsCounted`: `SlotsCounted` (both checked in RetrievalAll).

The inductive invariant `TInv` says of the array that every live slot is reached
from the home of its key over slots that were used (`Reached`), that no key is in
two slots, that the counters count, and that the load factor leaves a slot that
was never used; tables without tombstones use no slot that is not live. On top
of it `Lookup` shows that a probe finds exactly the live slot of its key, so the
map a table stands for is the relation `Maps`, and each operation is described by
what it does to `Maps`: `ClaimKeeps`, `RetireKeeps`, `RevalueKeeps`, `GrowKeeps`
(a rehash, by induction on the slots moved) and `RcDeleteKeeps`. The backward
shift is the hard one. Positions are counted from the first slot behind the chain
that is empty (`Pos`), which turns the wrapped comparison of `rc_del` into an
ordinary one (`Staying`); the loop's invariant (`Chain`) is that every chain is
whole but for the hole, and that nothing behind the slots looked at starts at or
before it. `ReadPut`, `ReadSame` and `ReadDelete` carry the result to KeyMap.

`TruthProofs` (any registry, rules, namespaces, records and budgets):

- `AssertionsSurvive`: `AssertionSurvives`, for any number of consolidations.

A merge deletes its losers whatever became of the survivor, so `AInv` says that
the losers carry the survivor's claim (`IsMerge`): as long as the survivor is a
visible assertion the claim is backed, and when it is not the step records the
claim in `destroyed`. The sweep holds expired records only and a judgement a
conclusion (`IsThread`), so neither takes an assertion away. Sorting by rank
(`Ascending`) is shown to list exactly the members of its set by induction on the
size of the set. Without the exception the property fails, also with a single
consolidation; see section 5.

Only model-checked:

- Records (`IndexesMatchLog`, `TenantUsageExact`, `ReplicaMatchesLog`,
  `WalkComplete`), SemanticBuild (`HeldIsWanted`): they fold operators over
  sequences and sets; a theorem about such a fold takes an operator as a
  parameter, which none of the installed provers can instantiate;
- Search and Hnsw, which compute with recursive operators, which the prover does
  not take;
- of TruthMaintenance, `NoStrandedConclusion` and `NoCircularSupport`, which rest
  on what the recursive rule engine of Inference derives;
- every liveness property, since the prover does not handle fairness.

## 4. Disagreements with a run

- *StorageStaleAfterSwap* against `docs/architecture.md:66-67`;
- *SourceFreedEarly* against the comments at `server/replication.c:251-252` and
  `502-504`;
- *SemanticReset* against the comment at `storage/db.c:150-153`.

`PROJECT.json` quotes each and says what happens.

## 5. Seen while modelling, without a run

Each of these has a configuration here; TLC finds it violated. They have no run
of their own because another run shows the same kind of disagreement or the
component has one.

| Configuration | What it refutes |
|---|---|
| GroupCommitFsyncError | `docs/architecture.md:45`, "No acknowledged write is ever lost": after a failed fsync the pages are clean, the next fsync succeeds, and frames that are not on disk are acknowledged |
| GroupCommitIdleAfterKill | `storage/compaction.c:354-356`: after a kill the new process counts no unflushed writes, and they stay unflushed while the server is idle |
| StorageStaleAfterRegrowth | `docs/architecture.md:66-67`: a checkpoint over lost frames is trusted once the log has regrown |
| ReplicationMissedCompaction | `docs/read-replica-design.md:193-195`: generations restart at 0 with the process, so a compaction and a restart of the primary go unnoticed |
| ReplicationStaleCheckpoint | `docs/read-replica-design.md:167-169`: the checkpoint of a log discarded by a reset is trusted |
| ReplicationHole | `server/replication.c:318`, "transient": a damaged frame stalls the stream until a compaction drops it |
| TruthUnlinked | `docs/inference-design.md:356-359`: a kill between a conclusion's insert and its links leaves a conclusion no delete of the premise finds until the next restart |
| RecordsReplicaEdges | `storage/db.c:297-304`: the edges of a replica can differ from those its own recovery builds |

These statements of comments, docs or tests are kept in their modules, refuted by
TLC when checked in the module's run instead of its properties:

- `CapHolds` (a hard cap, `server/tcp_server.c:236-237` and `255`): each loop may
  let one more in.
- `EofProcessesBuffered` (`server/tcp_server.c:365`): requests behind a response
  that did not fit are dropped at end of file.
- `AddedIsFound` (`tests/unit/test_hnsw.c:140-141`): a replaced vector need not be
  reachable once lists are full.
- `OverfetchLeavesEnough` (`storage/semantic_index.c:949-950`): fetching twice as
  many vectors need not leave enough records when a record has more than two.
- `ShortMeansSpent` (`query/qe_search.c:395-397`, "Fewer returned than asked ->
  the index has nothing more to give"): a graph search that does not reach every
  vector returns fewer too, the query counts as exhausted, is not widened, and
  lacks records that match.
- `NoIdReuse` (`storage/db.c:34-36`): the id of a deleted and compacted record is
  handed out again after a crash, since `metadata.db` is written at close only.
- `UndoneSwapHarmless` (`storage/compaction.c:236-238`, "harmless - same live
  data"): when the directory fsync after the swap fails the server goes on, and a
  power failure that undoes the rename loses the writes fsynced to the new log.
- `FollowedIsPrefix` (`docs/read-replica-design.md:75-76`, "byte-identical"): a
  replica keeps a frame that its own power failure damaged.
- `MergeDestroysNoAssertion` (`query/qe_maint.c:407`, "A merge must not destroy an
  assertion", and `docs/inference-design.md:681-683`): the losers are deleted also
  when the survivor is a conclusion, which may be retracted later, and when the
  survivor was deleted, expired or merged away by another consolidation after the
  update (`565-589`).
- `DeletedOnlyUnsupported` (`query/qe_infer.c:866`, "Merged is not lost"): a
  premise that has expired and is being merged is judged lost, the merge
  completes, and the conclusion is deleted although its premise has an heir by
  then.

Read in the code and not turned into a property:

- After a kill `log_flush_pending` is false although writes are not fsynced
  (`docs/wire-protocol.md:1217`).
- Promote moves the record rather than copying it, so a failed insert loses it
  (`docs/architecture.md:222`; `PromoteFails` in WorkingBuffer).
- Frames are shipped before they are fsynced and diverge after a power loss of
  the primary (`docs/read-replica-design.md:75-76`). An offset mismatch only
  reconnects, and the generation is stored before a reset that may fail
  (`159-160`). A frame whose apply failed is not applied until the replica
  restarts (`176-177`). A checkpoint of the replica may cover frames that are not
  fsynced; after a power failure it is trusted over the damage (`167-169`).
- A peer that is active may be reaped when a handler on its loop takes longer
  than the idle timeout (`server/tcp_server.c:387-389`).
- A failed delete leaves the record live and out of the indexes until a restart,
  and its vector out for longer when a semantic checkpoint was taken in between
  (`query/query_engine.c:622`; `DeleteFails` in Records).
- Two consolidations at once that choose different survivors, from different
  snapshots, may each delete the record the other keeps
  (`query/qe_maint.c:594`); the proof covers any number of them, with the loss
  recorded in `destroyed`, and the instance runs one.
- A hybrid query is widened as long as either source has more
  (`query/qe_search.c:437`), where the comment above it says "Widening only helps
  while *both* sources still have more". `Spent` follows the code; with the
  comment's condition (`SpentEither`) `NotStarved` fails.
- A bulk delete checks only the namespace of a record again, so it also deletes
  one that was updated meanwhile and matches no longer
  (`query/qe_search.c:1031-1033`). Pages of a ranked query are cut from rankings
  computed anew, whose ties have no fixed order.
- A response that cannot be allocated leaves its request unanswered
  (`server/tcp_server.c:171-182`).

## 6. Not modelled

- Bytes: the layout of frames and the resynchronising scan (Storage has frames
  that are whole or damaged), the record codec, JSON, checkpoint formats,
  ciphers and digests. They are conversions without state.
- Arithmetic of scores: cosine, quantisation, BM25, recency decay. Search takes
  scores as inputs; Hnsw has distances on a line.
- Failing allocations except where a module names them (SemanticBuild, Hnsw,
  TruthMaintenance, Records' failing delete).
- The order of locks. A critical section is one step, so a deadlock between two
  lock orders would not show.
- A failing directory fsync at close (`db_save_metadata` is taken to succeed), and
  in Replication a swap of the primary's log that a power failure undoes; Storage
  has both the failing fsync after a swap and what it may bring back.
- A log that cannot be reopened after the swap of compaction
  (`storage/compaction.c:244`): the server runs on and every operation fails.
- Batch insert, and adoption of a fact by a merge survivor that has none.
- Snapshots, restore and the encryption migration: `db_snapshot` copies an
  immutable prefix of the log under the read side of `log_lock`; the other two
  are one-shot modes that run before the server opens.
- Request handlers, which translate JSON to the operations above; options other
  than the token file; start-up; the command-line client; the Python client and
  integrations.

The hazards in `PROJECT.json` are the ones that weigh most. Others the modules
cover: the set of contradictions replaced at the end of a pass
(`query/qe_infer.c:740`), interned kinds at their cap (`storage/edge_index.c:213`),
swap-remove in the dense array (`storage/semantic_index.c:203`), a failed
replacement in the graph (`storage/hnsw.c:704`), bulk deletes beside writers
(`query/qe_search.c:1048`), the end of a stop (`server/replication.c:492`) and the
token file read back (`util/config.c:840`). They are checked by the `All`
configurations.
