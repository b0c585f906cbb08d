------------------------------ MODULE Storage ------------------------------
(***************************************************************************)
(* The storage engine of AegisDB: the append-only log, the hash index that *)
(* maps an id to the offset of its latest frame, index checkpoints,        *)
(* metadata.db, three-phase compaction, crashes and recovery.              *)
(*                                                                         *)
(* A frame stands for one encoded record version; offsets count frames.    *)
(* `stamp' identifies the version (every write has a new one).  Every      *)
(* critical section of index_lock is one action; compaction is split where *)
(* it releases the lock or where a crash leaves a different disk.  When    *)
(* an acknowledgement is given, and by which fsync, is GroupCommit's       *)
(* subject: here Fsync may happen whenever the log can be flushed.         *)
(***************************************************************************)
EXTENDS Naturals, Sequences, FiniteSets

CONSTANTS
    MaxId,          \* bound: record ids
    MaxWrites,      \* bound: frames written in a behaviour
    MaxCrashes,     \* bound: crashes in a behaviour
    CrashKinds,     \* subset of {"kill", "power"}
    Holes,          \* may a power failure damage frames before the last one?
    AllocMayFail,   \* may an allocation fail in the middle of compaction?
    MaxOld,         \* bound: earlier logs and checkpoints that an fsync of the
                    \* directory may leave on stable storage by failing
    Compaction      \* is compaction run (the timer, or a purge)?

ASSUME StorageAssumption ==
    /\ MaxId \in Nat /\ MaxWrites \in Nat /\ MaxCrashes \in Nat
    /\ CrashKinds \subseteq {"kill", "power"}
    /\ Compaction \in BOOLEAN /\ Holes \in BOOLEAN
    /\ AllocMayFail \in BOOLEAN /\ MaxOld \in Nat

Ids == 1 .. MaxId

(* A frame whose header, checksum or tag does not verify.                  *)
Bad == [id |-> 0, stamp |-> 0, del |-> FALSE]
Frame == [id : Ids, stamp : 1 .. MaxWrites, del : BOOLEAN]
Good(f) == f.id # 0

(* HashEntry: off = 0 is an unused slot.                                   *)
NoEntry == [off |-> 0, del |-> FALSE]
Live(h, i) == h[i].off # 0 /\ ~h[i].del

NoCkpt == [covered |-> 0, nextId |-> 0, hash |-> <<>>, over |-> <<>>]
Idle == [pc |-> "idle", snap |-> <<>>, end |-> 0, new |-> <<>>, locs |-> <<>>]

VARIABLES
    up,         \* is a process serving?
    log,        \* memory.log as the process sees it: a sequence of frames
    synced,     \* frames 1..synced are on stable storage
    hash,       \* HashIndex
    nextId,     \* AegisDB.next_id
    pending,    \* ids allocated by inserts that have not appended yet
    stamp,      \* versions written so far
    ckpt,       \* memory.index as the directory shows it
    oldCkpts,   \* memory.index as the directory on stable storage may show it
    oldLogs,    \* memory.log, likewise: the logs swapped out since the last
                \* fsync of the directory, and for each the ids that had a
                \* write fsynced since (history)
    meta,       \* next_id in metadata.db
    comp,       \* the compaction in progress
    crashes,    \* crashes so far
    durable,    \* history: id -> stamp a reader of the fsynced writes sees, or 0
    undone,     \* history: ids whose last fsynced write went with a swap that a
                \* power failure undid
    topId,      \* history: the greatest id of a frame that was fsynced
    stale       \* history: was the index of another log ever put in use?

files == <<ckpt, oldCkpts, oldLogs, meta>>
history == <<durable, undone, topId, stale>>
vars == <<up, log, synced, hash, nextId, pending, stamp, ckpt, oldCkpts,
          oldLogs, meta, comp, crashes, durable, undone, topId, stale>>

-----------------------------------------------------------------------------
SetMax(S, d) == IF S = {} THEN d ELSE CHOOSE x \in S : \A y \in S : y <= x

(* The offset of the last readable frame of id i in frames from+1..Len(l). *)
LastOf(l, i, from) == SetMax({k \in from + 1 .. Len(l) : l[k].id = i}, 0)

(* hash_index_put of the frame at offset k.                                *)
EntryAt(l, k) == [off |-> k, del |-> l[k].del]

(* log_read: an offset past the end or a frame that does not verify fails. *)
Readable(l, off) == off \in 1 .. Len(l) /\ Good(l[off])

(* What a reader must see: the fsynced writes overlaid with those in the   *)
(* log that are not fsynced yet.                                           *)
Expected(i) ==
    LET k == LastOf(log, i, synced)
    IN  IF k = 0 THEN durable[i] ELSE IF log[k].del THEN 0 ELSE log[k].stamp

(* The version qe_get returns, 0 for NOT_FOUND; an unreadable frame or one *)
(* of another record never equals an expected version.                     *)
Visible(i) ==
    IF ~Live(hash, i) THEN 0
    ELSE IF ~Readable(log, hash[i].off) \/ log[hash[i].off].id # i
         THEN MaxWrites + 1
         ELSE log[hash[i].off].stamp

(* The ids with a write in the log that is not fsynced yet.                *)
Unsynced == {i \in Ids : LastOf(log, i, synced) # 0}

(* A successful fsync of the log: everything in it is durable.             *)
MakeDurable ==
    /\ durable' = [i \in Ids |-> Expected(i)]
    /\ undone' = undone \ Unsynced
    /\ topId' = SetMax({topId} \cup {log[k].id : k \in 1 .. Len(log)}, 0)

(* ... which a swapped-out log does not hold.                              *)
OldLogsLag == {[u EXCEPT !.since = @ \cup Unsynced] : u \in oldLogs}

(* fs_fsync_parent: what the directory shows is on stable storage; or it   *)
(* fails, and any of the earlier logs and checkpoints may still be.        *)
FsyncParent(logs, ckpts) ==
    \/ oldLogs' = {} /\ oldCkpts' = {}
    \/ /\ Cardinality(logs) + Cardinality(ckpts) <= MaxOld
       /\ oldLogs' = logs /\ oldCkpts' = ckpts

(* index_lock is free: compaction holds it from the drain to the unlink.   *)
IndexFree == up /\ comp.pc \notin {"renamed", "installed"}

(* log_lock is free: compaction holds it around the swap.                  *)
LogFree == up /\ comp.pc # "renamed"

Init ==
    /\ up = TRUE
    /\ log = <<>>
    /\ synced = 0
    /\ hash = [i \in Ids |-> NoEntry]
    /\ nextId = 1
    /\ pending = {}
    /\ stamp = 0
    /\ ckpt = NoCkpt
    /\ oldCkpts = {}
    /\ oldLogs = {}
    /\ meta = 0
    /\ comp = Idle
    /\ crashes = 0
    /\ durable = [i \in Ids |-> 0]
    /\ undone = {}
    /\ topId = 0
    /\ stale = FALSE

-----------------------------------------------------------------------------
(* The write path (query_engine.c).                                        *)

(* Mutant: the index is given the end of the frame, not its start.         *)
AppendAndHash_EndOffset(i, deleted) ==
    /\ stamp < MaxWrites
    /\ stamp' = stamp + 1
    /\ log' = Append(log, [id |-> i, stamp |-> stamp + 1, del |-> deleted])
    /\ hash' = [hash EXCEPT ![i] = [off |-> Len(log) + 2, del |-> deleted]]

(* append_and_hash: log_append, then hash_index_put.                       *)
AppendAndHash(i, deleted) ==
    /\ stamp < MaxWrites
    /\ stamp' = stamp + 1
    /\ log' = Append(log, [id |-> i, stamp |-> stamp + 1, del |-> deleted])
    /\ hash' = [hash EXCEPT ![i] = [off |-> Len(log) + 1, del |-> deleted]]

(* qe_insert allocates the id before it takes index_lock.                  *)
NextIdForInsert ==
    /\ up
    /\ nextId \in Ids
    /\ pending' = pending \cup {nextId}
    /\ nextId' = nextId + 1
    /\ UNCHANGED <<up, log, synced, hash, stamp, files, comp, crashes,
                   history>>

Insert(i) ==
    /\ IndexFree
    /\ i \in pending
    /\ AppendAndHash(i, FALSE)
    /\ pending' = pending \ {i}
    /\ UNCHANGED <<up, synced, nextId, files, comp, crashes, history>>

(* append_and_hash refuses (encoding, quota) or log_append fails: the id is *)
(* spent and nothing is in the log.                                        *)
InsertFails(i) ==
    /\ IndexFree
    /\ i \in pending
    /\ pending' = pending \ {i}
    /\ UNCHANGED <<up, log, synced, hash, nextId, stamp, ckpt, oldCkpts,
                   oldLogs, meta, comp, crashes, history>>

(* qe_update, qe_relate (deleted = FALSE) and qe_delete (TRUE): load the   *)
(* current version and append its successor.  load_record does not compare *)
(* the id it asked for with the id of the frame it read.                   *)
Rewrite(i, deleted) ==
    /\ IndexFree
    /\ Live(hash, i)
    /\ Readable(log, hash[i].off)
    /\ ~log[hash[i].off].del
    /\ AppendAndHash(log[hash[i].off].id, deleted)
    /\ UNCHANGED <<up, synced, nextId, pending, files, comp, crashes, history>>

Update(i) == Rewrite(i, FALSE)
Delete(i) == Rewrite(i, TRUE)

(* Any fsync of the log that succeeds (log_fsync, log_fsync_if_batched).   *)
Fsync ==
    /\ LogFree
    /\ synced < Len(log)
    /\ synced' = Len(log)
    /\ MakeDurable
    /\ oldLogs' = OldLogsLag
    /\ UNCHANGED <<up, log, hash, nextId, pending, stamp, ckpt, oldCkpts, meta,
                   comp, crashes, stale>>

(* db_checkpoint: the hash index, the log size it covers and next_id,      *)
(* written with fs_write_atomic, which ends with an fsync of the           *)
(* directory.  The log itself is not fsynced first.                        *)
CheckpointNow ==
    [covered |-> Len(log), nextId |-> nextId, hash |-> hash, over |-> log]

Checkpoint ==
    /\ IndexFree
    /\ ckpt' = CheckpointNow
    /\ FsyncParent(oldLogs, oldCkpts \cup {ckpt})
    /\ UNCHANGED <<up, log, synced, hash, nextId, pending, stamp, meta, comp,
                   crashes, history>>

-----------------------------------------------------------------------------
(* Compaction (compaction.c).                                              *)

(* Phase 1: the live entries and the log size they were captured at.       *)
CompactSnapshot ==
    /\ Compaction
    /\ IndexFree
    /\ comp.pc = "idle"
    /\ comp' = [Idle EXCEPT !.pc = "copy",
                            !.snap = hash,
                            !.end = Len(log)]
    /\ UNCHANGED <<up, log, synced, hash, nextId, pending, stamp, files,
                   crashes, history>>

(* The orders in which a walk of the hash buckets can meet a set of ids.   *)
Orders(S) ==
    {o \in UNION {[1 .. n -> S] : n \in 0 .. MaxId} :
        /\ \A x \in S : \E k \in DOMAIN o : o[k] = x
        /\ \A j, k \in DOMAIN o : o[j] = o[k] => j = k}

(* Phase 2, without a lock: copy the snapshot's frames to a scratch log;   *)
(* an unreadable frame aborts.                                             *)
CompactCopy ==
    /\ up
    /\ comp.pc = "copy"
    /\ LET live == {i \in Ids : Live(comp.snap, i)} IN
       IF \A i \in live : Readable(log, comp.snap[i].off)
       THEN \E o \in Orders(live) :
              comp' = [comp EXCEPT
                !.pc = "copied",
                !.new = [k \in DOMAIN o |-> log[comp.snap[o[k]].off]],
                !.locs = [k \in DOMAIN o |-> [id |-> o[k], del |-> FALSE]],
                !.snap = <<>>]
       ELSE comp' = Idle
    /\ UNCHANGED <<up, log, synced, hash, nextId, pending, stamp, files,
                   crashes, history>>

(* Mutant: the drain starts one frame late.                                *)
Drained_OneLate(l, from) == SubSeq(l, from + 2, Len(l))

(* The frames appended while phase 2 ran.                                  *)
Drained(l, from) == SubSeq(l, from + 1, Len(l))

(* Phase 3 up to the rename, under index_lock: drain the tail (a frame     *)
(* that does not read aborts), fsync the scratch log, log_close the old    *)
(* one (which fsyncs it) and rename over it.                               *)
CompactSwap ==
    /\ IndexFree
    /\ comp.pc = "copied"
    /\ LET tail == Drained(log, comp.end) IN
       /\ \A k \in DOMAIN tail : Good(tail[k])
       /\ log' = comp.new \o tail
       /\ comp' = [comp EXCEPT
             !.pc = "renamed",
             !.locs = @ \o [k \in DOMAIN tail |->
                              [id |-> tail[k].id, del |-> tail[k].del]],
             !.new = <<>>]
    /\ synced' = Len(log')
    /\ MakeDurable
    /\ oldLogs' = OldLogsLag \cup {[log |-> log, since |-> {}]}
    /\ UNCHANGED <<up, hash, nextId, pending, stamp, ckpt, oldCkpts, meta,
                   crashes, stale>>

(* Phase 3 gives up: an unreadable tail frame, or an I/O error before the  *)
(* rename.  The original log stays.                                        *)
CompactAbort ==
    /\ IndexFree
    /\ comp.pc = "copied"
    /\ comp' = Idle
    /\ UNCHANGED <<up, log, synced, hash, nextId, pending, stamp, files,
                   crashes, history>>

(* Mutant: a tombstone of the tail does not replace the phase-2 copy.      *)
Rebuilt_NoTombstones(locs, i) ==
    LET k == SetMax({n \in DOMAIN locs : locs[n].id = i /\ ~locs[n].del}, 0)
    IN  IF k = 0 THEN NoEntry ELSE [off |-> k, del |-> locs[k].del]

(* The new hash: one hash_index_put per retained frame, in log order.      *)
Rebuilt(locs, i) ==
    LET k == SetMax({n \in DOMAIN locs : locs[n].id = i}, 0)
    IN  IF k = 0 THEN NoEntry ELSE [off |-> k, del |-> locs[k].del]

(* The directory fsync (a failure is only logged), the reopened log and    *)
(* the rebuilt hash.                                                       *)
CompactInstall ==
    /\ up
    /\ comp.pc = "renamed"
    /\ hash' = [i \in Ids |-> Rebuilt(comp.locs, i)]
    /\ FsyncParent(oldLogs, oldCkpts)
    /\ comp' = [Idle EXCEPT !.pc = "installed"]
    /\ UNCHANGED <<up, log, synced, nextId, pending, stamp, ckpt, meta,
                   crashes, history>>

(* The allocation of the new hash fails after the swap: the old index stays *)
(* in place over the new log, and the checkpoint file too.                 *)
CompactInstallFails ==
    /\ AllocMayFail
    /\ up
    /\ comp.pc = "renamed"
    /\ FsyncParent(oldLogs, oldCkpts)
    /\ comp' = Idle
    /\ stale' = TRUE
    /\ UNCHANGED <<up, log, synced, hash, nextId, pending, stamp, ckpt, meta,
                   crashes, durable, undone, topId>>

(* unlink(path_index), the last step under index_lock.  The directory is   *)
(* not fsynced after it.                                                   *)
CompactUnlink ==
    /\ up
    /\ comp.pc = "installed"
    /\ ckpt' = NoCkpt
    /\ oldCkpts' = (oldCkpts \cup {ckpt}) \ {NoCkpt}
    /\ comp' = Idle
    /\ UNCHANGED <<up, log, synced, hash, nextId, pending, stamp, oldLogs,
                   meta, crashes, history>>

-----------------------------------------------------------------------------
(* Crashes, shutdown and recovery.                                         *)

Restarting ==
    /\ up' = FALSE
    /\ hash' = [i \in Ids |-> NoEntry]
    /\ nextId' = 0
    /\ pending' = {}
    /\ comp' = Idle

(* The process dies; the page cache and the directory survive.             *)
Kill ==
    /\ "kill" \in CrashKinds
    /\ up /\ crashes < MaxCrashes
    /\ crashes' = crashes + 1
    /\ Restarting
    /\ UNCHANGED <<log, synced, files, stamp, history>>

(* The machine dies.  Of the frames that were not fsynced any may be       *)
(* missing at the end or damaged in the middle; a directory change that    *)
(* was not fsynced may be undone: the rename back to an old log (which     *)
(* log_close fsynced), the rename or the unlink of a checkpoint.           *)
SurvivesPower(l, n) ==
    {[k \in 1 .. m |-> IF k \in d THEN Bad ELSE l[k]] :
        m \in n .. Len(l), d \in IF Holes THEN SUBSET (n + 1 .. Len(l)) ELSE {{}}}

PowerFailure ==
    /\ "power" \in CrashKinds
    /\ up /\ crashes < MaxCrashes
    /\ crashes' = crashes + 1
    /\ Restarting
    /\ \/ /\ log' \in SurvivesPower(log, synced)
          /\ durable' = [i \in Ids |->
               LET k == LastOf(log', i, synced)
               IN  IF k = 0 THEN durable[i]
                   ELSE IF log'[k].del THEN 0 ELSE log'[k].stamp]
          /\ undone' = {i \in undone : LastOf(log', i, synced) = 0}
       \/ \E u \in oldLogs :
             /\ log' = u.log
             /\ undone' = undone \cup u.since
             /\ durable' = durable
    /\ synced' = Len(log')
    /\ ckpt' \in {ckpt} \cup oldCkpts
    /\ oldCkpts' = {} /\ oldLogs' = {}
    /\ topId' = SetMax({topId} \cup {log'[k].id : k \in 1 .. Len(log')}, 0)
    /\ UNCHANGED <<stamp, meta, stale>>

(* db_close after the workers and the maintenance thread have stopped:     *)
(* log_fsync, db_checkpoint, db_save_metadata, whose fsync of the          *)
(* directory is taken to succeed.                                          *)
Close ==
    /\ IndexFree
    /\ comp.pc = "idle"
    /\ pending = {}
    /\ Restarting
    /\ synced' = Len(log)
    /\ MakeDurable
    /\ ckpt' = CheckpointNow
    /\ oldCkpts' = {} /\ oldLogs' = {}
    /\ meta' = nextId
    /\ UNCHANGED <<log, stamp, crashes, stale>>

(* log_scan: every frame that verifies is visited; if one follows a hole   *)
(* the log is left as it is, otherwise it is cut after the last frame      *)
(* before the damage.                                                      *)
ScanEnd(l, from) ==
    LET holes == {k \in from + 1 .. Len(l) : ~Good(l[k])}
        first == CHOOSE k \in holes : \A j \in holes : k <= j
    IN  IF holes = {} \/ \E k \in first .. Len(l) : Good(l[k])
        THEN Len(l) ELSE first - 1

(* A checkpoint is trusted when it does not cover more than the log holds. *)
Trusted == ckpt # NoCkpt /\ ckpt.covered <= Len(log)

(* Mutant: the next_id of a trusted checkpoint is not used.                *)
RecoveredNextId_NoSeed(from) ==
    SetMax({SetMax({log[k].id : k \in from + 1 .. Len(log)}, 0) + 1, meta}, 0)

(* One past the greatest id scanned or checkpointed, at least the floor.   *)
RecoveredNextId(from) ==
    LET seed  == IF Trusted /\ ckpt.nextId > 0 THEN ckpt.nextId - 1 ELSE 0
        found == {log[k].id : k \in from + 1 .. Len(log)}
    IN  SetMax({SetMax({seed} \cup found, 0) + 1, meta}, 0)

(* db_open -> recovery_run, then the metadata floor on next_id.            *)
Recover ==
    /\ ~up
    /\ up' = TRUE
    /\ LET from  == IF Trusted THEN ckpt.covered ELSE 0
           end   == ScanEnd(log, from)
       IN  /\ hash' = [i \in Ids |->
                 LET k == LastOf(log, i, from)
                 IN  IF k # 0 THEN EntryAt(log, k)
                     ELSE IF Trusted THEN ckpt.hash[i] ELSE NoEntry]
           /\ log' = SubSeq(log, 1, end)
           /\ synced' = IF end < Len(log) THEN end ELSE synced
           /\ nextId' = RecoveredNextId(from)
    /\ stale' = (stale \/ (Trusted /\ SubSeq(log, 1, ckpt.covered) # ckpt.over))
    /\ UNCHANGED <<pending, stamp, files, comp, crashes, durable, undone,
                   topId>>

-----------------------------------------------------------------------------
Next ==
    \/ NextIdForInsert
    \/ \E i \in Ids : Insert(i) \/ InsertFails(i) \/ Update(i) \/ Delete(i)
    \/ Fsync
    \/ Checkpoint
    \/ CompactSnapshot \/ CompactCopy \/ CompactSwap
    \/ CompactAbort \/ CompactInstall \/ CompactInstallFails
    \/ CompactUnlink
    \/ Kill \/ PowerFailure \/ Close
    \/ Recover

Spec == Init /\ [][Next]_vars

-----------------------------------------------------------------------------
(* Between two critical sections of index_lock the index and the log agree.*)
Quiet == up /\ comp.pc # "renamed"

(* The type invariant: also, what is fsynced lies in the log, and so does  *)
(* every offset append_and_hash or compaction puts into the index.         *)
TypeOK ==
    /\ up \in BOOLEAN /\ stale \in BOOLEAN
    /\ log \in Seq(Frame \cup {Bad})
    /\ synced \in 0 .. Len(log)
    /\ hash \in [Ids -> [off : Nat, del : BOOLEAN]]
    /\ Quiet /\ ~stale => \A i \in Ids : hash[i].off <= Len(log)
    /\ nextId \in Nat /\ meta \in Nat /\ topId \in Nat
    /\ pending \subseteq Ids
    /\ stamp \in 0 .. MaxWrites
    /\ comp.pc \in {"idle", "copy", "copied", "renamed", "installed"}
    /\ durable \in [Ids -> 0 .. MaxWrites]
    /\ undone \subseteq Ids

(* The hash index is exactly what a full scan of the log would build, also *)
(* after recoveries that start from a checkpoint, after compactions that   *)
(* writes raced, and with tombstones and damaged frames in the log, as     *)
(* long as no checkpoint of another log was trusted.                       *)
IndexIsFullScan ==
    Quiet /\ ~stale =>
        \A i \in Ids : hash[i] = LET k == LastOf(log, i, 0)
                                 IN  IF k = 0 THEN NoEntry ELSE EntryAt(log, k)

(* qe_get returns for every id the version of its last write that was      *)
(* fsynced or is still in the log, and nothing for a deleted one: no       *)
(* compaction, crash or recovery loses a durable write, brings back a      *)
(* deleted record or mixes up two records, as long as the index in use was *)
(* made for this log, and except for the ids in `undone': a write fsynced  *)
(* to a compacted log is lost when the directory fsync after the swap      *)
(* failed, as did or was not tried each one since, and a power failure     *)
(* then undoes the rename.                                                 *)
ReadsLastWrite ==
    Quiet /\ ~stale => \A i \in Ids \ undone : Visible(i) = Expected(i)

(* The same without the exception: a swap that does not survive a crash is *)
(* "harmless - same live data" (compaction.c).  It is not, once a write    *)
(* was fsynced to the new log.                                             *)
UndoneSwapHarmless ==
    Quiet /\ ~stale => \A i \in Ids : Visible(i) = Expected(i)

(* The same for a durable record with no newer write, whatever checkpoint  *)
(* recovery met: "A missing, stale, or corrupt checkpoint ... falls back   *)
(* to a full scan from offset 0" (architecture.md).                        *)
StaleCheckpointHarmless ==
    Quiet => \A i \in Ids :
        durable[i] # 0 /\ Expected(i) = durable[i] => Visible(i) = durable[i]

(* An id about to be handed out is in no frame of the log and in no insert *)
(* in flight, and is not below the floor of the last clean shutdown.       *)
NextIdFresh ==
    up /\ ~stale =>
        /\ \A k \in 1 .. Len(log) : log[k].id < nextId
        /\ \A i \in pending : i < nextId
        /\ meta <= nextId

(* "ids can't be reused after a crash" (db.c): no id of a record that was  *)
(* durable once is handed out again.                                       *)
NoIdReuse == up => nextId > topId
=============================================================================
