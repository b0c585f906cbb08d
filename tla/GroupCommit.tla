---------------------------- MODULE GroupCommit ----------------------------
(***************************************************************************)
(* How a write of AegisDB becomes durable: log_append, the batched fsync   *)
(* shared by all io-threads (log.c), the timed flush of the maintenance    *)
(* thread, the log swap of compaction and the crashes in between.          *)
(*                                                                         *)
(* A frame is its position 1, 2, ... in append order; its bytes do not     *)
(* matter here.  Frames 1..size are in the page cache, frames 1..synced    *)
(* are covered by an fsync that returned 0.  A writer is an io-thread: it  *)
(* appends under index_lock, releases it, calls durably_flush and only     *)
(* then answers its client, so other writers, the maintenance thread and   *)
(* compaction interleave between the append and the flush.                 *)
(***************************************************************************)
EXTENDS Naturals, FiniteSets

CONSTANTS
    Writers,        \* the io-threads
    Modes,          \* the values of Config.durability under study
    BatchSize,      \* Config.fsync_batch_size, used in "batch" mode
    FsyncMayFail,   \* may fsync(2) return EIO?
    RenameMayFail,  \* may compaction's rename(2) fail?
    CrashKinds,     \* subset of {"kill", "power"}
    MaxFrames,      \* bound: frames ever in the log
    MaxCrashes      \* bound: crashes in a behaviour

ASSUME ConfigAssumption ==
    /\ Modes \subseteq {"sync", "batch", "interval"}
    /\ BatchSize \in Nat
    /\ FsyncMayFail \in BOOLEAN
    /\ RenameMayFail \in BOOLEAN
    /\ CrashKinds \subseteq {"kill", "power"}
    /\ MaxFrames \in Nat
    /\ MaxCrashes \in Nat

VARIABLES
    durability,\* Config.durability, fixed when the server starts
    size,      \* LogFile.size, in frames
    since,     \* LogFile.since_fsync
    synced,    \* frames 1..synced are covered by a successful fsync
    dropped,   \* frames whose dirty pages a failed fsync gave up on
    opened,    \* LogFile.size when this process opened the log
    frame,     \* writer -> the frame it appended and has not answered, or 0
    acked,     \* frames whose writer got an OK answer
    crashes    \* crashes so far

vars == <<durability, size, since, synced, dropped, opened, frame, acked,
          crashes>>

Larger(a, b) == IF a >= b THEN a ELSE b

(* Mutant: the batch threshold is passed, not reached. *)
FsyncDue_OffByOne ==
    \/ durability = "sync" /\ since >= 1
    \/ durability = "batch" /\ (BatchSize = 0 \/ since > BatchSize)

(* config_effective_fsync_batch, and the test of log_fsync_if_batched:     *)
(* "interval" maps to SIZE_MAX, a count that is never reached.             *)
FsyncDue ==
    \/ durability = "sync" /\ since >= 1
    \/ durability = "batch" /\ (BatchSize = 0 \/ since >= BatchSize)

Init ==
    /\ durability \in Modes
    /\ size = 0
    /\ since = 0
    /\ synced = 0
    /\ dropped = {}
    /\ opened = 0
    /\ frame = [w \in Writers |-> 0]
    /\ acked = {}
    /\ crashes = 0

-----------------------------------------------------------------------------
(* fsync(2) on the log, an external operation.  On failure Linux reports   *)
(* the error once and marks the pages clean: a later fsync does not write  *)
(* them (the comment on fsync_retry).                                      *)
FsyncOk ==
    /\ synced' = size
    /\ UNCHANGED dropped

FsyncError ==
    /\ FsyncMayFail
    /\ dropped' = dropped \cup (synced + 1 .. size)
    /\ UNCHANGED synced

-----------------------------------------------------------------------------
(* Mutant: the frame's offset is taken after the size was advanced. *)
Append_LateOffset(w) ==
    /\ frame[w] = 0
    /\ size < MaxFrames
    /\ size' = size + 1
    /\ since' = since + 1
    /\ frame' = [frame EXCEPT ![w] = size + 2]
    /\ UNCHANGED <<durability, synced, dropped, opened, acked, crashes>>

(* Mutant: the append does not count towards the next fsync. *)
Append_Uncounted(w) ==
    /\ frame[w] = 0
    /\ size < MaxFrames
    /\ size' = size + 1
    /\ since' = since
    /\ frame' = [frame EXCEPT ![w] = size + 1]
    /\ UNCHANGED <<durability, synced, dropped, opened, acked, crashes>>

(* append_and_hash -> log_append, under index_lock.  A failed write leaves *)
(* size and since_fsync alone and is answered with an error: a stutter.    *)
Append(w) ==
    /\ frame[w] = 0
    /\ size < MaxFrames
    /\ size' = size + 1
    /\ since' = since + 1
    /\ frame' = [frame EXCEPT ![w] = size + 1]
    /\ UNCHANGED <<durability, synced, dropped, opened, acked, crashes>>

(* durably_flush -> log_fsync_if_batched, then the answer of qe_insert,    *)
(* qe_update, qe_delete or qe_relate.                                      *)
FlushNotDue(w) ==
    /\ frame[w] # 0
    /\ ~FsyncDue
    /\ acked' = acked \cup {frame[w]}
    /\ frame' = [frame EXCEPT ![w] = 0]
    /\ UNCHANGED <<durability, size, since, synced, dropped, opened, crashes>>

(* Mutant: the counter is not reset after the fsync. *)
FlushDue_NoReset(w) ==
    /\ frame[w] # 0
    /\ FsyncDue
    /\ FsyncOk
    /\ acked' = acked \cup {frame[w]}
    /\ frame' = [frame EXCEPT ![w] = 0]
    /\ UNCHANGED <<durability, size, since, opened, crashes>>

FlushDue(w) ==
    /\ frame[w] # 0
    /\ FsyncDue
    /\ FsyncOk
    /\ since' = 0
    /\ acked' = acked \cup {frame[w]}
    /\ frame' = [frame EXCEPT ![w] = 0]
    /\ UNCHANGED <<durability, size, opened, crashes>>

(* since_fsync stays set "so a retry flushes"; the client gets INTERNAL.   *)
FlushFails(w) ==
    /\ frame[w] # 0
    /\ FsyncDue
    /\ FsyncError
    /\ frame' = [frame EXCEPT ![w] = 0]
    /\ UNCHANGED <<durability, size, since, opened, acked, crashes>>

-----------------------------------------------------------------------------
(* Mutant: the timed flush waits for a full batch. *)
IntervalFlush_FullBatch ==
    /\ durability = "interval"
    /\ since >= BatchSize
    /\ \/ FsyncOk /\ since' = 0
       \/ FsyncError /\ since' = since
    /\ UNCHANGED <<durability, size, opened, frame, acked, crashes>>

(* maint_loop in "interval" mode: log_flush_pending, the timer, log_fsync. *)
(* The timer is abstracted to "some time after the previous flush".        *)
IntervalFlush ==
    /\ durability = "interval"
    /\ since > 0
    /\ \/ FsyncOk /\ since' = 0
       \/ FsyncError /\ since' = since
    /\ UNCHANGED <<durability, size, opened, frame, acked, crashes>>

(* The end of compaction_run_once_locked: every live frame is in the new   *)
(* log, which is fsynced before the rename and reopened after it, so       *)
(* since_fsync restarts at 0.  A failed fsync of the new log aborts and    *)
(* changes nothing.                                                        *)
CompactionSwap ==
    /\ size > 0
    /\ synced' = size
    /\ dropped' = {}
    /\ since' = 0
    /\ UNCHANGED <<durability, size, opened, frame, acked, crashes>>

(* The swap whose rename fails: log_close(&db->log) has fsynced the old    *)
(* log, ignoring the result, and log_open starts it again with             *)
(* since_fsync = 0.                                                        *)
CompactionReopen ==
    /\ RenameMayFail
    /\ size > 0
    /\ FsyncOk \/ FsyncError
    /\ since' = 0
    /\ UNCHANGED <<durability, size, opened, frame, acked, crashes>>

(* db_close -> log_fsync, then a new process opens the log.  A shutdown    *)
(* drains the requests in flight first; the fsync's result is ignored.     *)
CleanRestart ==
    /\ \A w \in Writers : frame[w] = 0
    /\ size > opened
    /\ FsyncOk \/ FsyncError
    /\ since' = 0
    /\ opened' = size
    /\ UNCHANGED <<durability, size, frame, acked, crashes>>

-----------------------------------------------------------------------------
(* A process crash keeps the page cache; the next log_open counts from 0.  *)
(* recovery_run fsyncs only after cutting a torn tail, which a kill does   *)
(* not leave between two actions.                                          *)
Kill ==
    /\ "kill" \in CrashKinds
    /\ crashes < MaxCrashes
    /\ crashes' = crashes + 1
    /\ since' = 0
    /\ opened' = size
    /\ frame' = [w \in Writers |-> 0]
    /\ UNCHANGED <<durability, size, synced, dropped, acked>>

(* A power failure loses the dropped frames and any suffix of the frames   *)
(* that were not fsynced; what recovery keeps is on disk.  The frames that *)
(* are gone leave the set of acknowledged ones.                            *)
PowerFailure ==
    /\ "power" \in CrashKinds
    /\ crashes < MaxCrashes
    /\ crashes' = crashes + 1
    /\ \E n \in synced .. size :
          /\ size' = n
          /\ synced' = n
          /\ opened' = n
          /\ acked' = (acked \cap (1 .. n)) \ dropped
    /\ since' = 0
    /\ dropped' = {}
    /\ frame' = [w \in Writers |-> 0]
    /\ UNCHANGED durability

Flush(w) == FlushNotDue(w) \/ FlushDue(w) \/ FlushFails(w)

Next ==
    \/ \E w \in Writers : Append(w) \/ Flush(w)
    \/ IntervalFlush
    \/ CompactionSwap
    \/ CompactionReopen
    \/ CleanRestart
    \/ Kill
    \/ PowerFailure

Spec == Init /\ [][Next]_vars

(* The maintenance thread ticks once a second for as long as the process   *)
(* lives, and a request that has appended runs to its answer.              *)
FairSpec ==
    /\ Spec
    /\ WF_vars(IntervalFlush)
    /\ \A w \in Writers : WF_vars(Flush(w))

-----------------------------------------------------------------------------
(* The type invariant: frame numbers stay within the log.                  *)
TypeOK ==
    /\ durability \in Modes
    /\ size \in Nat
    /\ since \in Nat
    /\ synced \in 0 .. size
    /\ opened \in 0 .. size
    /\ dropped \subseteq 1 .. size
    /\ frame \in [Writers -> 0 .. size]
    /\ acked \subseteq 1 .. size
    /\ crashes \in Nat

(* What the io-threads may leave unflushed between two fsyncs.             *)
LossWindow ==
    IF durability = "interval" THEN size
    ELSE IF durability = "sync" \/ BatchSize = 0 THEN 0
    ELSE BatchSize - 1

(* Frames this process acknowledged and no fsync has covered.              *)
Recent == {p \in acked : p > synced /\ p > opened}

(* Of the writes this process acknowledged since it opened the log, at     *)
(* most fsync_batch_size - 1 (none in sync mode) can be lost to a power    *)
(* failure, whatever the interleaving of appends, group commits, timed     *)
(* flushes and compaction swaps, unless a failed fsync has left frames     *)
(* behind: the shared since_fsync counter of log.c accounts for every      *)
(* frame that is not yet durable.                                          *)
AckedLossBound == dropped = {} => Cardinality(Recent) <= LossWindow

(* In sync mode no acknowledged write is at risk, those acknowledged       *)
(* before a restart included, unless a failed fsync has left frames        *)
(* behind.                                                                 *)
SyncAckedIsDurable ==
    durability = "sync" /\ dropped = {} => \A p \in acked : p <= synced

(* The same with failed fsyncs: "No acknowledged write is ever lost"       *)
(* (architecture.md, of sync mode).                                        *)
SyncNeverLoses ==
    durability = "sync" => \A p \in acked : p <= synced /\ p \notin dropped

(* log_flush_pending under every fault: while it says that writes are      *)
(* pending, an fsync would cover a frame that none has covered yet, so the *)
(* maintenance thread never flushes a clean log.                           *)
PendingIsReal == since > 0 => synced < size

(* In interval mode every acknowledged write is eventually covered by an   *)
(* fsync, or lost to a power failure first: maint_loop does not "leave     *)
(* acknowledged writes unflushed indefinitely".                            *)
AckedEventuallyDurable ==
    \A p \in 1 .. MaxFrames :
        durability = "interval" /\ p \in acked ~> (p \notin acked \/ p <= synced)

(* That holds for the writes of a process that lives on, unless an fsync   *)
(* fails.                                                                  *)
AckedIsFlushed ==
    \A p \in 1 .. MaxFrames :
        durability = "interval" /\ p \in Recent ~> (p \notin Recent \/ dropped # {})
=============================================================================
