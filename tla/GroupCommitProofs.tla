------------------------- MODULE GroupCommitProofs -------------------------
(***************************************************************************)
(* The loss bounds of GroupCommit, for any number of writers, any batch    *)
(* size and any number of frames, crashes and failing fsyncs.              *)
(***************************************************************************)
EXTENDS GroupCommit, FiniteSetTheorems, TLAPS

(* since_fsync counts the frames of this process that no fsync covers.     *)
CounterExact == since = size - Larger(synced, opened)

(* A frame that waits for its answer was appended by this process.         *)
FrameFresh == \A w \in Writers : frame[w] # 0 => frame[w] > opened

(* In sync mode an acknowledged frame is covered by an fsync.              *)
SyncCovered == durability = "sync" => \A p \in acked : p <= synced

RecentBound == IsFiniteSet(Recent) /\ Cardinality(Recent) <= LossWindow

(* The inductive invariant: the loss bound alone is not preserved by a     *)
(* flush that is not due, which adds a frame to the acknowledged ones;     *)
(* CounterExact says how many frames there can be then.  A failed fsync    *)
(* may suspend these parts, until a compaction swap or a power failure     *)
(* leaves no dropped frame.                                                *)
Accounted == CounterExact /\ SyncCovered /\ RecentBound

IInv ==
    /\ TypeOK
    /\ FrameFresh
    /\ dropped = {} => Accounted

-----------------------------------------------------------------------------
(* A set of frame numbers above a and up to b has at most b - a members.   *)
LEMMA IntervalSubset ==
    ASSUME NEW a \in Nat, NEW b \in Nat, a <= b,
           NEW S \in SUBSET (a + 1 .. b)
    PROVE  IsFiniteSet(S) /\ Cardinality(S) \in Nat /\ Cardinality(S) <= b - a
<1>1. IsFiniteSet(a + 1 .. b) /\ Cardinality(a + 1 .. b) = b - a
  <2>1. a + 1 \in Int /\ b \in Int
    OBVIOUS
  <2>2. /\ IsFiniteSet(a + 1 .. b)
        /\ Cardinality(a + 1 .. b) = IF a + 1 > b THEN 0 ELSE b - (a + 1) + 1
    BY <2>1, FS_Interval
  <2> QED
    BY <2>2
<1>2. IsFiniteSet(S) /\ Cardinality(S) <= Cardinality(a + 1 .. b)
  BY <1>1, FS_Subset
<1>3. Cardinality(S) \in Nat
  BY <1>2, FS_CardinalityType
<1> QED
  BY <1>1, <1>2, <1>3

(* LossWindow is a natural number, and a longer log does not narrow it.    *)
LEMMA LossWindowNat ==
    ASSUME TypeOK PROVE LossWindow \in Nat
BY ConfigAssumption DEF LossWindow, TypeOK

(* Removing frames from Recent preserves RecentBound.                      *)
LEMMA RecentShrinks ==
    ASSUME TypeOK, RecentBound, Recent' \subseteq Recent,
           LossWindow' \in Nat, LossWindow <= LossWindow'
    PROVE  RecentBound'
<1>1. IsFiniteSet(Recent)
  BY DEF RecentBound
<1>2. IsFiniteSet(Recent') /\ Cardinality(Recent') <= Cardinality(Recent)
  BY <1>1, FS_Subset
<1>3. Cardinality(Recent) \in Nat /\ Cardinality(Recent') \in Nat
  BY <1>1, <1>2, FS_CardinalityType
<1> QED
  BY <1>2, <1>3, LossWindowNat DEF RecentBound

(* Once everything is fsynced, or a new process has opened the log, no     *)
(* acknowledged frame of this process is uncovered and the bound holds.    *)
LEMMA EmptyRecent ==
    ASSUME TypeOK', synced' = size' \/ opened' = size' PROVE RecentBound'
<1>1. LossWindow' \in Nat
  BY ConfigAssumption DEF LossWindow, TypeOK
<1>2. ASSUME NEW p \in acked', p > synced', p > opened' PROVE FALSE
  <2>1. p \in Nat /\ p <= size' /\ size' \in Nat
    BY <1>2 DEF TypeOK
  <2> QED
    BY <1>2, <2>1
<1>3. Recent' = {}
  BY <1>2 DEF Recent
<1> QED
  BY <1>1, <1>3, FS_EmptySet DEF RecentBound

(* The steps that cover the whole log with a successful fsync.             *)
LEMMA SyncedStep ==
    ASSUME IInv,
           size' = size, synced' = size, since' = 0,
           dropped' = dropped \/ dropped' = {},
           opened' = opened \/ opened' = size,
           UNCHANGED <<durability, crashes>>,
           frame' \in [Writers -> 0 .. size], FrameFresh',
           acked' \subseteq 1 .. size
    PROVE  IInv'
<1>1. TypeOK'
  <2>1. TypeOK
    BY DEF IInv
  <2>2. dropped' \subseteq 1 .. size'
    <3>1. CASE dropped' = dropped
      BY <2>1, <3>1 DEF TypeOK
    <3>2. CASE dropped' = {}
      BY <3>2
    <3> QED
      BY <3>1, <3>2
  <2> QED
    BY <2>1, <2>2 DEF TypeOK
<1>2. CounterExact'
  BY DEF IInv, TypeOK, CounterExact, Larger
<1>3. SyncCovered'
  <2> SUFFICES ASSUME NEW p \in acked' PROVE p <= synced'
    BY DEF SyncCovered
  <2> QED
    BY DEF IInv, TypeOK
<1> QED
  BY <1>1, <1>2, <1>3, EmptyRecent DEF IInv, Accounted

(* The steps in which an fsync fails.  When it leaves no frame behind,     *)
(* everything was covered before.                                          *)
LEMMA ErrorStep ==
    ASSUME IInv, FsyncError,
           size' = size, since' = since \/ since' = 0,
           opened' = opened \/ opened' = size,
           UNCHANGED <<durability, acked, crashes>>,
           frame' \in [Writers -> 0 .. size], FrameFresh'
    PROVE  IInv'
<1>1. TypeOK'
  BY DEF IInv, TypeOK, FsyncError
<1>2. ASSUME dropped' = {} PROVE Accounted'
  <2>1. dropped = {} /\ synced + 1 .. size = {}
    BY <1>2 DEF FsyncError
  <2>2. synced = size /\ synced' = size
    <3>1. synced \in 0 .. size /\ size \in Nat
      BY DEF IInv, TypeOK
    <3>2. synced < size => size \in synced + 1 .. size
      BY <3>1
    <3> QED
      BY <2>1, <3>1, <3>2 DEF FsyncError
  <2>3. CounterExact'
    BY <2>1, <2>2 DEF IInv, Accounted, CounterExact, Larger, TypeOK
  <2>4. SyncCovered'
    BY <2>2 DEF SyncCovered, IInv, TypeOK
  <2> QED
    BY <1>1, <2>2, <2>3, <2>4, EmptyRecent DEF Accounted
<1> QED
  BY <1>1, <1>2 DEF IInv

(* A log just opened has the inductive invariant.                          *)
LEMMA InitIInv == Init => IInv
<1> SUFFICES ASSUME Init PROVE IInv
  OBVIOUS
<1>1. TypeOK /\ CounterExact /\ FrameFresh /\ SyncCovered
  BY DEF Init, TypeOK, CounterExact, FrameFresh, SyncCovered, Larger
<1>2. Recent = {}
  BY DEF Init, Recent
<1>3. RecentBound
  BY <1>1, <1>2, FS_EmptySet, LossWindowNat DEF RecentBound
<1> QED
  BY <1>1, <1>3 DEF IInv, Accounted

(* Every append, flush, fsync and crash preserves it, action by action.    *)
LEMMA NextIInv ==
    ASSUME IInv, [Next]_vars PROVE IInv'
<1> USE ConfigAssumption DEF IInv
<1>1. ASSUME NEW w \in Writers, Append(w) PROVE IInv'
  <2>1. TypeOK' /\ FrameFresh'
    BY <1>1 DEF Append, TypeOK, FrameFresh
  <2>2. ASSUME dropped' = {} PROVE Accounted'
    <3>1. Accounted
      BY <1>1, <2>2 DEF Append
    <3>2. CounterExact' /\ SyncCovered'
      BY <1>1, <3>1 DEF Append, Accounted, TypeOK, CounterExact, SyncCovered,
                        Larger
    <3>3. Recent' \subseteq Recent
      BY <1>1 DEF Append, Recent
    <3>4. LossWindow <= LossWindow' /\ LossWindow' \in Nat
      BY <1>1 DEF Append, LossWindow, TypeOK
    <3> QED
      BY <3>1, <3>2, <3>3, <3>4, RecentShrinks DEF Accounted
  <2> QED
    BY <2>1, <2>2
<1>2. ASSUME NEW w \in Writers, FlushNotDue(w) PROVE IInv'
  <2>1. TypeOK' /\ FrameFresh'
    <3>1. frame[w] \in 1 .. size
      BY <1>2 DEF FlushNotDue, TypeOK
    <3>2. acked' \subseteq 1 .. size'
      BY <1>2, <3>1 DEF FlushNotDue, TypeOK
    <3>3. frame' \in [Writers -> 0 .. size']
      BY <1>2 DEF FlushNotDue, TypeOK
    <3>4. TypeOK'
      BY <1>2, <3>2, <3>3 DEF FlushNotDue, TypeOK
    <3>5. FrameFresh'
      BY <1>2 DEF FlushNotDue, TypeOK, FrameFresh
    <3> QED
      BY <3>4, <3>5
  <2>2. ASSUME dropped' = {} PROVE Accounted'
    <3>0. Accounted
      BY <1>2, <2>2 DEF FlushNotDue
    <3>1. CounterExact'
      BY <1>2, <3>0 DEF FlushNotDue, Accounted, CounterExact, Larger
    <3>2. SyncCovered'
      BY <1>2, <3>0 DEF FlushNotDue, FsyncDue, TypeOK, Accounted, CounterExact,
                        FrameFresh, SyncCovered, Larger
    <3>3. RecentBound'
      <4> DEFINE b == Larger(synced, opened)
      <4>1. b \in Nat /\ b <= size /\ since = size - b
        BY <3>0 DEF TypeOK, Accounted, CounterExact, Larger
      <4>2. Recent' \in SUBSET (b + 1 .. size)
        BY <1>2, <2>1 DEF FlushNotDue, Recent, TypeOK, Larger
      <4>3. /\ IsFiniteSet(Recent')
            /\ Cardinality(Recent') \in Nat
            /\ Cardinality(Recent') <= since
        <5> HIDE DEF b
        <5>1. size \in Nat
          BY DEF TypeOK
        <5> QED
          BY <4>1, <4>2, <5>1, IntervalSubset
      <4>4. since <= LossWindow' /\ LossWindow' \in Nat
        BY <1>2, <4>1 DEF FlushNotDue, FsyncDue, LossWindow, TypeOK
      <4> QED
        BY <4>3, <4>4 DEF RecentBound, TypeOK
    <3> QED
      BY <3>1, <3>2, <3>3 DEF Accounted
  <2> QED
    BY <2>1, <2>2
<1>3. ASSUME NEW w \in Writers, FlushDue(w) PROVE IInv'
  <2>1. frame' \in [Writers -> 0 .. size] /\ FrameFresh'
    BY <1>3 DEF FlushDue, TypeOK, FrameFresh
  <2>2. acked' \subseteq 1 .. size
    <3>1. frame[w] \in 1 .. size
      BY <1>3 DEF FlushDue, TypeOK
    <3> QED
      BY <1>3, <3>1 DEF FlushDue, TypeOK
  <2> QED
    BY <1>3, <2>1, <2>2, SyncedStep DEF FlushDue, FsyncOk
<1>4. ASSUME NEW w \in Writers, FlushFails(w) PROVE IInv'
  <2>1. frame' \in [Writers -> 0 .. size] /\ FrameFresh'
    BY <1>4 DEF FlushFails, TypeOK, FrameFresh
  <2> QED
    BY <1>4, <2>1, ErrorStep DEF FlushFails
<1>5. CASE IntervalFlush
  <2>1. CASE FsyncOk /\ since' = 0
    BY <1>5, <2>1, SyncedStep DEF IntervalFlush, FsyncOk, TypeOK, FrameFresh
  <2>2. CASE FsyncError /\ since' = since
    BY <1>5, <2>2, ErrorStep DEF IntervalFlush, TypeOK, FrameFresh
  <2> QED
    BY <1>5, <2>1, <2>2 DEF IntervalFlush
<1>6. CASE CompactionSwap
  BY <1>6, SyncedStep DEF CompactionSwap, TypeOK, FrameFresh
<1>7. CASE CompactionReopen
  <2>1. CASE FsyncOk
    BY <1>7, <2>1, SyncedStep DEF CompactionReopen, FsyncOk, TypeOK, FrameFresh
  <2>2. CASE FsyncError
    BY <1>7, <2>2, ErrorStep DEF CompactionReopen, TypeOK, FrameFresh
  <2> QED
    BY <1>7, <2>1, <2>2 DEF CompactionReopen
<1>8. CASE CleanRestart
  <2>0. FrameFresh'
    BY <1>8 DEF CleanRestart, FrameFresh
  <2>1. CASE FsyncOk
    BY <1>8, <2>0, <2>1, SyncedStep DEF CleanRestart, FsyncOk, TypeOK
  <2>2. CASE FsyncError
    BY <1>8, <2>0, <2>2, ErrorStep DEF CleanRestart, TypeOK
  <2> QED
    BY <1>8, <2>1, <2>2 DEF CleanRestart
<1>9. CASE Kill
  <2>1. TypeOK' /\ FrameFresh'
    BY <1>9 DEF Kill, TypeOK, FrameFresh
  <2>2. ASSUME dropped' = {} PROVE CounterExact' /\ SyncCovered'
    BY <1>9, <2>2 DEF Kill, TypeOK, Accounted, CounterExact, SyncCovered, Larger
  <2>3. opened' = size'
    BY <1>9 DEF Kill
  <2> QED
    BY <2>1, <2>2, <2>3, EmptyRecent DEF Accounted
<1>10. CASE PowerFailure
  <2>1. PICK n \in synced .. size :
           /\ size' = n /\ synced' = n /\ opened' = n
           /\ acked' = (acked \cap (1 .. n)) \ dropped
    BY <1>10 DEF PowerFailure
  <2>2. TypeOK' /\ FrameFresh' /\ CounterExact' /\ SyncCovered'
    BY <1>10, <2>1 DEF PowerFailure, TypeOK, CounterExact, FrameFresh,
                       SyncCovered, Larger
  <2> QED
    BY <2>1, <2>2, EmptyRecent DEF Accounted
<1>11. CASE UNCHANGED vars
  BY <1>11 DEF vars, TypeOK, Accounted, CounterExact, FrameFresh, SyncCovered,
               RecentBound, Recent, LossWindow
<1> QED
  BY <1>1, <1>2, <1>3, <1>4, <1>5, <1>6, <1>7, <1>8, <1>9, <1>10, <1>11
     DEF Next, Flush

-----------------------------------------------------------------------------
(* Frame numbers stay within the log, in every mode and for every size.    *)
THEOREM TypeCorrect == Spec => []TypeOK
<1>1. IInv => TypeOK
  BY DEF IInv
<1> QED
  BY <1>1, InitIInv, NextIInv, PTL DEF Spec

(* The group commit of log.c loses at most fsync_batch_size - 1 of the     *)
(* writes this process acknowledged, and none in sync mode, unless a       *)
(* failed fsync has left frames behind.                                    *)
THEOREM LossBounded == Spec => []AckedLossBound
<1>1. IInv => AckedLossBound
  BY DEF IInv, AckedLossBound, Accounted, RecentBound
<1> QED
  BY <1>1, InitIInv, NextIInv, PTL DEF Spec

(* In sync mode an acknowledged write survives any crash, for good, unless *)
(* a failed fsync has left frames behind.                                  *)
THEOREM SyncDurable == Spec => []SyncAckedIsDurable
<1>1. IInv => SyncAckedIsDurable
  BY DEF IInv, SyncAckedIsDurable, Accounted, SyncCovered
<1> QED
  BY <1>1, InitIInv, NextIInv, PTL DEF Spec

(* since_fsync is positive only while a frame is uncovered, after failed   *)
(* fsyncs too, where CounterExact says nothing: log_flush_pending never    *)
(* sends the maintenance thread to a clean log.                            *)
THEOREM PendingNeverStale == Spec => []PendingIsReal
<1>1. Init => PendingIsReal
  BY DEF Init, PendingIsReal
<1>2. ASSUME IInv, PendingIsReal, [Next]_vars PROVE PendingIsReal'
  <2>0. TypeOK
    BY <1>2 DEF IInv
  <2>1. ASSUME NEW w \in Writers, Append(w) PROVE PendingIsReal'
    BY <2>0, <2>1 DEF Append, TypeOK, PendingIsReal
  <2>2. ASSUME NEW w \in Writers, Flush(w) PROVE PendingIsReal'
    BY <1>2, <2>2
       DEF Flush, FlushNotDue, FlushDue, FlushFails, FsyncError, PendingIsReal
  <2>3. CASE IntervalFlush \/ CompactionSwap \/ CompactionReopen \/ CleanRestart
    BY <1>2, <2>3 DEF IntervalFlush, CompactionSwap, CompactionReopen, CleanRestart,
                      FsyncError, PendingIsReal
  <2>4. CASE Kill \/ PowerFailure
    BY <2>4 DEF Kill, PowerFailure, PendingIsReal
  <2>5. CASE UNCHANGED vars
    BY <1>2, <2>5 DEF vars, PendingIsReal
  <2> QED
    BY <1>2, <2>1, <2>2, <2>3, <2>4, <2>5 DEF Next
<1> QED
  BY <1>1, <1>2, InitIInv, NextIInv, PTL DEF Spec
=============================================================================
