--------------------------- MODULE StorageProofs ---------------------------
(***************************************************************************)
(* The index, the log and the ids of the storage engine, for any number of *)
(* records, writes, compactions, crashes and damaged frames: the inductive *)
(* invariant, lemmas about the operators of Storage, the part of the       *)
(* invariant that holds whatever checkpoint recovery trusts, the steps of  *)
(* the write path, flushes, checkpoints, compaction, crashes and recovery, *)
(* and the theorems.                                                       *)
(***************************************************************************)
EXTENDS Storage, TLAPS
LOCAL INSTANCE WellFoundedInduction

AnyFrame == Frame \cup {Bad}
Logs == Seq(AnyFrame)
Entry == [off : Nat, del : BOOLEAN]
Index == [Ids -> Entry]
Loc == [id : 0 .. MaxId, del : BOOLEAN]
Locs == Seq(Loc)
Checkpoints ==
    {NoCkpt} \cup [covered : Nat, nextId : Nat, hash : Index, over : Logs]
Compactions ==
    [pc : {"idle", "copy", "copied", "renamed", "installed"},
     snap : Index \cup {<<>>}, end : Nat, new : Logs, locs : Locs]
SwappedOut == [log : Logs, since : SUBSET Ids]

Types ==
    /\ up \in BOOLEAN /\ stale \in BOOLEAN
    /\ log \in Logs
    /\ synced \in 0 .. Len(log)
    /\ hash \in Index
    /\ nextId \in Nat /\ meta \in Nat /\ topId \in Nat
    /\ pending \in SUBSET Ids
    /\ stamp \in 0 .. MaxWrites
    /\ ckpt \in Checkpoints /\ oldCkpts \in SUBSET Checkpoints
    /\ oldLogs \in SUBSET SwappedOut /\ undone \in SUBSET Ids
    /\ comp \in Compactions
    /\ comp.pc = "copy" => comp.snap \in Index
    /\ durable \in [Ids -> 0 .. MaxWrites]

(* Frame k is the last one of record i among the first n frames of l; 0    *)
(* when there is none.                                                     *)
IsLast(l, i, n, k) ==
    \/ k = 0 /\ \A j \in 1 .. n : l[j].id # i
    \/ k \in 1 .. n /\ l[k].id = i /\ \A j \in k + 1 .. n : l[j].id # i

(* Entry e of an index is what a scan of the first n frames of l gives     *)
(* record i, ...                                                           *)
IsEntry(e, l, i, n) ==
    IsLast(l, i, n, e.off) /\ e.del = IF e.off = 0 THEN FALSE ELSE l[e.off].del

(* ... and v the version a reader sees then, 0 for none.                   *)
Sees(v, l, i, n) ==
    \E k \in 0 .. n :
        IsLast(l, i, n, k) /\ v = IF k = 0 \/ l[k].del THEN 0 ELSE l[k].stamp

(* A power failure damages frames, and all frames that survive it are on   *)
(* stable storage.                                                         *)
DamageIsSynced == \A k \in synced + 1 .. Len(log) : Good(log[k])

Stopped == ~up => comp = Idle /\ pending = {}

IndexRight == Quiet => \A i \in Ids : IsEntry(hash[i], log, i, Len(log))

DurableInLog == \A i \in Ids \ undone : Sees(durable[i], log, i, synced)

(* A checkpoint is the index of the log it was made over, with a next_id   *)
(* above the ids in it.                                                    *)
CkptRight(c) ==
    c # NoCkpt =>
        /\ c.covered = Len(c.over)
        /\ c.hash \in Index
        /\ \A i \in Ids : IsEntry(c.hash[i], c.over, i, Len(c.over))
        /\ c.nextId # 0
        /\ \A k \in 1 .. Len(c.over) : c.over[k].id < c.nextId

(* A log that was swapped out shows the durable records, but for those     *)
(* that were written and fsynced after it went.                            *)
OldLogsRight ==
    \A u \in oldLogs : \A i \in Ids \ (u.since \cup undone) :
        Sees(durable[i], u.log, i, Len(u.log))

FilesRight ==
    /\ CkptRight(ckpt) /\ \A c \in oldCkpts : CkptRight(c)
    /\ OldLogsRight

(* The snapshot is the index of the log up to where it ended; ...          *)
SnapshotRight ==
    comp.pc = "copy" =>
        /\ comp.end <= Len(log)
        /\ \A i \in Ids : IsEntry(comp.snap[i], log, i, comp.end)

(* ... every copy is the last version before that, of a record that was    *)
(* not deleted, and no such record is left out; ...                        *)
CopiesRight ==
    comp.pc = "copied" =>
        /\ comp.end <= Len(log)
        /\ Len(comp.locs) = Len(comp.new)
        /\ \A p \in 1 .. Len(comp.new) :
             /\ comp.locs[p] = [id |-> comp.new[p].id, del |-> FALSE]
             /\ \E k \in 1 .. comp.end :
                  /\ comp.new[p] = log[k] /\ Good(log[k]) /\ ~log[k].del
                  /\ IsLast(log, log[k].id, comp.end, k)
        /\ \A i \in Ids : \A k \in 1 .. comp.end :
             IsLast(log, i, comp.end, k) /\ ~log[k].del =>
                 \E p \in 1 .. Len(comp.new) : comp.new[p].id = i

(* ... and after the swap the locations describe the new log.              *)
SwapRight ==
    comp.pc = "renamed" =>
        /\ synced = Len(log)
        /\ Len(comp.locs) = Len(log)
        /\ \A k \in 1 .. Len(log) : comp.locs[k] = [id |-> log[k].id, del |-> log[k].del]

IdsBelow ==
    up => /\ nextId # 0 /\ meta <= nextId
          /\ \A k \in 1 .. Len(log) : log[k].id < nextId
          /\ \A i \in pending : i < nextId

Right ==
    /\ IndexRight
    /\ DurableInLog
    /\ FilesRight
    /\ SnapshotRight /\ CopiesRight /\ SwapRight
    /\ IdsBelow

IInv ==
    /\ Types
    /\ DamageIsSynced
    /\ Stopped
    /\ ~stale => Right

-----------------------------------------------------------------------------
(* Every non-empty set of natural numbers has a least element.             *)
LEMMA LeastNatural ==
    ASSUME NEW T \in SUBSET Nat, T # {}
    PROVE  \E x \in T : \A y \in T : x <= y
<1> DEFINE R == OpToRel(<, Nat)
<1>1. IsWellFoundedOn(R, Nat)
  BY Zenon, NatLessThanWellFounded
<1>2. \A a, b \in Nat : a < b => <<a, b>> \in R
  BY Zenon DEF OpToRel
<1> HIDE DEF R
<1>3. PICK x \in T : \A y \in T : ~ (<<y, x>> \in R)
  BY Zenon, <1>1, WFMin
<1>4. \A y \in T : ~ (y < x)
  BY Zenon, <1>2, <1>3
<1> QED
  BY <1>4

(* SetMax is the greatest element of a bounded set.                        *)
LEMMA SetMaxIsMax ==
    ASSUME NEW n \in Nat, NEW S \in SUBSET (0 .. n), S # {}, NEW d
    PROVE  SetMax(S, d) \in S /\ \A y \in S : y <= SetMax(S, d)
<1> DEFINE T == {n - x : x \in S}
<1>0. \A x \in S : x \in 0 .. n /\ n - x \in Nat
  OBVIOUS
<1>1. T \in SUBSET Nat /\ T # {}
  BY Zenon, <1>0
<1>2. PICK t \in T : \A y \in T : t <= y
  BY Zenon, <1>1, LeastNatural
<1>3. PICK x \in S : t = n - x
  BY Zenon, <1>2
<1>4. \A y \in S : y <= x
  <2>1. \A y \in S : n - y \in T
    BY Zenon
  <2>2. \A y \in S : n - x <= n - y /\ y \in Nat
    BY <1>2, <1>3, <2>1
  <2> HIDE DEF T
  <2> QED
    BY <2>2
<1> QED
  BY Zenon, <1>3, <1>4 DEF SetMax

(* The last frame of a record is unique.                                   *)
LEMMA LastUnique ==
    ASSUME NEW l, NEW i, NEW n \in Nat, NEW k \in Nat, NEW j \in Nat,
           IsLast(l, i, n, k), IsLast(l, i, n, j)
    PROVE  k = j
BY DEF IsLast

(* Every record has a last frame, or none.                                 *)
LEMMA LastExists ==
    ASSUME NEW l, NEW i, NEW n \in Nat
    PROVE  \E k \in 0 .. n : IsLast(l, i, n, k)
<1> DEFINE S == {j \in 1 .. n : l[j].id = i}
<1>1. CASE S = {}
  <2>1. IsLast(l, i, n, 0)
    BY Zenon, <1>1 DEF IsLast
  <2> QED
    BY <2>1
<1>2. CASE S # {}
  <2>1. S \in SUBSET (0 .. n)
    OBVIOUS
  <2>2. PICK k \in S : \A y \in S : y <= k
    <3> HIDE DEF S
    <3> QED
      BY Zenon, <1>2, <2>1, SetMaxIsMax
  <2>3. IsLast(l, i, n, k) /\ k \in 0 .. n
    BY <2>2 DEF IsLast
  <2> QED
    BY Zenon, <2>3
<1> QED
  BY Zenon, <1>1, <1>2

(* What LastOf computes.                                                   *)
LEMMA LastOfIs ==
    ASSUME NEW l, Len(l) \in Nat, NEW i, NEW from \in 0 .. Len(l)
    PROVE  /\ LastOf(l, i, from) \in {0} \cup (from + 1 .. Len(l))
           /\ LastOf(l, i, from) = 0 => \A j \in from + 1 .. Len(l) : l[j].id # i
           /\ LastOf(l, i, from) # 0 => IsLast(l, i, Len(l), LastOf(l, i, from))
<1> DEFINE S == {j \in from + 1 .. Len(l) : l[j].id = i}
<1>1. LastOf(l, i, from) = SetMax(S, 0)
  BY Zenon DEF LastOf
<1>2. CASE S = {}
  <2>1. SetMax(S, 0) = 0
    BY Zenon, <1>2 DEF SetMax
  <2>2. \A j \in from + 1 .. Len(l) : l[j].id # i
    BY Zenon, <1>2
  <2> HIDE DEF S
  <2> QED
    BY Zenon, <1>1, <2>1, <2>2
<1>3. CASE S # {}
  <2>1. S \in SUBSET (0 .. Len(l))
    OBVIOUS
  <2>2. PICK k \in S : k = LastOf(l, i, from) /\ \A y \in S : y <= k
    <3> HIDE DEF S
    <3> QED
      BY Zenon, <1>1, <1>3, <2>1, SetMaxIsMax
  <2>3. IsLast(l, i, Len(l), k) /\ k \in from + 1 .. Len(l)
    BY <2>2 DEF IsLast
  <2> QED
    BY <2>2, <2>3
<1> QED
  BY Zenon, <1>2, <1>3

(* Frames of other records do not matter.                                  *)
LEMMA LastOverlay ==
    ASSUME NEW l, NEW i, NEW n \in Nat, NEW m \in 0 .. n, NEW k \in Nat,
           \A j \in m + 1 .. n : l[j].id # i
    PROVE  IsLast(l, i, m, k) <=> IsLast(l, i, n, k)
BY DEF IsLast

(* Logs with the same first n frames.                                      *)
LEMMA SameFrames ==
    ASSUME NEW l, NEW m, NEW n \in Nat, \A j \in 1 .. n : l[j] = m[j], NEW i
    PROVE  /\ \A k \in Nat : IsLast(l, i, n, k) <=> IsLast(m, i, n, k)
           /\ \A e \in Entry : IsEntry(e, l, i, n) <=> IsEntry(e, m, i, n)
           /\ \A v : Sees(v, l, i, n) <=> Sees(v, m, i, n)
<1>1. \A k \in Nat : IsLast(l, i, n, k) <=> IsLast(m, i, n, k)
  BY DEF IsLast
<1>2. \A e \in Entry : IsEntry(e, l, i, n) <=> IsEntry(e, m, i, n)
  <2> TAKE e \in Entry
  <2>1. e.off \in Nat /\ (IsLast(l, i, n, e.off) <=> IsLast(m, i, n, e.off))
    BY Zenon, <1>1 DEF Entry
  <2>2. IsLast(l, i, n, e.off) /\ e.off # 0 => l[e.off] = m[e.off]
    BY Zenon, <2>1 DEF IsLast
  <2> QED
    BY Zenon, <2>1, <2>2 DEF IsEntry
<1>3. \A v : Sees(v, l, i, n) <=> Sees(v, m, i, n)
  <2> TAKE v
  <2>1. \A k \in 0 .. n : k # 0 => l[k] = m[k]
    OBVIOUS
  <2>2. \A k \in 0 .. n : IsLast(l, i, n, k) <=> IsLast(m, i, n, k)
    BY <1>1
  <2> QED
    BY Zenon, <2>1, <2>2 DEF Sees
<1> QED
  BY Zenon, <1>1, <1>2, <1>3

(* A reader sees one version.                                              *)
LEMMA SeesUnique ==
    ASSUME NEW l, NEW i, NEW n \in Nat, NEW v, NEW w,
           Sees(v, l, i, n), Sees(w, l, i, n)
    PROVE  v = w
<1>1. PICK k \in 0 .. n :
        IsLast(l, i, n, k) /\ v = IF k = 0 \/ l[k].del THEN 0 ELSE l[k].stamp
  BY Zenon DEF Sees
<1>2. PICK j \in 0 .. n :
        IsLast(l, i, n, j) /\ w = IF j = 0 \/ l[j].del THEN 0 ELSE l[j].stamp
  BY Zenon DEF Sees
<1>3. k = j
  BY <1>1, <1>2, LastUnique
<1> QED
  BY Zenon, <1>1, <1>2, <1>3

(* An index entry is what a full scan gives.                               *)
LEMMA EntryIsScan ==
    ASSUME NEW l, Len(l) \in Nat, NEW i, NEW e \in Entry, IsEntry(e, l, i, Len(l))
    PROVE  e = LET k == LastOf(l, i, 0) IN IF k = 0 THEN NoEntry ELSE EntryAt(l, k)
<1> DEFINE k == LastOf(l, i, 0)
<1>1. /\ k \in {0} \cup (0 + 1 .. Len(l))
      /\ k = 0 => \A j \in 0 + 1 .. Len(l) : l[j].id # i
      /\ k # 0 => IsLast(l, i, Len(l), k)
  BY LastOfIs
<1>2. k \in Nat /\ IsLast(l, i, Len(l), k)
  BY <1>1 DEF IsLast
<1>3. e.off = k /\ e.off \in Nat /\ e = [off |-> e.off, del |-> e.del]
  BY Zenon, <1>2, LastUnique DEF IsEntry, Entry
<1> QED
  BY Zenon, <1>3 DEF IsEntry, NoEntry, EntryAt

-----------------------------------------------------------------------------
(* The fields of a frame.                                                  *)
LEMMA FrameFields ==
    ASSUME NEW f \in AnyFrame
    PROVE  /\ f.id \in 0 .. MaxId /\ f.stamp \in 0 .. MaxWrites /\ f.del \in BOOLEAN
           /\ Good(f) => f \in Frame /\ f.id \in Ids
<1>1. CASE f \in Frame
  BY <1>1, StorageAssumption DEF Frame, Good, Ids
<1>2. CASE f = Bad
  BY <1>2, StorageAssumption DEF Bad, Good, Ids
<1> QED
  BY Zenon, <1>1, <1>2 DEF AnyFrame

(* The frames of a log.                                                    *)
LEMMA LogFrames ==
    ASSUME NEW l \in Logs
    PROVE  /\ Len(l) \in Nat /\ DOMAIN l = 1 .. Len(l)
           /\ \A k \in 1 .. Len(l) : l[k] \in AnyFrame /\ l[k].id \in 0 .. MaxId
BY FrameFields DEF Logs

(* The frame a write appends.                                              *)
LEMMA AppendedFrame ==
    ASSUME Types, NEW i \in Ids, NEW d \in BOOLEAN, AppendAndHash(i, d)
    PROVE  LET f == [id |-> i, stamp |-> stamp + 1, del |-> d] IN
           /\ f \in Frame /\ f.id = i /\ f.del = d /\ Good(f)
           /\ log' = Append(log, f) /\ log' \in Logs
           /\ Len(log') = Len(log) + 1 /\ log'[Len(log) + 1] = f
           /\ \A k \in 1 .. Len(log) : log'[k] = log[k]
           /\ hash' = [hash EXCEPT ![i] = [off |-> Len(log) + 1, del |-> d]]
           /\ hash' \in Index
           /\ stamp' \in 0 .. MaxWrites
<1> DEFINE f == [id |-> i, stamp |-> stamp + 1, del |-> d]
<1>1. f \in Frame /\ f.id = i /\ f.del = d /\ Good(f) /\ stamp' \in 0 .. MaxWrites
  BY StorageAssumption DEF AppendAndHash, Types, Frame, Good, Ids
<1>2. f \in AnyFrame /\ log \in Seq(AnyFrame) /\ log' = Append(log, f)
  BY Zenon, <1>1 DEF AppendAndHash, AnyFrame, Types, Logs
<1> HIDE DEF f
<1>3. /\ log' \in Logs /\ Len(log') = Len(log) + 1 /\ log'[Len(log) + 1] = f
      /\ \A k \in 1 .. Len(log) : log'[k] = log[k]
  BY <1>2 DEF Logs
<1>4. [off |-> Len(log) + 1, del |-> d] \in Entry
  BY LogFrames DEF Types, Entry
<1>5. /\ hash' = [hash EXCEPT ![i] = [off |-> Len(log) + 1, del |-> d]]
      /\ hash' \in Index
  BY Zenon, <1>4 DEF AppendAndHash, Types, Index
<1> USE DEF f
<1> QED
  BY Zenon, <1>1, <1>2, <1>3, <1>5

(* What a reader is to see is a version.                                   *)
LEMMA ExpectedType ==
    ASSUME Types, NEW i \in Ids
    PROVE  Expected(i) \in 0 .. MaxWrites
<1>1. LastOf(log, i, synced) \in {0} \cup (synced + 1 .. Len(log))
  BY Zenon, LastOfIs, LogFrames DEF Types
<1>2. LastOf(log, i, synced) # 0 => log[LastOf(log, i, synced)] \in AnyFrame
  BY <1>1, LogFrames DEF Types
<1> QED
  BY <1>2, FrameFields, StorageAssumption DEF Expected, Types

(* The greatest id of a log and a seed.                                    *)
LEMMA GreatestId ==
    ASSUME NEW l \in Logs, NEW from \in 0 .. Len(l), NEW t \in Nat
    PROVE  /\ SetMax({t} \cup {l[k].id : k \in from + 1 .. Len(l)}, 0) \in Nat
           /\ t <= SetMax({t} \cup {l[k].id : k \in from + 1 .. Len(l)}, 0)
           /\ \A k \in from + 1 .. Len(l) :
                l[k].id <= SetMax({t} \cup {l[j].id : j \in from + 1 .. Len(l)}, 0)
<1> DEFINE S == {t} \cup {l[k].id : k \in from + 1 .. Len(l)}
<1>1. \A k \in from + 1 .. Len(l) : l[k].id \in 0 .. MaxId
  BY LogFrames
<1>2. S \in SUBSET (0 .. t + MaxId) /\ S # {} /\ t + MaxId \in Nat
  BY <1>1, StorageAssumption
<1>3. t \in S /\ \A k \in from + 1 .. Len(l) : l[k].id \in S
  BY Zenon
<1>a. \A y \in S : y \in Nat
  BY <1>1, StorageAssumption
<1> HIDE DEF S
<1>4. SetMax(S, 0) \in S /\ \A y \in S : y <= SetMax(S, 0)
  BY Zenon, <1>2, SetMaxIsMax
<1>5. SetMax(S, 0) \in Nat
  BY Zenon, <1>a, <1>4
<1>6. /\ SetMax(S, 0) \in Nat /\ t <= SetMax(S, 0)
      /\ \A k \in from + 1 .. Len(l) : l[k].id <= SetMax(S, 0)
  BY Zenon, <1>3, <1>4, <1>5
<1> QED
  BY Zenon, <1>6 DEF S

(* The greater of two numbers.                                             *)
LEMMA GreaterOf ==
    ASSUME NEW a \in Nat, NEW b \in Nat
    PROVE  SetMax({a, b}, 0) \in Nat /\ a <= SetMax({a, b}, 0) /\ b <= SetMax({a, b}, 0)
<1>1. {a, b} \in SUBSET (0 .. a + b) /\ {a, b} # {} /\ a + b \in Nat
  OBVIOUS
<1>2. SetMax({a, b}, 0) \in {a, b} /\ \A y \in {a, b} : y <= SetMax({a, b}, 0)
  BY Zenon, <1>1, SetMaxIsMax
<1> QED
  BY Zenon, <1>2

(* A flush of the log keeps the types of the history variables.            *)
LEMMA MakeDurableTypes ==
    ASSUME Types, MakeDurable
    PROVE  /\ durable' \in [Ids -> 0 .. MaxWrites] /\ topId' \in Nat
           /\ undone' \in SUBSET Ids
           /\ OldLogsLag \in SUBSET SwappedOut
<1>1. durable' \in [Ids -> 0 .. MaxWrites]
  BY Zenon, ExpectedType DEF MakeDurable
<1>2. 0 \in 0 .. Len(log) /\ topId \in Nat /\ log \in Logs
  BY LogFrames DEF Types
<1>3. SetMax({topId} \cup {log[k].id : k \in 0 + 1 .. Len(log)}, 0) \in Nat
  BY Zenon, <1>2, GreatestId
<1>4. topId' \in Nat
  BY <1>3 DEF MakeDurable
<1>5. undone' \in SUBSET Ids /\ Unsynced \in SUBSET Ids
  BY Zenon DEF MakeDurable, Types, Unsynced
<1>6. ASSUME NEW u \in oldLogs PROVE [u EXCEPT !.since = @ \cup Unsynced] \in SwappedOut
  <2>1. u \in SwappedOut
    BY Zenon DEF Types
  <2> QED
    BY <1>5, <2>1 DEF SwappedOut
<1>7. OldLogsLag \in SUBSET SwappedOut
  BY Zenon, <1>6 DEF OldLogsLag
<1> QED
  BY Zenon, <1>1, <1>4, <1>5, <1>7

(* An fsync of the directory leaves nothing, or what it was given.         *)
LEMMA FsyncParentTypes ==
    ASSUME NEW L \in SUBSET SwappedOut, NEW C \in SUBSET Checkpoints, FsyncParent(L, C)
    PROVE  oldLogs' \in SUBSET SwappedOut /\ oldCkpts' \in SUBSET Checkpoints
BY Zenon DEF FsyncParent

-----------------------------------------------------------------------------
(* A function on 1 .. m is a sequence of length m.                         *)
LEMMA FunctionIsSeq ==
    ASSUME NEW S, NEW m \in Nat, NEW f \in [1 .. m -> S]
    PROVE  f \in Seq(S) /\ Len(f) = m
<1>1. f \in Seq(S)
  OBVIOUS
<1>2. Len(f) \in Nat /\ DOMAIN f = 1 .. Len(f) /\ DOMAIN f = 1 .. m
  BY <1>1
<1> QED
  BY <1>1, <1>2

(* The concatenation of two sequences.                                     *)
LEMMA Concatenated ==
    ASSUME NEW S, NEW a \in Seq(S), NEW b \in Seq(S)
    PROVE  /\ a \o b \in Seq(S) /\ Len(a \o b) = Len(a) + Len(b)
           /\ \A p \in 1 .. Len(a) + Len(b) :
                (a \o b)[p] = IF p <= Len(a) THEN a[p] ELSE b[p - Len(a)]
OBVIOUS

(* A walk of the hash buckets meets every member of a set of ids.          *)
LEMMA OrderDomain ==
    ASSUME NEW S \in SUBSET Ids, NEW o \in Orders(S)
    PROVE  /\ Len(o) \in Nat /\ o \in [1 .. Len(o) -> S]
           /\ \A x \in S : \E k \in 1 .. Len(o) : o[k] = x
<1>1. PICK n \in 0 .. MaxId : o \in [1 .. n -> S]
  BY DEF Orders
<1>2. n \in Nat
  BY <1>1, StorageAssumption
<1>3. Len(o) = n /\ DOMAIN o = 1 .. n
  BY Zenon, <1>1, <1>2, FunctionIsSeq
<1> QED
  BY Zenon, <1>1, <1>2, <1>3 DEF Orders

(* The scratch log and the locations phase 2 writes.                       *)
LEMMA CopyShape ==
    ASSUME Types, comp.pc = "copy", NEW S \in SUBSET Ids, NEW o \in Orders(S),
           \A i \in S : Readable(log, comp.snap[i].off)
    PROVE  LET new == [k \in DOMAIN o |-> log[comp.snap[o[k]].off]]
               locs == [k \in DOMAIN o |-> [id |-> o[k], del |-> FALSE]]
           IN  /\ new \in Logs /\ locs \in Locs
               /\ Len(new) = Len(o) /\ Len(locs) = Len(o)
<1> DEFINE new == [k \in DOMAIN o |-> log[comp.snap[o[k]].off]]
           locs == [k \in DOMAIN o |-> [id |-> o[k], del |-> FALSE]]
<1>1. Len(o) \in Nat /\ o \in [1 .. Len(o) -> S]
  BY Zenon, OrderDomain
<1>2. \A i \in S : log[comp.snap[i].off] \in AnyFrame
  BY Zenon, LogFrames DEF Types, Readable
<1>3. new \in [1 .. Len(o) -> AnyFrame]
  BY Zenon, <1>1, <1>2
<1>4. \A i \in S : [id |-> i, del |-> FALSE] \in Loc
  BY StorageAssumption DEF Ids, Loc
<1>5. locs \in [1 .. Len(o) -> Loc]
  BY Zenon, <1>1, <1>4
<1>6. new \in Logs /\ Len(new) = Len(o)
  <2> HIDE DEF new
  <2> QED
    BY Zenon, <1>1, <1>3, FunctionIsSeq DEF Logs
<1>7. locs \in Locs /\ Len(locs) = Len(o)
  <2> HIDE DEF locs
  <2> QED
    BY Zenon, <1>1, <1>5, FunctionIsSeq DEF Locs
<1> QED
  BY Zenon, <1>6, <1>7

(* The tail that phase 3 drains, and its locations.                        *)
LEMMA TailShape ==
    ASSUME NEW l \in Logs, NEW from \in Nat
    PROVE  LET tail == Drained(l, from)
               locs == [k \in DOMAIN tail |-> [id |-> tail[k].id, del |-> tail[k].del]]
           IN  /\ tail \in Logs /\ locs \in Locs /\ Len(locs) = Len(tail)
               /\ DOMAIN tail = 1 .. Len(tail) /\ Len(tail) \in Nat
               /\ from <= Len(l) =>
                     /\ Len(tail) = Len(l) - from
                     /\ \A k \in 1 .. Len(l) - from : tail[k] = l[from + k]
<1> DEFINE tail == Drained(l, from)
           locs == [k \in DOMAIN tail |-> [id |-> tail[k].id, del |-> tail[k].del]]
<1>1. Len(l) \in Nat /\ \A k \in from + 1 .. Len(l) : l[k] \in AnyFrame
  BY LogFrames
<1>2. /\ tail \in Logs
      /\ Len(tail) = IF from + 1 <= Len(l) THEN Len(l) - (from + 1) + 1 ELSE 0
      /\ \A k \in 1 .. Len(l) - (from + 1) + 1 : tail[k] = l[from + 1 + k - 1]
  BY <1>1 DEF Drained, Logs
<1>3. /\ from <= Len(l) => /\ Len(tail) = Len(l) - from
                          /\ \A k \in 1 .. Len(l) - from : tail[k] = l[from + k]
  BY <1>1, <1>2
<1>4. Len(tail) \in Nat /\ DOMAIN tail = 1 .. Len(tail) /\ \A k \in DOMAIN tail : tail[k] \in AnyFrame
  BY Zenon, <1>2, LogFrames
<1>5. \A k \in DOMAIN tail : [id |-> tail[k].id, del |-> tail[k].del] \in Loc
  BY Zenon, <1>4, FrameFields DEF Loc
<1> HIDE DEF tail
<1>6. locs \in [1 .. Len(tail) -> Loc]
  BY Zenon, <1>4, <1>5
<1>7. locs \in Locs /\ Len(locs) = Len(tail)
  <2> HIDE DEF locs
  <2> QED
    BY Zenon, <1>4, <1>6, FunctionIsSeq DEF Locs
<1> QED
  BY Zenon, <1>2, <1>3, <1>4, <1>7 DEF tail

(* What a power failure leaves of a log.                                   *)
LEMMA Survivors ==
    ASSUME NEW l \in Logs, NEW n \in 0 .. Len(l), NEW r \in SurvivesPower(l, n)
    PROVE  /\ r \in Logs /\ Len(r) \in n .. Len(l)
           /\ \A k \in 1 .. n : r[k] = l[k]
<1>1. PICK m \in n .. Len(l), d \in IF Holes THEN SUBSET (n + 1 .. Len(l)) ELSE {{}} :
        r = [k \in 1 .. m |-> IF k \in d THEN Bad ELSE l[k]]
  BY DEF SurvivesPower
<1>2. d \in SUBSET (n + 1 .. Len(l)) /\ m \in Nat /\ Len(l) \in Nat
  BY <1>1, LogFrames
<1>3. \A k \in 1 .. m : l[k] \in AnyFrame /\ Bad \in AnyFrame
  BY <1>2, LogFrames DEF AnyFrame
<1>4. r \in [1 .. m -> AnyFrame]
  BY Zenon, <1>1, <1>3
<1>5. r \in Logs /\ Len(r) = m
  BY Zenon, <1>2, <1>4, FunctionIsSeq DEF Logs
<1>6. \A k \in 1 .. n : r[k] = l[k]
  BY <1>1, <1>2
<1> QED
  BY Zenon, <1>5, <1>6

(* Recovery cuts off damaged frames only.                                  *)
LEMMA ScanEndIs ==
    ASSUME NEW l \in Logs, NEW from \in 0 .. Len(l)
    PROVE  /\ ScanEnd(l, from) \in 0 .. Len(l)
           /\ \A k \in ScanEnd(l, from) + 1 .. Len(l) : ~Good(l[k])
<1> DEFINE holes == {k \in from + 1 .. Len(l) : ~Good(l[k])}
           first == CHOOSE k \in holes : \A j \in holes : k <= j
<1>0. Len(l) \in Nat
  BY Zenon, LogFrames
<1>1. CASE holes = {}
  BY <1>0, <1>1 DEF ScanEnd
<1>2. CASE holes # {}
  <2>1. holes \in SUBSET Nat /\ holes \subseteq 1 .. Len(l)
    BY <1>0
  <2>2. first \in holes
    <3> HIDE DEF holes
    <3> QED
      BY Zenon, <1>2, <2>1, LeastNatural
  <2>3. first \in 1 .. Len(l)
    BY Zenon, <2>1, <2>2
  <2>a. ScanEnd(l, from) = IF holes = {} \/ \E k \in first .. Len(l) : Good(l[k])
                           THEN Len(l) ELSE first - 1
    BY Zenon DEF ScanEnd
  <2> HIDE DEF holes, first
  <2>4. CASE \E k \in first .. Len(l) : Good(l[k])
    BY <1>0, <1>2, <2>a, <2>4
  <2>5. CASE ~ \E k \in first .. Len(l) : Good(l[k])
    <3>1. ScanEnd(l, from) = first - 1
      BY Zenon, <1>2, <2>a, <2>5
    <3> QED
      BY <1>0, <2>3, <2>5, <3>1
  <2> QED
    BY Zenon, <2>4, <2>5
<1> QED
  BY Zenon, <1>1, <1>2

-----------------------------------------------------------------------------
(* The constants of the state.                                             *)
LEMMA ConstantTypes ==
    /\ <<>> \in Logs /\ <<>> \in Locs /\ Len(<<>>) = 0
    /\ [i \in Ids |-> NoEntry] \in Index
    /\ NoCkpt \in Checkpoints /\ Idle \in Compactions /\ Idle.pc = "idle"
<1>1. <<>> \in Logs /\ <<>> \in Locs /\ Len(<<>>) = 0
  BY DEF Logs, Locs
<1>2. [i \in Ids |-> NoEntry] \in Index
  BY Zenon DEF Index, Entry, NoEntry
<1>3. NoCkpt \in Checkpoints
  BY Zenon DEF Checkpoints
<1>4. Idle \in Compactions /\ Idle.pc = "idle"
  BY Zenon, <1>1 DEF Idle, Compactions
<1> QED
  BY Zenon, <1>1, <1>2, <1>3, <1>4

(* The initial state.                                                      *)
LEMMA InitTypes == Init => Types /\ DamageIsSynced /\ Stopped
<1> SUFFICES ASSUME Init PROVE Types /\ DamageIsSynced /\ Stopped
  BY Zenon
<1>1. Types
  <2>1. durable \in [Ids -> 0 .. MaxWrites] /\ stamp \in 0 .. MaxWrites
    BY StorageAssumption DEF Init
  <2>2. synced \in 0 .. Len(log)
    BY ConstantTypes DEF Init
  <2>3. pending \in SUBSET Ids /\ comp.pc # "copy"
    BY Zenon, ConstantTypes DEF Init
  <2> QED
    BY Zenon, <2>1, <2>2, <2>3, ConstantTypes DEF Init, Types
<1>2. DamageIsSynced
  BY ConstantTypes DEF Init, DamageIsSynced
<1> QED
  BY Zenon, <1>1, <1>2 DEF Init, Stopped

(* The record updates of the checkpoint and of compaction.                 *)
LEMMA CheckpointType ==
    ASSUME Types PROVE CheckpointNow \in Checkpoints
BY Zenon, LogFrames DEF Types, CheckpointNow, Checkpoints

(* The fields of the compaction in progress.                               *)
LEMMA CompFields ==
    ASSUME comp \in Compactions
    PROVE  /\ comp.end \in Nat /\ comp.new \in Logs /\ comp.locs \in Locs
           /\ comp.pc \in {"idle", "copy", "copied", "renamed", "installed"}
BY Zenon DEF Compactions

(* Phase 1 keeps the index and the end of the log.                         *)
LEMMA SnapshotType ==
    ASSUME Types, CompactSnapshot
    PROVE  /\ comp' \in Compactions /\ comp'.pc = "copy" /\ comp'.snap = hash
           /\ comp'.end = Len(log)
<1>1. comp' = [Idle EXCEPT !.pc = "copy", !.snap = hash, !.end = Len(log)]
  BY Zenon DEF CompactSnapshot
<1>2. hash \in Index /\ Len(log) \in Nat
  BY Zenon, LogFrames DEF Types
<1> QED
  BY Zenon, <1>1, <1>2, ConstantTypes DEF Compactions, Idle

(* Phase 2 either gives up or leaves the copies.                           *)
LEMMA CopyType ==
    ASSUME Types, CompactCopy
    PROVE  /\ comp' \in Compactions
           /\ \/ comp' = Idle
              \/ LET live == {i \in Ids : Live(comp.snap, i)} IN
                 /\ \A i \in live : Readable(log, comp.snap[i].off)
                 /\ comp'.pc = "copied" /\ comp'.end = comp.end
                 /\ \E o \in Orders(live) :
                      /\ comp'.new = [k \in DOMAIN o |-> log[comp.snap[o[k]].off]]
                      /\ comp'.locs = [k \in DOMAIN o |-> [id |-> o[k], del |-> FALSE]]
<1> DEFINE live == {i \in Ids : Live(comp.snap, i)}
<1>1. CASE comp' = Idle
  BY Zenon, <1>1, ConstantTypes
<1>2. CASE comp' # Idle
  <2>1. \A i \in live : Readable(log, comp.snap[i].off)
    BY Zenon, <1>2 DEF CompactCopy
  <2>2. PICK o \in Orders(live) :
          comp' = [comp EXCEPT
            !.pc = "copied",
            !.new = [k \in DOMAIN o |-> log[comp.snap[o[k]].off]],
            !.locs = [k \in DOMAIN o |-> [id |-> o[k], del |-> FALSE]],
            !.snap = <<>>]
    BY ZenonT(30), <1>2 DEF CompactCopy
  <2> DEFINE new == [k \in DOMAIN o |-> log[comp.snap[o[k]].off]]
             locs == [k \in DOMAIN o |-> [id |-> o[k], del |-> FALSE]]
  <2>3. new \in Logs /\ locs \in Locs
    BY Zenon, <2>1, CopyShape DEF CompactCopy
  <2> HIDE DEF new, locs
  <2>4. comp' = [comp EXCEPT !.pc = "copied", !.new = new, !.locs = locs, !.snap = <<>>]
    BY Zenon, <2>2 DEF new, locs
  <2>5. /\ comp' \in Compactions /\ comp'.pc = "copied" /\ comp'.end = comp.end
        /\ comp'.new = new /\ comp'.locs = locs
    BY Zenon, <2>3, <2>4 DEF Types, Compactions
  <2> QED
    BY ZenonT(30), <2>1, <2>5 DEF new, locs
<1> QED
  BY Zenon, <1>1, <1>2

(* Phase 3 leaves the copies and the tail.                                 *)
LEMMA SwapType ==
    ASSUME Types, CompactSwap
    PROVE  LET tail == Drained(log, comp.end) IN
           /\ log' \in Logs /\ log' = comp.new \o tail
           /\ \A k \in 1 .. Len(tail) : Good(tail[k])
           /\ comp' \in Compactions /\ comp'.pc = "renamed"
           /\ comp'.locs = comp.locs \o [k \in DOMAIN tail |->
                                          [id |-> tail[k].id, del |-> tail[k].del]]
<1> DEFINE tail == Drained(log, comp.end)
           tlocs == [k \in DOMAIN tail |-> [id |-> tail[k].id, del |-> tail[k].del]]
<1>1. /\ comp.end \in Nat /\ comp.new \in Logs /\ comp.locs \in Locs /\ log \in Logs
  BY Zenon, CompFields DEF Types
<1>2. tail \in Logs /\ tlocs \in Locs /\ DOMAIN tail = 1 .. Len(tail)
  BY Zenon, <1>1, TailShape
<1>3. /\ \A k \in DOMAIN tail : Good(tail[k])
      /\ log' = comp.new \o tail
      /\ comp' = [comp EXCEPT !.pc = "renamed", !.locs = @ \o tlocs, !.new = <<>>]
  BY Zenon DEF CompactSwap
<1> HIDE DEF tail, tlocs
<1>4. log' \in Logs /\ comp.locs \o tlocs \in Locs
  BY <1>1, <1>2, <1>3 DEF Logs, Locs
<1>5. /\ comp' \in Compactions /\ comp'.pc = "renamed"
      /\ comp'.locs = comp.locs \o tlocs
  BY Zenon, <1>1, <1>3, <1>4, ConstantTypes DEF Types, Compactions
<1> QED
  BY Zenon, <1>2, <1>3, <1>4, <1>5 DEF tail, tlocs

(* A rebuilt index.                                                        *)
LEMMA RebuiltType ==
    ASSUME NEW locs \in Locs, NEW i \in Ids
    PROVE  /\ Rebuilt(locs, i) \in Entry
           /\ Len(locs) \in Nat
           /\ Rebuilt(locs, i).off = 0 =>
                Rebuilt(locs, i).del = FALSE /\ \A k \in 1 .. Len(locs) : locs[k].id # i
           /\ Rebuilt(locs, i).off # 0 =>
                /\ Rebuilt(locs, i).off \in 1 .. Len(locs)
                /\ locs[Rebuilt(locs, i).off].id = i
                /\ locs[Rebuilt(locs, i).off].del = Rebuilt(locs, i).del
                /\ \A k \in Rebuilt(locs, i).off + 1 .. Len(locs) : locs[k].id # i
<1> DEFINE S == {n \in DOMAIN locs : locs[n].id = i}
           k == SetMax(S, 0)
<1>1. /\ Len(locs) \in Nat /\ DOMAIN locs = 1 .. Len(locs)
      /\ \A n \in 1 .. Len(locs) : locs[n] \in Loc
  BY DEF Locs
<1>2. \A n \in 1 .. Len(locs) : locs[n].del \in BOOLEAN
  BY Zenon, <1>1 DEF Loc
<1>3. Rebuilt(locs, i) = IF k = 0 THEN NoEntry ELSE [off |-> k, del |-> locs[k].del]
  BY Zenon DEF Rebuilt
<1>4. CASE S = {}
  <2>1. k = 0 /\ \A n \in 1 .. Len(locs) : locs[n].id # i
    BY Zenon, <1>1, <1>4 DEF SetMax
  <2> HIDE DEF k
  <2> QED
    BY <1>1, <1>3, <2>1 DEF NoEntry, Entry
<1>5. CASE S # {}
  <2>1. S \in SUBSET (0 .. Len(locs))
    BY <1>1
  <2>2. k \in S /\ \A y \in S : y <= k
    <3> HIDE DEF S
    <3> QED
      BY Zenon, <1>1, <1>5, <2>1, SetMaxIsMax
  <2>3. k \in 1 .. Len(locs) /\ locs[k].id = i /\ \A n \in 1 .. Len(locs) : locs[n].id = i => n <= k
    BY Zenon, <1>1, <2>2
  <2> HIDE DEF k
  <2>4. Rebuilt(locs, i) = [off |-> k, del |-> locs[k].del]
    BY <1>3, <2>3
  <2>5. \A n \in k + 1 .. Len(locs) : locs[n].id # i
    BY <1>1, <2>3
  <2> QED
    BY <1>1, <1>2, <2>3, <2>4, <2>5 DEF Entry
<1> QED
  BY Zenon, <1>4, <1>5

-----------------------------------------------------------------------------
(* The types are kept by the write path, ...                               *)
LEMMA WriteTypes ==
    ASSUME Types, NEW i \in Ids,
           NextIdForInsert \/ Insert(i) \/ InsertFails(i) \/ Update(i) \/ Delete(i)
    PROVE  Types'
<1> USE DEF Types
<1>1. CASE NextIdForInsert
  BY <1>1 DEF NextIdForInsert, files, history
<1>2. CASE Insert(i)
  <2>1. log' \in Logs /\ Len(log') = Len(log) + 1 /\ hash' \in Index /\ stamp' \in 0 .. MaxWrites
    BY Zenon, <1>2, AppendedFrame DEF Insert
  <2>2. synced' \in 0 .. Len(log')
    BY <1>2, <2>1, LogFrames DEF Insert
  <2> QED
    BY Zenon, <1>2, <2>1, <2>2 DEF Insert, files, history
<1>3. CASE InsertFails(i)
  BY Zenon, <1>3 DEF InsertFails, files, history
<1>4. ASSUME NEW d \in BOOLEAN, Rewrite(i, d) PROVE Types'
  <2>1. log[hash[i].off].id \in Ids
    BY Zenon, <1>4, LogFrames, FrameFields DEF Rewrite, Readable
  <2>2. log' \in Logs /\ Len(log') = Len(log) + 1 /\ hash' \in Index /\ stamp' \in 0 .. MaxWrites
    BY Zenon, <1>4, <2>1, AppendedFrame DEF Rewrite
  <2>3. synced' \in 0 .. Len(log')
    BY <1>4, <2>2, LogFrames DEF Rewrite
  <2> QED
    BY Zenon, <1>4, <2>2, <2>3 DEF Rewrite, files, history
<1> QED
  BY Zenon, <1>1, <1>2, <1>3, <1>4 DEF Update, Delete

(* ... by flushes, checkpoints and compaction, ...                         *)
LEMMA MaintenanceTypes ==
    ASSUME Types,
           \/ Fsync \/ Checkpoint \/ CompactSnapshot \/ CompactCopy \/ CompactSwap
           \/ CompactAbort \/ CompactInstall \/ CompactInstallFails \/ CompactUnlink
    PROVE  Types'
<1> USE DEF Types
<1>1. CASE Fsync
  <2>1. synced' \in 0 .. Len(log') /\ durable' \in [Ids -> 0 .. MaxWrites] /\ topId' \in Nat
    BY <1>1, LogFrames, MakeDurableTypes DEF Fsync
  <2>2. undone' \in SUBSET Ids /\ oldLogs' \in SUBSET SwappedOut
    BY Zenon, <1>1, MakeDurableTypes DEF Fsync
  <2> QED
    BY Zenon, <1>1, <2>1, <2>2 DEF Fsync
<1>2. CASE Checkpoint
  <2>1. oldLogs' \in SUBSET SwappedOut /\ oldCkpts' \in SUBSET Checkpoints
    <3>1. oldCkpts \cup {ckpt} \in SUBSET Checkpoints
      BY Zenon
    <3> QED
      BY Zenon, <1>2, <3>1, FsyncParentTypes DEF Checkpoint
  <2> QED
    BY Zenon, <1>2, <2>1, CheckpointType DEF Checkpoint, history
<1>3. CASE CompactSnapshot
  BY Zenon, <1>3, SnapshotType DEF CompactSnapshot, files, history
<1>4. CASE CompactCopy
  <2>1. comp' \in Compactions /\ comp'.pc # "copy"
    BY Zenon, <1>4, CopyType, ConstantTypes
  <2> QED
    BY Zenon, <1>4, <2>1 DEF CompactCopy, files, history
<1>5. CASE CompactSwap
  <2>1. log' \in Logs /\ comp' \in Compactions /\ comp'.pc # "copy"
    BY Zenon, <1>5, SwapType
  <2>2. synced' \in 0 .. Len(log') /\ durable' \in [Ids -> 0 .. MaxWrites] /\ topId' \in Nat
    <3>1. MakeDurable /\ synced' = Len(log')
      BY Zenon, <1>5 DEF CompactSwap
    <3> QED
      BY <2>1, <3>1, LogFrames, MakeDurableTypes
  <2>3. undone' \in SUBSET Ids /\ oldLogs' \in SUBSET SwappedOut
    <3>1. /\ MakeDurable /\ log \in Logs
          /\ oldLogs' = OldLogsLag \cup {[log |-> log, since |-> {}]}
      BY Zenon, <1>5 DEF CompactSwap
    <3>2. [log |-> log, since |-> {}] \in SwappedOut
      BY <3>1 DEF SwappedOut
    <3> QED
      BY Zenon, <3>1, <3>2, MakeDurableTypes
  <2> QED
    BY Zenon, <1>5, <2>1, <2>2, <2>3 DEF CompactSwap
<1>6. CASE CompactAbort
  BY Zenon, <1>6, ConstantTypes DEF CompactAbort, files, history
<1>7. CASE CompactInstall
  <2>1. hash' \in Index
    BY Zenon, <1>7, CompFields, RebuiltType DEF CompactInstall, Index
  <2>2. comp' \in Compactions /\ comp'.pc # "copy"
    BY Zenon, <1>7, ConstantTypes DEF CompactInstall, Compactions, Idle
  <2>3. oldLogs' \in SUBSET SwappedOut /\ oldCkpts' \in SUBSET Checkpoints
    BY Zenon, <1>7, FsyncParentTypes DEF CompactInstall
  <2> QED
    BY Zenon, <1>7, <2>1, <2>2, <2>3 DEF CompactInstall, history
<1>8. CASE CompactInstallFails
  <2>1. oldLogs' \in SUBSET SwappedOut /\ oldCkpts' \in SUBSET Checkpoints
    BY Zenon, <1>8, FsyncParentTypes DEF CompactInstallFails
  <2> QED
    BY Zenon, <1>8, <2>1, ConstantTypes DEF CompactInstallFails
<1>9. CASE CompactUnlink
  <2>1. oldCkpts' \in SUBSET Checkpoints
    BY Zenon, <1>9 DEF CompactUnlink
  <2> QED
    BY Zenon, <1>9, <2>1, ConstantTypes DEF CompactUnlink, history
<1> QED
  BY Zenon, <1>1, <1>2, <1>3, <1>4, <1>5, <1>6, <1>7, <1>8, <1>9

(* What is found on the disk and in the index after a recovery.            *)
LEMMA RecoverTypes ==
    ASSUME Types, Recover
    PROVE  LET from == IF Trusted THEN ckpt.covered ELSE 0
               end == ScanEnd(log, from)
           IN  /\ from \in 0 .. Len(log) /\ end \in 0 .. Len(log)
               /\ log' \in Logs /\ Len(log') = end
               /\ \A k \in 1 .. end : log'[k] = log[k]
               /\ hash' \in Index
               /\ RecoveredNextId(from) \in Nat
<1> DEFINE from == IF Trusted THEN ckpt.covered ELSE 0
           end == ScanEnd(log, from)
<1>1. /\ log \in Logs /\ Len(log) \in Nat /\ meta \in Nat
      /\ Trusted => ckpt.covered \in Nat /\ ckpt.hash \in Index /\ ckpt.nextId \in Nat
  BY Zenon, LogFrames DEF Types, Trusted, Checkpoints
<1>2. from \in 0 .. Len(log)
  BY <1>1 DEF Trusted
<1> HIDE DEF from
<1>3. end \in 0 .. Len(log)
  BY Zenon, <1>1, <1>2, ScanEndIs
<1>4. log' = SubSeq(log, 1, end)
  BY Zenon DEF Recover, from
<1> HIDE DEF end
<1>5. log' \in Logs /\ Len(log') = end /\ \A k \in 1 .. end : log'[k] = log[k]
  BY <1>1, <1>3, <1>4, LogFrames DEF Logs
<1>6. hash' \in Index
  <2>1. hash' = [i \in Ids |->
                 LET k == LastOf(log, i, from)
                 IN  IF k # 0 THEN EntryAt(log, k)
                     ELSE IF Trusted THEN ckpt.hash[i] ELSE NoEntry]
    BY Zenon DEF Recover, from
  <2>2. ASSUME NEW i \in Ids
        PROVE  (LET k == LastOf(log, i, from)
                IN  IF k # 0 THEN EntryAt(log, k)
                    ELSE IF Trusted THEN ckpt.hash[i] ELSE NoEntry) \in Entry
    <3>1. LastOf(log, i, from) \in {0} \cup (from + 1 .. Len(log))
      BY Zenon, <1>1, <1>2, LastOfIs
    <3>2. CASE LastOf(log, i, from) # 0
      <4>1. LastOf(log, i, from) \in 1 .. Len(log)
        BY <1>1, <1>2, <3>1, <3>2
      <4>2. log[LastOf(log, i, from)].del \in BOOLEAN
        BY Zenon, <1>1, <4>1, LogFrames, FrameFields
      <4> QED
        BY <1>1, <3>2, <4>1, <4>2 DEF EntryAt, Entry
    <3>3. CASE LastOf(log, i, from) = 0
      BY Zenon, <1>1, <3>3 DEF Index, Entry, NoEntry
    <3> QED
      BY Zenon, <3>2, <3>3
  <2> QED
    BY Zenon, <2>1, <2>2 DEF Index
<1>7. RecoveredNextId(from) \in Nat
  <2> DEFINE seed == IF Trusted /\ ckpt.nextId > 0 THEN ckpt.nextId - 1 ELSE 0
             top == SetMax({seed} \cup {log[k].id : k \in from + 1 .. Len(log)}, 0)
  <2>1. seed \in Nat
    BY <1>1
  <2>2. RecoveredNextId(from) = SetMax({top + 1, meta}, 0)
    BY Zenon DEF RecoveredNextId
  <2> HIDE DEF seed
  <2>3. top \in Nat
    BY Zenon, <1>1, <1>2, <2>1, GreatestId
  <2> HIDE DEF top
  <2> QED
    BY <1>1, <2>2, <2>3, GreaterOf
<1> QED
  BY Zenon, <1>2, <1>3, <1>5, <1>6, <1>7 DEF from, end

(* ... by crashes, a shutdown and a recovery.                              *)
LEMMA CrashTypes ==
    ASSUME Types, Kill \/ PowerFailure \/ Close \/ Recover
    PROVE  Types'
<1> USE DEF Types
<1>1. CASE Kill
  BY Zenon, <1>1, ConstantTypes DEF Kill, Restarting, files, history
<1>2. CASE PowerFailure
  <2>1. log' \in Logs /\ durable' \in [Ids -> 0 .. MaxWrites] /\ undone' \in SUBSET Ids
    <3>1. ASSUME log' \in SurvivesPower(log, synced),
                 durable' = [i \in Ids |->
                   LET k == LastOf(log', i, synced)
                   IN  IF k = 0 THEN durable[i]
                       ELSE IF log'[k].del THEN 0 ELSE log'[k].stamp]
          PROVE  log' \in Logs /\ durable' \in [Ids -> 0 .. MaxWrites]
      <4>1. log' \in Logs /\ synced \in 0 .. Len(log')
        BY <3>1, Survivors, LogFrames
      <4>2. ASSUME NEW i \in Ids
            PROVE  (LET k == LastOf(log', i, synced)
                    IN  IF k = 0 THEN durable[i] ELSE IF log'[k].del THEN 0 ELSE log'[k].stamp)
                   \in 0 .. MaxWrites
        <5>1. LastOf(log', i, synced) \in {0} \cup (synced + 1 .. Len(log'))
          BY Zenon, <4>1, LastOfIs, LogFrames
        <5>2. LastOf(log', i, synced) # 0 => log'[LastOf(log', i, synced)] \in AnyFrame
          BY <4>1, <5>1, LogFrames
        <5> QED
          BY <5>2, FrameFields, StorageAssumption
      <4> QED
        BY Zenon, <3>1, <4>1, <4>2
    <3>2. ASSUME NEW u \in oldLogs PROVE u.log \in Logs /\ u.since \in SUBSET Ids
      BY Zenon DEF SwappedOut
    <3> QED
      BY Zenon, <1>2, <3>1, <3>2 DEF PowerFailure
  <2>2. synced' \in 0 .. Len(log')
    BY SMTT(30), <1>2, <2>1, LogFrames DEF PowerFailure
  <2>3. ckpt' \in Checkpoints /\ oldCkpts' = {} /\ oldLogs' = {}
    BY Zenon, <1>2 DEF PowerFailure
  <2>4. topId' \in Nat
    <3>1. 0 \in 0 .. Len(log')
      BY <2>1, LogFrames
    <3>2. SetMax({topId} \cup {log'[k].id : k \in 0 + 1 .. Len(log')}, 0) \in Nat
      BY Zenon, <2>1, <3>1, GreatestId
    <3> QED
      BY <1>2, <3>2 DEF PowerFailure
  <2> QED
    BY Zenon, <1>2, <2>1, <2>2, <2>3, <2>4, ConstantTypes
       DEF PowerFailure, Restarting
<1>3. CASE Close
  <2>1. synced' \in 0 .. Len(log') /\ durable' \in [Ids -> 0 .. MaxWrites] /\ topId' \in Nat
    BY <1>3, LogFrames, MakeDurableTypes DEF Close
  <2>2. undone' \in SUBSET Ids /\ oldCkpts' = {} /\ oldLogs' = {}
    BY Zenon, <1>3, MakeDurableTypes DEF Close
  <2> QED
    BY Zenon, <1>3, <2>1, <2>2, ConstantTypes, CheckpointType DEF Close, Restarting
<1>4. CASE Recover
  <2> DEFINE from == IF Trusted THEN ckpt.covered ELSE 0
             end == ScanEnd(log, from)
  <2>1. /\ end \in 0 .. Len(log) /\ log' \in Logs /\ Len(log') = end /\ hash' \in Index
        /\ RecoveredNextId(from) \in Nat
    BY Zenon, <1>4, RecoverTypes
  <2>2. /\ synced' = IF end < Len(log) THEN end ELSE synced
        /\ nextId' = RecoveredNextId(from)
        /\ stale' \in BOOLEAN
    BY Zenon, <1>4 DEF Recover
  <2> HIDE DEF from, end
  <2>3. synced' \in 0 .. Len(log') /\ nextId' \in Nat
    BY <2>1, <2>2, LogFrames
  <2> QED
    BY Zenon, <1>4, <2>1, <2>2, <2>3 DEF Recover, files
<1> QED
  BY Zenon, <1>1, <1>2, <1>3, <1>4

-----------------------------------------------------------------------------
(* Damaged frames stay within the flushed part of the log.                 *)
LEMMA DamageStep ==
    ASSUME Types, DamageIsSynced, [Next]_vars
    PROVE  DamageIsSynced'
<1> USE DEF DamageIsSynced
<1>1. ASSUME NEW i \in Ids, NEW d \in BOOLEAN, AppendAndHash(i, d), synced' = synced
      PROVE  DamageIsSynced'
  <2>1. /\ Good(log'[Len(log) + 1]) /\ Len(log') = Len(log) + 1
        /\ \A k \in 1 .. Len(log) : log'[k] = log[k]
    BY Zenon, <1>1, AppendedFrame
  <2>2. Len(log) \in Nat /\ synced \in 0 .. Len(log)
    BY Zenon, LogFrames DEF Types
  <2>3. ASSUME NEW k \in synced + 1 .. Len(log) + 1 PROVE Good(log'[k])
    <3>1. CASE k = Len(log) + 1
      BY Zenon, <2>1, <3>1
    <3>2. CASE k # Len(log) + 1
      BY <2>1, <2>2, <3>2
    <3> QED
      BY Zenon, <3>1, <3>2
  <2> QED
    BY Zenon, <1>1, <2>1, <2>3
<1>2. ASSUME NEW i \in Ids, Insert(i) PROVE DamageIsSynced'
  BY Zenon, <1>1, <1>2 DEF Insert
<1>3. ASSUME NEW i \in Ids, NEW d \in BOOLEAN, Rewrite(i, d) PROVE DamageIsSynced'
  <2>1. log[hash[i].off].id \in Ids
    BY Zenon, <1>3, LogFrames, FrameFields DEF Rewrite, Readable, Types
  <2> QED
    BY Zenon, <1>1, <1>3, <2>1 DEF Rewrite
<1>4. ASSUME synced' = Len(log'), log' \in Logs PROVE DamageIsSynced'
  BY <1>4, LogFrames
<1>5. CASE Fsync \/ Close
  BY Zenon, <1>4, <1>5 DEF Fsync, Close, Types
<1>6. CASE CompactSwap \/ PowerFailure
  <2>1. Types' /\ synced' = Len(log')
    BY Zenon, <1>6, MaintenanceTypes, CrashTypes DEF CompactSwap, PowerFailure
  <2> QED
    BY Zenon, <1>4, <2>1 DEF Types
<1>7. CASE Recover
  <2> DEFINE from == IF Trusted THEN ckpt.covered ELSE 0
             end == ScanEnd(log, from)
  <2>1. /\ end \in 0 .. Len(log) /\ log' \in Logs /\ Len(log') = end
        /\ \A k \in 1 .. end : log'[k] = log[k]
    BY Zenon, <1>7, RecoverTypes
  <2>2. synced' = IF end < Len(log) THEN end ELSE synced
    BY Zenon, <1>7 DEF Recover
  <2> HIDE DEF from, end
  <2>3. CASE end < Len(log)
    BY Zenon, <1>4, <2>1, <2>2, <2>3
  <2>4. CASE ~ (end < Len(log))
    BY SMTT(30), <2>1, <2>2, <2>4, LogFrames DEF Types
  <2> QED
    BY Zenon, <2>3, <2>4
<1>8. CASE UNCHANGED <<log, synced>>
  BY Zenon, <1>8
<1>9. ASSUME NEW i \in Ids, InsertFails(i) PROVE UNCHANGED <<log, synced>>
  BY Zenon, <1>9 DEF InsertFails
<1>10. CASE \/ NextIdForInsert \/ Checkpoint \/ CompactSnapshot \/ CompactCopy \/ CompactAbort
            \/ CompactInstall \/ CompactInstallFails \/ CompactUnlink \/ Kill
            \/ UNCHANGED vars
  BY Zenon, <1>8, <1>10
     DEF NextIdForInsert, Checkpoint, CompactSnapshot, CompactCopy, CompactAbort,
         CompactInstall, CompactInstallFails, CompactUnlink, Kill, vars
<1> QED
  BY Zenon, <1>2, <1>3, <1>5, <1>6, <1>7, <1>8, <1>9, <1>10 DEF Next, Update, Delete

(* A stopped process has neither a compaction nor inserts in flight.       *)
LEMMA StoppedStep ==
    ASSUME Stopped, [Next]_vars
    PROVE  Stopped'
<1> USE DEF Stopped
<1>1. CASE Kill \/ PowerFailure \/ Close
  BY Zenon, <1>1 DEF Kill, PowerFailure, Close, Restarting
<1>2. CASE Recover
  BY Zenon, <1>2 DEF Recover
<1>3. CASE UNCHANGED vars
  BY Zenon, <1>3 DEF vars
<1>4. ASSUME up, up' = up PROVE Stopped'
  BY Zenon, <1>4
<1>5. ASSUME NEW i \in Ids, Insert(i) \/ InsertFails(i) \/ Rewrite(i, TRUE) \/ Rewrite(i, FALSE)
      PROVE  Stopped'
  BY Zenon, <1>4, <1>5 DEF Insert, InsertFails, Rewrite, IndexFree
<1>6. CASE \/ NextIdForInsert \/ Fsync \/ Checkpoint \/ CompactSnapshot \/ CompactCopy
           \/ CompactSwap \/ CompactAbort \/ CompactInstall \/ CompactInstallFails
           \/ CompactUnlink
  BY Zenon, <1>4, <1>6
     DEF NextIdForInsert, Fsync, Checkpoint, CompactSnapshot, CompactCopy, CompactSwap,
         CompactAbort, CompactInstall, CompactInstallFails, CompactUnlink, IndexFree, LogFree
<1> QED
  BY Zenon, <1>1, <1>2, <1>3, <1>5, <1>6 DEF Next, Update, Delete

-----------------------------------------------------------------------------
(* Frames of other records change neither an entry nor what a reader sees. *)
LEMMA OtherFrames ==
    ASSUME NEW l, NEW i, NEW n \in Nat, NEW m \in 0 .. n,
           \A j \in m + 1 .. n : l[j].id # i
    PROVE  /\ \A e \in Entry : IsEntry(e, l, i, m) <=> IsEntry(e, l, i, n)
           /\ \A v : Sees(v, l, i, m) <=> Sees(v, l, i, n)
<1>1. \A k \in Nat : IsLast(l, i, m, k) <=> IsLast(l, i, n, k)
  BY Zenon, LastOverlay
<1>2. \A e \in Entry : IsEntry(e, l, i, m) <=> IsEntry(e, l, i, n)
  BY Zenon, <1>1 DEF IsEntry, Entry
<1>3. \A k \in 0 .. n : IsLast(l, i, m, k) => k \in 0 .. m
  BY DEF IsLast
<1>4. \A v : Sees(v, l, i, m) <=> Sees(v, l, i, n)
  BY <1>1, <1>3 DEF Sees
<1> QED
  BY Zenon, <1>2, <1>4

(* What a reader sees of the frames up to n, overlaid with the later ones, *)
(* is what it sees of all.                                                 *)
LEMMA OverlaySees ==
    ASSUME NEW l, Len(l) \in Nat, NEW i, NEW n \in 0 .. Len(l), NEW v,
           LastOf(l, i, n) # 0 \/ Sees(v, l, i, n)
    PROVE  Sees(LET k == LastOf(l, i, n)
                IN  IF k = 0 THEN v ELSE IF l[k].del THEN 0 ELSE l[k].stamp, l, i, Len(l))
<1> DEFINE k == LastOf(l, i, n)
<1>1. /\ k \in {0} \cup (n + 1 .. Len(l))
      /\ k = 0 => \A j \in n + 1 .. Len(l) : l[j].id # i
      /\ k # 0 => IsLast(l, i, Len(l), k)
  BY Zenon, LastOfIs
<1> HIDE DEF k
<1>2. CASE k = 0
  <2>1. Sees(v, l, i, Len(l))
    BY Zenon, <1>1, <1>2, OtherFrames DEF k
  <2> QED
    BY Zenon, <1>2, <2>1 DEF k
<1>3. CASE k # 0
  <2>1. k \in 0 .. Len(l)
    BY <1>1, <1>3
  <2>2. Sees(IF l[k].del THEN 0 ELSE l[k].stamp, l, i, Len(l))
    BY Zenon, <1>1, <1>3, <2>1 DEF Sees
  <2> QED
    BY Zenon, <1>3, <2>2 DEF k
<1> QED
  BY Zenon, <1>2, <1>3

(* A flush of the whole log.                                               *)
LEMMA ExpectedSees ==
    ASSUME Types, DurableInLog, NEW i \in Ids \ (undone \ Unsynced)
    PROVE  Sees(Expected(i), log, i, Len(log))
<1>1. /\ Len(log) \in Nat /\ synced \in 0 .. Len(log)
      /\ LastOf(log, i, synced) # 0 \/ Sees(durable[i], log, i, synced)
  BY Zenon, LogFrames DEF Types, DurableInLog, Unsynced
<1> QED
  BY Zenon, <1>1, OverlaySees DEF Expected

(* After a flush a reader of the log sees the durable records, and so does *)
(* one of a log that was swapped out, but for those just flushed.          *)
LEMMA FlushRight ==
    ASSUME Types, Right, MakeDurable
    PROVE  /\ \A i \in Ids \ undone' : Sees(durable'[i], log, i, Len(log))
           /\ \A u \in OldLogsLag : \A i \in Ids \ (u.since \cup undone') :
                Sees(durable'[i], u.log, i, Len(u.log))
<1>1. /\ \A i \in Ids : durable'[i] = Expected(i)
      /\ undone' = undone \ Unsynced
  BY Zenon DEF MakeDurable
<1>2. \A i \in Ids \ undone' : Sees(durable'[i], log, i, Len(log))
  BY Zenon, <1>1, ExpectedSees DEF Right
<1>3. ASSUME NEW u \in OldLogsLag, NEW i \in Ids \ (u.since \cup undone')
      PROVE  Sees(durable'[i], u.log, i, Len(u.log))
  <2>1. PICK w \in oldLogs : u = [w EXCEPT !.since = @ \cup Unsynced]
    BY Zenon DEF OldLogsLag
  <2>2. w \in SwappedOut
    BY Zenon DEF Types
  <2>3. u.log = w.log /\ u.since = w.since \cup Unsynced
    BY <2>1, <2>2 DEF SwappedOut
  <2>4. i \in Ids \ (w.since \cup undone) /\ i \notin Unsynced
    BY Zenon, <1>1, <2>3
  <2>5. durable'[i] = durable[i]
    BY Zenon, <1>1, <2>4 DEF Expected, Unsynced
  <2> QED
    BY Zenon, <2>3, <2>4, <2>5 DEF Right, FilesRight, OldLogsRight
<1> QED
  BY Zenon, <1>2, <1>3

(* What a step that leaves the files and the history alone keeps.          *)
LEMMA FilesKept ==
    ASSUME Right, UNCHANGED <<ckpt, oldCkpts, oldLogs, durable, undone>>
    PROVE  FilesRight'
BY Zenon DEF Right, FilesRight, OldLogsRight

(* An fsync of the directory.                                              *)
LEMMA FsyncParentRight ==
    ASSUME Right, CkptRight(ckpt)', UNCHANGED <<durable, undone>>,
           NEW C, \A c \in C : CkptRight(c), FsyncParent(oldLogs, C)
    PROVE  FilesRight'
BY Zenon DEF FsyncParent, Right, FilesRight, OldLogsRight

-----------------------------------------------------------------------------
(* A compaction that has not reached the swap is not disturbed by frames   *)
(* appended to the log.                                                    *)
LEMMA CompactionKept ==
    ASSUME Types, SnapshotRight, CopiesRight, comp' = comp, comp.pc # "renamed",
           log' \in Logs, Len(log) <= Len(log'),
           \A k \in 1 .. Len(log) : log'[k] = log[k]
    PROVE  SnapshotRight' /\ CopiesRight' /\ SwapRight'
<1>1. Len(log) \in Nat /\ Len(log') \in Nat /\ comp.end \in Nat
  BY Zenon, LogFrames, CompFields DEF Types
<1>2. comp.end <= Len(log) => \A k \in 1 .. comp.end : log'[k] = log[k]
  BY <1>1
<1>3. SnapshotRight'
  <2>1. SUFFICES ASSUME comp.pc = "copy"
                 PROVE  /\ comp.end <= Len(log')
                        /\ \A i \in Ids : IsEntry(comp.snap[i], log', i, comp.end)
    BY Zenon DEF SnapshotRight
  <2>2. /\ comp.end <= Len(log) /\ comp.snap \in Index
        /\ \A i \in Ids : IsEntry(comp.snap[i], log, i, comp.end)
    BY Zenon, <2>1 DEF SnapshotRight, Types
  <2>3. ASSUME NEW i \in Ids PROVE IsEntry(comp.snap[i], log', i, comp.end)
    BY Zenon, <1>1, <1>2, <2>2, SameFrames DEF Index
  <2> QED
    BY <1>1, <2>2, <2>3
<1>4. CopiesRight'
  <2>1. SUFFICES ASSUME comp.pc = "copied"
                 PROVE  /\ comp.end <= Len(log')
                        /\ Len(comp.locs) = Len(comp.new)
                        /\ \A p \in 1 .. Len(comp.new) :
                             /\ comp.locs[p] = [id |-> comp.new[p].id, del |-> FALSE]
                             /\ \E k \in 1 .. comp.end :
                                  /\ comp.new[p] = log'[k] /\ Good(log'[k]) /\ ~log'[k].del
                                  /\ IsLast(log', log'[k].id, comp.end, k)
                        /\ \A i \in Ids : \A k \in 1 .. comp.end :
                             IsLast(log', i, comp.end, k) /\ ~log'[k].del =>
                                 \E p \in 1 .. Len(comp.new) : comp.new[p].id = i
    BY Zenon DEF CopiesRight
  <2>2. comp.end <= Len(log) /\ Len(comp.locs) = Len(comp.new)
    BY Zenon, <2>1 DEF CopiesRight
  <2>3. \A i : \A k \in 1 .. comp.end :
          IsLast(log', i, comp.end, k) <=> IsLast(log, i, comp.end, k)
    <3> TAKE i
    <3>1. \A k \in Nat : IsLast(log', i, comp.end, k) <=> IsLast(log, i, comp.end, k)
      BY Zenon, <1>1, <1>2, <2>2, SameFrames
    <3> QED
      BY <3>1
  <2>4. ASSUME NEW p \in 1 .. Len(comp.new)
        PROVE  /\ comp.locs[p] = [id |-> comp.new[p].id, del |-> FALSE]
               /\ \E k \in 1 .. comp.end :
                    /\ comp.new[p] = log'[k] /\ Good(log'[k]) /\ ~log'[k].del
                    /\ IsLast(log', log'[k].id, comp.end, k)
    <3>1. /\ comp.locs[p] = [id |-> comp.new[p].id, del |-> FALSE]
          /\ \E k \in 1 .. comp.end :
                    /\ comp.new[p] = log[k] /\ Good(log[k]) /\ ~log[k].del
                    /\ IsLast(log, log[k].id, comp.end, k)
      BY Zenon, <2>1, <2>4 DEF CopiesRight
    <3> QED
      BY Zenon, <1>2, <2>2, <2>3, <3>1
  <2>5. ASSUME NEW i \in Ids, NEW k \in 1 .. comp.end,
               IsLast(log', i, comp.end, k), ~log'[k].del
        PROVE  \E p \in 1 .. Len(comp.new) : comp.new[p].id = i
    <3>1. IsLast(log, i, comp.end, k) /\ ~log[k].del
      BY Zenon, <1>2, <2>2, <2>3, <2>5
    <3> QED
      BY Zenon, <2>1, <3>1 DEF CopiesRight
  <2> QED
    BY SMTT(30), <1>1, <2>2, <2>4, <2>5
<1> QED
  BY Zenon, <1>3, <1>4 DEF SwapRight

(* A compaction that has not begun, or is over.                            *)
LEMMA NoCompaction ==
    ASSUME comp'.pc \in {"idle", "installed"}
    PROVE  SnapshotRight' /\ CopiesRight' /\ SwapRight'
BY Zenon DEF SnapshotRight, CopiesRight, SwapRight

(* append_and_hash keeps the index right.                                  *)
LEMMA AppendRight ==
    ASSUME Types, Right, IndexFree, NEW i \in Ids, NEW d \in BOOLEAN, i < nextId,
           AppendAndHash(i, d), pending' \subseteq pending,
           UNCHANGED <<up, synced, nextId, files, comp, durable, undone>>
    PROVE  Right'
<1>1. /\ log'[Len(log) + 1].id = i /\ log'[Len(log) + 1].del = d
      /\ log' \in Logs /\ Len(log') = Len(log) + 1
      /\ \A k \in 1 .. Len(log) : log'[k] = log[k]
      /\ hash' = [hash EXCEPT ![i] = [off |-> Len(log) + 1, del |-> d]]
  <2> DEFINE f == [id |-> i, stamp |-> stamp + 1, del |-> d]
  <2>1. /\ f.id = i /\ f.del = d /\ log'[Len(log) + 1] = f
        /\ log' \in Logs /\ Len(log') = Len(log) + 1
        /\ \A k \in 1 .. Len(log) : log'[k] = log[k]
        /\ hash' = [hash EXCEPT ![i] = [off |-> Len(log) + 1, del |-> d]]
    BY AppendedFrame
  <2> HIDE DEF f
  <2> QED
    BY Zenon, <2>1
<1>2. Len(log) \in Nat /\ synced \in 0 .. Len(log) /\ hash \in Index
  BY Zenon, LogFrames DEF Types
<1>3. up /\ comp.pc # "renamed"
  BY Zenon DEF IndexFree
<1>4. IndexRight'
  <2>1. SUFFICES ASSUME NEW j \in Ids PROVE IsEntry(hash'[j], log', j, Len(log'))
    BY Zenon DEF IndexRight
  <2>2. CASE j = i
    <3>1. hash'[j] = [off |-> Len(log) + 1, del |-> d]
      BY Zenon, <1>1, <1>2, <2>2 DEF Index
    <3>2. hash'[j].off = Len(log) + 1 /\ hash'[j].del = d
      BY <3>1
    <3>3. IsLast(log', j, Len(log) + 1, Len(log) + 1)
      BY <1>1, <1>2, <2>2 DEF IsLast
    <3>4. Len(log') = Len(log) + 1 /\ Len(log) + 1 # 0 /\ log'[Len(log) + 1].del = d
      BY <1>1, <1>2
    <3> QED
      BY Zenon, <3>2, <3>3, <3>4 DEF IsEntry
  <2>3. CASE j # i
    <3>1. hash'[j] = hash[j] /\ hash[j] \in Entry
      BY Zenon, <1>1, <1>2, <2>3 DEF Index
    <3>2. IsEntry(hash[j], log, j, Len(log))
      BY Zenon, <1>3 DEF Right, IndexRight, Quiet
    <3>3. IsEntry(hash[j], log', j, Len(log))
      BY Zenon, <1>1, <1>2, <3>1, <3>2, SameFrames
    <3>4. \A k \in Len(log) + 1 .. Len(log) + 1 : log'[k].id # j
      BY <1>1, <1>2, <2>3
    <3>5. Len(log) \in 0 .. Len(log) + 1 /\ Len(log) + 1 \in Nat
      BY <1>2
    <3>6. IsEntry(hash[j], log', j, Len(log) + 1)
      BY Zenon, <3>1, <3>3, <3>4, <3>5, OtherFrames
    <3> QED
      BY Zenon, <1>1, <3>1, <3>6
  <2> QED
    BY Zenon, <2>2, <2>3
<1>5. DurableInLog'
  <2>1. synced \in Nat /\ \A k \in 1 .. synced : log'[k] = log[k]
    BY <1>1, <1>2
  <2>2. ASSUME NEW j \in Ids \ undone PROVE Sees(durable[j], log', j, synced)
    <3>1. Sees(durable[j], log, j, synced)
      BY Zenon DEF Right, DurableInLog
    <3>2. \A v : Sees(v, log', j, synced) <=> Sees(v, log, j, synced)
      BY Zenon, <2>1, SameFrames
    <3> QED
      BY Zenon, <3>1, <3>2
  <2> QED
    BY Zenon, <2>2 DEF DurableInLog
<1>6. SnapshotRight' /\ CopiesRight' /\ SwapRight'
  BY <1>1, <1>2, <1>3, CompactionKept DEF Right
<1>7. IdsBelow'
  <2>0. meta' = meta
    BY Zenon DEF files
  <2>1. ASSUME NEW k \in 1 .. Len(log') PROVE log'[k].id < nextId
    <3>1. CASE k = Len(log) + 1
      BY Zenon, <1>1, <3>1
    <3>2. CASE k # Len(log) + 1
      BY <1>1, <1>2, <1>3, <3>2 DEF Right, IdsBelow
    <3> QED
      BY Zenon, <3>1, <3>2
  <2> QED
    BY Zenon, <1>3, <2>0, <2>1 DEF Right, IdsBelow
<1>8. FilesRight'
  BY Zenon, FilesKept DEF files
<1> QED
  BY Zenon, <1>4, <1>5, <1>6, <1>7, <1>8 DEF Right

(* The write path keeps the index right: an insert is given an id that is  *)
(* in no frame, and the frame an update loads is one of its record.        *)
LEMMA WriteRight ==
    ASSUME Types, Right, NEW i \in Ids,
           NextIdForInsert \/ Insert(i) \/ InsertFails(i) \/ Update(i) \/ Delete(i)
    PROVE  Right'
<1>1. CASE NextIdForInsert
  <2>1. IndexRight' /\ DurableInLog' /\ SnapshotRight' /\ CopiesRight' /\ SwapRight'
    BY Zenon, <1>1
       DEF NextIdForInsert, history, Right, IndexRight, Quiet, DurableInLog,
           SnapshotRight, CopiesRight, SwapRight
  <2>2. FilesRight'
    BY Zenon, <1>1, FilesKept DEF NextIdForInsert, files, history
  <2>3. IdsBelow'
    <3>1. /\ up /\ up' = up /\ log' = log /\ meta' = meta
          /\ pending' = pending \cup {nextId} /\ nextId' = nextId + 1
          /\ nextId \in Nat /\ meta \in Nat /\ \A j \in pending : j \in Nat
      BY <1>1 DEF NextIdForInsert, files, Types, Ids
    <3>2. \A k \in 1 .. Len(log) : log[k].id \in Nat
      BY LogFrames DEF Types
    <3>3. /\ meta <= nextId
          /\ \A k \in 1 .. Len(log) : log[k].id < nextId
          /\ \A j \in pending : j < nextId
      BY Zenon, <3>1 DEF Right, IdsBelow
    <3>4. /\ meta <= nextId + 1 /\ nextId + 1 # 0
          /\ \A k \in 1 .. Len(log) : log[k].id < nextId + 1
          /\ \A j \in pending \cup {nextId} : j < nextId + 1
      BY <3>1, <3>2, <3>3
    <3> QED
      BY Zenon, <3>1, <3>4 DEF IdsBelow
  <2> QED
    BY Zenon, <2>1, <2>2, <2>3 DEF Right
<1>2. CASE Insert(i)
  <2>1. i < nextId
    BY Zenon, <1>2 DEF Insert, IndexFree, Right, IdsBelow
  <2> QED
    BY Zenon, <1>2, <2>1, AppendRight DEF Insert, history
<1>3. CASE InsertFails(i)
  <2>1. IndexRight' /\ DurableInLog' /\ SnapshotRight' /\ CopiesRight' /\ SwapRight'
    BY Zenon, <1>3
       DEF InsertFails, history, Right, IndexRight, Quiet, DurableInLog,
           SnapshotRight, CopiesRight, SwapRight
  <2>2. FilesRight' /\ IdsBelow'
    BY Zenon, <1>3, FilesKept DEF InsertFails, files, history, Right, IdsBelow
  <2> QED
    BY Zenon, <2>1, <2>2 DEF Right
<1>4. ASSUME NEW d \in BOOLEAN, Rewrite(i, d) PROVE Right'
  <2>1. hash[i].off \in 1 .. Len(log) /\ IsEntry(hash[i], log, i, Len(log)) /\ up
    BY Zenon, <1>4 DEF Rewrite, IndexFree, Quiet, Right, IndexRight, Readable
  <2>2. log[hash[i].off].id = i
    BY <2>1 DEF IsEntry, IsLast
  <2>3. i < nextId
    BY Zenon, <2>1, <2>2 DEF Right, IdsBelow
  <2>4. AppendAndHash(i, d) /\ IndexFree /\ pending' \subseteq pending
    BY Zenon, <1>4, <2>2 DEF Rewrite
  <2>5. UNCHANGED <<up, synced, nextId, files, comp, durable, undone>>
    BY Zenon, <1>4 DEF Rewrite, history
  <2> QED
    BY Zenon, <2>3, <2>4, <2>5, AppendRight
<1> QED
  BY Zenon, <1>1, <1>2, <1>3, <1>4 DEF Update, Delete

-----------------------------------------------------------------------------
(* A checkpoint taken while the index is in use.                           *)
LEMMA CheckpointRight ==
    ASSUME Types, Right, IndexFree
    PROVE  CkptRight(CheckpointNow)
<1>1. up /\ Quiet
  BY Zenon DEF IndexFree, Quiet
<1>2. /\ CheckpointNow.covered = Len(log) /\ CheckpointNow.over = log
      /\ CheckpointNow.hash = hash /\ CheckpointNow.nextId = nextId
  BY Zenon DEF CheckpointNow
<1>3. /\ hash \in Index /\ nextId # 0
      /\ \A i \in Ids : IsEntry(hash[i], log, i, Len(log))
      /\ \A k \in 1 .. Len(log) : log[k].id < nextId
  BY Zenon, <1>1 DEF Types, Right, IndexRight, IdsBelow
<1> HIDE DEF CheckpointNow
<1> QED
  BY Zenon, <1>2, <1>3 DEF CkptRight

(* No checkpoint is right.                                                 *)
LEMMA NoCheckpointRight == CkptRight(NoCkpt)
BY Zenon DEF CkptRight

(* Flushes, checkpoints and the first two phases of compaction.            *)
LEMMA MaintenanceRight ==
    ASSUME Types, Right,
           Fsync \/ Checkpoint \/ CompactSnapshot \/ CompactAbort \/ CompactUnlink
    PROVE  Right'
<1>1. CASE Fsync
  <2>1. IndexRight' /\ IdsBelow'
    BY Zenon, <1>1 DEF Fsync, Right, IndexRight, Quiet, IdsBelow
  <2>2. SnapshotRight' /\ CopiesRight' /\ SwapRight'
    BY Zenon, <1>1 DEF Fsync, LogFree, Right, SnapshotRight, CopiesRight, SwapRight
  <2>3. DurableInLog'
    <3>1. MakeDurable /\ synced' = Len(log) /\ log' = log
      BY Zenon, <1>1 DEF Fsync
    <3> QED
      BY Zenon, <3>1, FlushRight DEF DurableInLog
  <2>4. FilesRight'
    <3>1. MakeDurable /\ oldLogs' = OldLogsLag /\ ckpt' = ckpt /\ oldCkpts' = oldCkpts
      BY Zenon, <1>1 DEF Fsync
    <3>2. OldLogsRight'
      BY Zenon, <3>1, FlushRight DEF OldLogsRight
    <3> QED
      BY Zenon, <3>1, <3>2 DEF Right, FilesRight
  <2> QED
    BY Zenon, <2>1, <2>2, <2>3, <2>4 DEF Right
<1>2. CASE Checkpoint
  <2>1. IndexRight' /\ IdsBelow' /\ DurableInLog'
    BY Zenon, <1>2
       DEF Checkpoint, history, Right, IndexRight, Quiet, IdsBelow, DurableInLog
  <2>2. SnapshotRight' /\ CopiesRight' /\ SwapRight'
    BY Zenon, <1>2 DEF Checkpoint, Right, SnapshotRight, CopiesRight, SwapRight
  <2>3. /\ CkptRight(CheckpointNow) /\ ckpt' = CheckpointNow
        /\ FsyncParent(oldLogs, oldCkpts \cup {ckpt})
        /\ UNCHANGED <<durable, undone>>
    BY Zenon, <1>2, CheckpointRight DEF Checkpoint, history
  <2>4. \A c \in oldCkpts \cup {ckpt} : CkptRight(c)
    BY Zenon DEF Right, FilesRight
  <2>5. CkptRight(ckpt)'
    BY Zenon, <2>3 DEF CkptRight
  <2>6. FilesRight'
    BY Zenon, <2>3, <2>4, <2>5, FsyncParentRight
  <2> QED
    BY Zenon, <2>1, <2>2, <2>6 DEF Right
<1>3. CASE CompactSnapshot
  <2>1. /\ comp'.pc = "copy" /\ comp'.snap = hash /\ comp'.end = Len(log)
        /\ UNCHANGED <<up, log, synced, hash, nextId, pending, files, durable, undone>>
        /\ up /\ Quiet
    BY Zenon, <1>3, SnapshotType DEF CompactSnapshot, history, IndexFree, Quiet
  <2>2. SnapshotRight'
    BY SMTT(30), <2>1, LogFrames DEF Types, SnapshotRight, Right, IndexRight
  <2>3. IndexRight' /\ DurableInLog' /\ IdsBelow' /\ CopiesRight' /\ SwapRight'
    BY Zenon, <2>1
       DEF files, Right, IndexRight, DurableInLog, IdsBelow, CopiesRight, SwapRight
  <2>4. FilesRight'
    BY Zenon, <2>1, FilesKept DEF files
  <2> QED
    BY Zenon, <2>2, <2>3, <2>4 DEF Right
<1>4. CASE CompactAbort
  <2>1. /\ comp'.pc = "idle" /\ up /\ Quiet
        /\ UNCHANGED <<up, log, synced, hash, nextId, pending, files, durable, undone>>
    BY Zenon, <1>4, ConstantTypes DEF CompactAbort, history, IndexFree, Quiet
  <2>2. SnapshotRight' /\ CopiesRight' /\ SwapRight'
    BY Zenon, <2>1, NoCompaction
  <2>3. IndexRight' /\ DurableInLog' /\ IdsBelow'
    BY Zenon, <2>1 DEF files, Right, IndexRight, DurableInLog, IdsBelow
  <2>4. FilesRight'
    BY Zenon, <2>1, FilesKept DEF files
  <2> QED
    BY Zenon, <2>2, <2>3, <2>4 DEF Right
<1>5. CASE CompactUnlink
  <2>1. /\ comp'.pc = "idle" /\ Quiet /\ ckpt' = NoCkpt
        /\ oldCkpts' \subseteq oldCkpts \cup {ckpt}
        /\ UNCHANGED <<up, log, synced, hash, nextId, pending, oldLogs, meta, durable, undone>>
    BY Zenon, <1>5, ConstantTypes DEF CompactUnlink, history, Quiet
  <2>2. SnapshotRight' /\ CopiesRight' /\ SwapRight'
    BY Zenon, <2>1, NoCompaction
  <2>3. IndexRight' /\ DurableInLog' /\ IdsBelow'
    BY Zenon, <2>1 DEF Right, IndexRight, DurableInLog, IdsBelow
  <2>4. CkptRight(ckpt)'
    BY Zenon, <2>1, NoCheckpointRight DEF CkptRight
  <2>5. OldLogsRight'
    BY Zenon, <2>1 DEF Right, FilesRight, OldLogsRight
  <2>6. FilesRight'
    BY Zenon, <2>1, <2>4, <2>5 DEF Right, FilesRight
  <2> QED
    BY Zenon, <2>2, <2>3, <2>6 DEF Right
<1> QED
  BY Zenon, <1>1, <1>2, <1>3, <1>4, <1>5

(* Phase 2 copies the last version of every record that is not deleted,    *)
(* and nothing else.                                                       *)
LEMMA CopyRight ==
    ASSUME Types, Right, CompactCopy
    PROVE  Right'
<1> DEFINE live == {i \in Ids : Live(comp.snap, i)}
<1>1. /\ comp.pc = "copy" /\ Quiet /\ comp.end \in Nat /\ comp.snap \in Index
      /\ UNCHANGED <<up, log, synced, hash, nextId, pending, files, durable, undone>>
      /\ comp.end <= Len(log)
      /\ \A i \in Ids : IsEntry(comp.snap[i], log, i, comp.end)
  BY Zenon, CompFields DEF CompactCopy, history, Quiet, Types, Right, SnapshotRight
<1>2. IndexRight' /\ DurableInLog' /\ IdsBelow'
  BY Zenon, <1>1 DEF files, Right, IndexRight, DurableInLog, IdsBelow
<1>3. FilesRight'
  BY Zenon, <1>1, FilesKept DEF files
<1>4. CASE comp' = Idle
  <2>1. SnapshotRight' /\ CopiesRight' /\ SwapRight'
    BY Zenon, <1>4, NoCompaction, ConstantTypes
  <2> QED
    BY Zenon, <1>2, <1>3, <2>1 DEF Right
<1>5. CASE comp' # Idle
  <2>1. /\ \A i \in live : Readable(log, comp.snap[i].off)
        /\ comp'.pc = "copied" /\ comp'.end = comp.end
        /\ \E o \in Orders(live) :
              /\ comp'.new = [k \in DOMAIN o |-> log[comp.snap[o[k]].off]]
              /\ comp'.locs = [k \in DOMAIN o |-> [id |-> o[k], del |-> FALSE]]
    BY Zenon, <1>5, CopyType
  <2>2. PICK o \in Orders(live) :
          /\ comp'.new = [k \in DOMAIN o |-> log[comp.snap[o[k]].off]]
          /\ comp'.locs = [k \in DOMAIN o |-> [id |-> o[k], del |-> FALSE]]
    BY Zenon, <2>1
  <2> DEFINE c == Len(o)
  <2>3. /\ c \in Nat /\ o \in [1 .. c -> live]
        /\ \A x \in live : \E k \in 1 .. c : o[k] = x
    BY ZenonT(30), OrderDomain
  <2>4. Len(comp'.new) = c /\ Len(comp'.locs) = c
    BY ZenonT(30), <1>1, <2>1, <2>2, CopyShape
  <2>5. \A i \in live : /\ i \in Ids /\ comp.snap[i].off \in 1 .. comp.end
                        /\ log[comp.snap[i].off].id = i /\ ~log[comp.snap[i].off].del
                        /\ Good(log[comp.snap[i].off])
                        /\ IsLast(log, i, comp.end, comp.snap[i].off)
    BY Zenon, <1>1, <2>1 DEF Live, IsEntry, IsLast, Readable
  <2>6. \A p \in 1 .. c : /\ o[p] \in live /\ comp'.new[p] = log[comp.snap[o[p]].off]
                          /\ comp'.locs[p] = [id |-> o[p], del |-> FALSE]
    BY ZenonT(30), <2>2, <2>3
  <2>7. ASSUME NEW i \in Ids, NEW k \in 1 .. comp.end,
               IsLast(log, i, comp.end, k), ~log[k].del
        PROVE  i \in live
    <3>1. IsEntry(comp.snap[i], log, i, comp.end) /\ comp.snap[i].off \in Nat
      BY Zenon, <1>1 DEF Index, Entry
    <3>2. comp.snap[i].off = k
      BY SMTT(30), <1>1, <2>7, <3>1, LastUnique DEF IsEntry
    <3>3. comp.snap[i].off # 0 /\ ~comp.snap[i].del
      BY SMTT(30), <2>7, <3>1, <3>2 DEF IsEntry
    <3> QED
      BY Zenon, <3>3 DEF Live
  <2> HIDE DEF live, c
  <2>8. ASSUME NEW p \in 1 .. c
        PROVE  /\ comp'.locs[p] = [id |-> comp'.new[p].id, del |-> FALSE]
               /\ \E k \in 1 .. comp.end :
                    /\ comp'.new[p] = log[k] /\ Good(log[k]) /\ ~log[k].del
                    /\ IsLast(log, log[k].id, comp.end, k)
    <3>1. /\ o[p] \in live /\ comp'.new[p] = log[comp.snap[o[p]].off]
          /\ comp'.locs[p] = [id |-> o[p], del |-> FALSE]
      BY ZenonT(30), <2>6
    <3> DEFINE k == comp.snap[o[p]].off
    <3>2. /\ k \in 1 .. comp.end /\ log[k].id = o[p] /\ ~log[k].del /\ Good(log[k])
          /\ IsLast(log, o[p], comp.end, k)
      BY Zenon, <2>5, <3>1
    <3>3. comp'.new[p] = log[k]
      BY Zenon, <3>1
    <3> HIDE DEF k
    <3> QED
      BY Zenon, <3>1, <3>2, <3>3
  <2>9. ASSUME NEW i \in Ids, NEW k \in 1 .. comp.end,
               IsLast(log, i, comp.end, k), ~log[k].del
        PROVE  \E p \in 1 .. c : comp'.new[p].id = i
    <3>1. i \in live
      BY Zenon, <2>7, <2>9
    <3>2. PICK p \in 1 .. c : o[p] = i
      BY Zenon, <2>3, <3>1
    <3>3. comp'.new[p] = log[comp.snap[i].off]
      BY ZenonT(30), <2>6, <3>2
    <3>4. log[comp.snap[i].off].id = i
      BY Zenon, <2>5, <3>1
    <3> QED
      BY Zenon, <3>3, <3>4
  <2>10. CopiesRight'
    BY ZenonT(30), <1>1, <2>1, <2>4, <2>8, <2>9 DEF CopiesRight
  <2> QED
    BY Zenon, <1>2, <1>3, <2>1, <2>10 DEF Right, SnapshotRight, SwapRight
<1> QED
  BY Zenon, <1>4, <1>5

-----------------------------------------------------------------------------
(* The new log: copies first, then the tail of the old one.                *)
LEMMA SwapShape ==
    ASSUME Types, Right, CompactSwap
    PROVE  /\ comp.end \in 0 .. Len(log) /\ Len(comp.new) \in Nat /\ Len(log) \in Nat
           /\ Len(log') = Len(comp.new) + (Len(log) - comp.end)
           /\ \A p \in 1 .. Len(comp.new) : log'[p] = comp.new[p]
           /\ \A k \in comp.end + 1 .. Len(log) :
                log'[k - comp.end + Len(comp.new)] = log[k]
           /\ \A p \in Len(comp.new) + 1 .. Len(log') :
                log'[p] = log[p - Len(comp.new) + comp.end]
           /\ Len(comp'.locs) = Len(log')
           /\ \A p \in 1 .. Len(log') : comp'.locs[p] = [id |-> log'[p].id, del |-> log'[p].del]
<1> DEFINE tail == Drained(log, comp.end)
           tlocs == [k \in DOMAIN tail |-> [id |-> tail[k].id, del |-> tail[k].del]]
           e == comp.end
           n == Len(comp.new)
           L == Len(log)
<1>1. comp.pc = "copied"
  BY Zenon DEF CompactSwap
<1>2. /\ e \in Nat /\ comp.new \in Logs /\ n \in Nat /\ L \in Nat /\ e <= L
      /\ comp.locs \in Locs /\ Len(comp.locs) = n /\ log \in Logs
  BY Zenon, <1>1, CompFields, LogFrames DEF Types, Right, CopiesRight
<1>3. /\ tail \in Logs /\ tlocs \in Locs /\ Len(tlocs) = Len(tail) /\ DOMAIN tail = 1 .. Len(tail)
      /\ Len(tail) = L - e /\ \A k \in 1 .. L - e : tail[k] = log[e + k]
  BY Zenon, <1>2, TailShape
<1>a. Len(tail) = L - e
  BY Zenon, <1>3
<1>4. log' = comp.new \o tail /\ comp'.locs = comp.locs \o tlocs
  BY Zenon, SwapType
<1>5. \A k \in 1 .. L - e : tlocs[k] = [id |-> tail[k].id, del |-> tail[k].del]
  BY Zenon, <1>3
<1>6. \A p \in 1 .. n : comp.locs[p] = [id |-> comp.new[p].id, del |-> FALSE] /\ ~comp.new[p].del
                      /\ comp.new[p] \in AnyFrame
  BY Zenon, <1>1, <1>2, LogFrames DEF Right, CopiesRight
<1> HIDE DEF tail, tlocs
<1>7. /\ Len(log') = n + (L - e)
      /\ \A p \in 1 .. n : log'[p] = comp.new[p]
      /\ \A j \in 1 .. L - e : log'[n + j] = log[e + j]
  <2>1. /\ Len(log') = n + Len(tail)
        /\ \A p \in 1 .. n + Len(tail) : log'[p] = IF p <= n THEN comp.new[p] ELSE tail[p - n]
    <3>1. comp.new \in Seq(AnyFrame) /\ tail \in Seq(AnyFrame)
      BY Zenon, <1>2, <1>3 DEF Logs
    <3> QED
      BY Zenon, <1>4, <3>1, Concatenated
  <2>2. ASSUME NEW j \in 1 .. L - e PROVE log'[n + j] = log[e + j]
    <3>1. n + j \in 1 .. n + Len(tail) /\ ~ (n + j <= n) /\ (n + j) - n = j
      BY SMTT(30), <1>2, <1>a
    <3> QED
      BY Zenon, <1>3, <2>1, <3>1
  <2> HIDE DEF n, e, L
  <2> QED
    BY SMTT(30), <1>2, <1>3, <2>1, <2>2
<1>8. /\ Len(comp'.locs) = n + (L - e)
      /\ \A p \in 1 .. n : comp'.locs[p] = comp.locs[p]
      /\ \A j \in 1 .. L - e : comp'.locs[n + j] = tlocs[j]
  <2>1. /\ Len(comp'.locs) = n + Len(tail)
        /\ \A p \in 1 .. n + Len(tail) : comp'.locs[p] = IF p <= n THEN comp.locs[p] ELSE tlocs[p - n]
    <3>0. comp.locs \in Seq(Loc) /\ tlocs \in Seq(Loc)
      BY Zenon, <1>2, <1>3 DEF Locs
    <3>1. /\ Len(comp.locs \o tlocs) = Len(comp.locs) + Len(tlocs)
          /\ \A p \in 1 .. Len(comp.locs) + Len(tlocs) :
                (comp.locs \o tlocs)[p] = IF p <= Len(comp.locs) THEN comp.locs[p]
                                         ELSE tlocs[p - Len(comp.locs)]
      BY Zenon, <3>0, Concatenated
    <3> HIDE DEF n
    <3> QED
      BY Zenon, <1>2, <1>3, <1>4, <3>1
  <2>2. ASSUME NEW j \in 1 .. L - e PROVE comp'.locs[n + j] = tlocs[j]
    <3>1. n + j \in 1 .. n + Len(tail) /\ ~ (n + j <= n) /\ (n + j) - n = j
      BY SMTT(30), <1>2, <1>3
    <3> QED
      BY Zenon, <2>1, <3>1
  <2> HIDE DEF n, e, L
  <2> QED
    BY SMTT(30), <1>2, <1>3, <2>1, <2>2
<1>9. ASSUME NEW p \in 1 .. Len(log')
      PROVE  comp'.locs[p] = [id |-> log'[p].id, del |-> log'[p].del]
  <2>1. CASE p <= n
    <3>1. p \in 1 .. n
      BY SMTT(30), <1>2, <1>7, <2>1
    <3>2. comp.new[p].del = FALSE
      BY Zenon, <1>6, <3>1, FrameFields
    <3> QED
      BY SMTT(30), <1>6, <1>7, <1>8, <3>1, <3>2
  <2>2. CASE ~ (p <= n)
    <3> DEFINE j == p - n
    <3>1. j \in 1 .. L - e /\ p = n + j
      BY SMTT(30), <1>2, <1>7, <2>2
    <3> HIDE DEF j
    <3>2. comp'.locs[p] = tlocs[j] /\ log'[p] = tail[j]
      BY Zenon, <1>3, <1>7, <1>8, <3>1
    <3> QED
      BY Zenon, <1>5, <3>1, <3>2
  <2> QED
    BY Zenon, <2>1, <2>2
<1>10. ASSUME NEW k \in e + 1 .. L PROVE log'[k - e + n] = log[k]
  <2>1. k - e \in 1 .. L - e /\ n + (k - e) = k - e + n /\ e + (k - e) = k
    BY SMTT(30), <1>2
  <2> QED
    BY Zenon, <1>7, <2>1
<1>11. ASSUME NEW p \in n + 1 .. Len(log') PROVE log'[p] = log[p - n + e]
  <2>1. p - n \in 1 .. L - e /\ n + (p - n) = p /\ e + (p - n) = p - n + e
    BY SMTT(30), <1>2, <1>7
  <2> QED
    BY Zenon, <1>7, <2>1
<1>12. e \in 0 .. L /\ Len(comp'.locs) = Len(log')
  BY <1>2, <1>7, <1>8
<1> QED
  BY ZenonT(30), <1>2, <1>7, <1>9, <1>10, <1>11, <1>12

(* The swap changes nothing a reader sees.                                 *)
LEMMA SwapSees ==
    ASSUME Types, Right, CompactSwap, NEW i \in Ids, NEW v, Sees(v, log, i, Len(log))
    PROVE  Sees(v, log', i, Len(log'))
<1> DEFINE e == comp.end
           n == Len(comp.new)
           L == Len(log)
           M == Len(log')
<1>1. /\ e \in Nat /\ n \in Nat /\ L \in Nat /\ e <= L /\ M = n + (L - e)
      /\ \A p \in 1 .. n : log'[p] = comp.new[p]
      /\ \A k \in e + 1 .. L : log'[k - e + n] = log[k]
      /\ \A p \in n + 1 .. M : log'[p] = log[p - n + e]
  BY SwapShape
<1>2. /\ \A p \in 1 .. n : \E k \in 1 .. e : /\ comp.new[p] = log[k] /\ ~log[k].del
                                           /\ IsLast(log, log[k].id, e, k)
      /\ \A k \in 1 .. e : IsLast(log, i, e, k) /\ ~log[k].del =>
             \E p \in 1 .. n : comp.new[p].id = i
  BY Zenon DEF Right, CopiesRight, CompactSwap
<1> HIDE DEF e, n, L, M
<1>3. PICK k \in 0 .. L :
        IsLast(log, i, L, k) /\ v = IF k = 0 \/ log[k].del THEN 0 ELSE log[k].stamp
  BY Zenon DEF Sees, L
<1>4. SUFFICES \E q \in 0 .. M :
        IsLast(log', i, M, q) /\ v = IF q = 0 \/ log'[q].del THEN 0 ELSE log'[q].stamp
  BY Zenon DEF Sees, M
<1>0. k \in 0 .. L /\ e \in Nat /\ n \in Nat /\ L \in Nat /\ e <= L /\ M = n + (L - e)
  BY Zenon, <1>1
<1>5. CASE k > e
  <2> DEFINE q == k - e + n
  <2>1. q \in 1 .. M /\ q # 0 /\ log'[q] = log[k] /\ k # 0 /\ log[k].id = i
    BY <1>1, <1>3, <1>5 DEF IsLast
  <2>2. ASSUME NEW p \in q + 1 .. M PROVE log'[p].id # i
    <3>1. p \in n + 1 .. M /\ p - n + e \in k + 1 .. L
      BY SMTT(30), <1>0, <1>5
    <3>2. \A j \in k + 1 .. L : log[j].id # i
      BY SMTT(30), <1>1, <1>3, <1>5 DEF IsLast
    <3>3. log'[p] = log[p - n + e] /\ log[p - n + e].id # i
      BY Zenon, <1>1, <3>1, <3>2
    <3> QED
      BY Zenon, <3>3
  <2> HIDE DEF q
  <2>3. IsLast(log', i, M, q)
    BY Zenon, <2>1, <2>2 DEF IsLast
  <2> QED
    BY SMTT(30), <1>3, <2>1, <2>3
<1>6. CASE k <= e
  <2>1. \A j \in e + 1 .. L : log[j].id # i
    BY <1>1, <1>3, <1>6 DEF IsLast
  <2>2. IsLast(log, i, e, k)
    <3>1. e \in 0 .. L /\ k \in Nat
      BY <1>1, <1>3
    <3> QED
      BY Zenon, <1>1, <1>3, <2>1, <3>1, LastOverlay
  <2>3. \A p \in n + 1 .. M : log'[p].id # i
    <3> TAKE p \in n + 1 .. M
    <3>1. p - n + e \in e + 1 .. L
      BY <1>1
    <3> QED
      BY Zenon, <1>1, <2>1, <3>1
  <2>4. ASSUME NEW p \in 1 .. n, comp.new[p].id = i
        PROVE  k # 0 /\ comp.new[p] = log[k] /\ ~log[k].del
    <3>1. PICK j \in 1 .. e : comp.new[p] = log[j] /\ ~log[j].del /\ IsLast(log, log[j].id, e, j)
      BY Zenon, <1>2
    <3>2. IsLast(log, i, e, j)
      BY Zenon, <2>4, <3>1
    <3>3. j = k
      BY SMTT(30), <1>1, <1>3, <2>2, <3>2, LastUnique
    <3> QED
      BY <3>1, <3>3
  <2>5. CASE k = 0 \/ log[k].del
    <3>1. \A p \in 1 .. M : log'[p].id # i
      <4> TAKE p \in 1 .. M
      <4>1. CASE p \in 1 .. n
        BY Zenon, <1>1, <2>4, <2>5, <4>1
      <4>2. CASE p \in n + 1 .. M
        BY Zenon, <2>3, <4>2
      <4> QED
        BY <1>1, <4>1, <4>2
    <3>2. IsLast(log', i, M, 0) /\ 0 \in 0 .. M
      BY <1>1, <3>1 DEF IsLast
    <3> QED
      BY Zenon, <1>3, <2>5, <3>2
  <2>6. CASE ~ (k = 0 \/ log[k].del)
    <3>1. PICK p \in 1 .. n : comp.new[p].id = i
      BY SMTT(30), <1>2, <1>3, <1>6, <2>2, <2>6
    <3>2. PICK q \in 0 .. n : IsLast(log', i, n, q)
      BY Zenon, <1>1, LastExists
    <3>3. q # 0 /\ log'[q].id = i
      BY <1>1, <3>1, <3>2 DEF IsLast
    <3>4. q \in 1 .. n /\ log'[q] = comp.new[q] /\ comp.new[q].id = i
      BY <1>1, <3>3
    <3>5. log'[q] = log[k]
      BY Zenon, <2>4, <3>4
    <3>6. n \in 0 .. M /\ q \in 0 .. M /\ M \in Nat /\ q \in Nat
      BY <1>1
    <3>7. IsLast(log', i, M, q)
      BY Zenon, <1>1, <2>3, <3>2, <3>6, LastOverlay
    <3> QED
      BY Zenon, <1>3, <2>6, <3>3, <3>5, <3>6, <3>7
  <2> QED
    BY Zenon, <2>5, <2>6
<1> QED
  BY SMTT(30), <1>1, <1>3, <1>5, <1>6

(* The swap and the index rebuilt after it.                                *)
LEMMA SwapStepRight ==
    ASSUME Types, Right, CompactSwap
    PROVE  Right'
<1>1. /\ up /\ comp.pc = "copied" /\ synced' = Len(log')
      /\ UNCHANGED <<up, nextId, pending, ckpt, oldCkpts, meta>>
      /\ MakeDurable /\ oldLogs' = OldLogsLag \cup {[log |-> log, since |-> {}]}
  BY Zenon DEF CompactSwap, IndexFree
<1>2. comp'.pc = "renamed"
  BY Zenon, SwapType
<1>3. \A i \in Ids \ undone' : Sees(durable'[i], log, i, Len(log))
  BY Zenon, <1>1, FlushRight
<1>4. \A i \in Ids \ undone' : Sees(durable'[i], log', i, Len(log'))
  BY Zenon, <1>3, SwapSees
<1>5. IndexRight' /\ SnapshotRight' /\ CopiesRight'
  BY Zenon, <1>2 DEF IndexRight, Quiet, SnapshotRight, CopiesRight
<1>6. DurableInLog'
  BY Zenon, <1>1, <1>4 DEF DurableInLog
<1>7. SwapRight'
  BY Zenon, <1>1, <1>2, SwapShape DEF SwapRight
<1>8. FilesRight'
  <2> DEFINE new == [log |-> log, since |-> {}]
  <2>1. new.log = log /\ oldLogs' = OldLogsLag \cup {new}
    BY Zenon, <1>1
  <2> HIDE DEF new
  <2>2. \A i \in Ids \ undone' : Sees(durable'[i], new.log, i, Len(new.log))
    BY Zenon, <1>3, <2>1
  <2>3. OldLogsRight'
    BY Zenon, <1>1, <2>1, <2>2, FlushRight DEF OldLogsRight
  <2> QED
    BY Zenon, <1>1, <2>3 DEF Right, FilesRight
<1>9. IdsBelow'
  <2>1. ASSUME NEW p \in 1 .. Len(log') PROVE \E k \in 1 .. Len(log) : log'[p] = log[k]
    <3>1. /\ comp.end \in 0 .. Len(log) /\ Len(comp.new) \in Nat /\ Len(log) \in Nat
          /\ Len(log') = Len(comp.new) + (Len(log) - comp.end)
          /\ \A q \in 1 .. Len(comp.new) : log'[q] = comp.new[q]
          /\ \A q \in Len(comp.new) + 1 .. Len(log') :
                log'[q] = log[q - Len(comp.new) + comp.end]
      BY Zenon, SwapShape
    <3>2. CASE p \in 1 .. Len(comp.new)
      <4>1. \E k \in 1 .. comp.end : comp.new[p] = log[k]
        BY Zenon, <1>1, <3>2 DEF Right, CopiesRight
      <4> QED
        BY <3>1, <3>2, <4>1
    <3>3. CASE p \in Len(comp.new) + 1 .. Len(log')
      <4>0. /\ comp.end \in 0 .. Len(log) /\ Len(comp.new) \in Nat /\ Len(log) \in Nat
            /\ Len(log') = Len(comp.new) + (Len(log) - comp.end)
        BY Zenon, <3>1
      <4>1. p - Len(comp.new) + comp.end \in 1 .. Len(log)
        BY SMTT(30), <3>3, <4>0
      <4> QED
        BY Zenon, <3>1, <3>3, <4>1
    <3>4. Len(comp.new) \in Nat /\ Len(log') \in Int
      BY SMTT(30), <3>1
    <3>5. p \in 1 .. Len(comp.new) \/ p \in Len(comp.new) + 1 .. Len(log')
      BY SMTT(30), <3>4
    <3> QED
      BY Zenon, <3>2, <3>3, <3>5
  <2>2. \A k \in 1 .. Len(log) : log[k].id < nextId
    BY Zenon, <1>1 DEF Right, IdsBelow
  <2>3. \A p \in 1 .. Len(log') : log'[p].id < nextId
    BY Zenon, <2>1, <2>2
  <2> QED
    BY Zenon, <1>1, <2>3 DEF Right, IdsBelow
<1> QED
  BY Zenon, <1>5, <1>6, <1>7, <1>8, <1>9 DEF Right

(* The index compaction builds is the scan of the new log.                 *)
LEMMA InstallRight ==
    ASSUME Types, Right, CompactInstall
    PROVE  Right'
<1>1. /\ comp.pc = "renamed" /\ FsyncParent(oldLogs, oldCkpts)
      /\ \A i \in Ids : hash'[i] = Rebuilt(comp.locs, i)
      /\ UNCHANGED <<up, log, synced, nextId, pending, ckpt, meta, durable, undone>>
  BY Zenon DEF CompactInstall, history
<1>2. comp'.pc = "installed"
  BY Zenon DEF CompactInstall, Idle
<1>3. /\ comp.locs \in Locs /\ Len(comp.locs) = Len(log)
      /\ \A k \in 1 .. Len(log) : comp.locs[k] = [id |-> log[k].id, del |-> log[k].del]
  BY Zenon, <1>1, CompFields DEF Types, Right, SwapRight
<1>4. \A k \in 1 .. Len(log) : comp.locs[k].id = log[k].id /\ comp.locs[k].del = log[k].del
  <2> TAKE k \in 1 .. Len(log)
  <2>1. comp.locs[k] = [id |-> log[k].id, del |-> log[k].del]
    BY Zenon, <1>3
  <2> QED
    BY <2>1
<1>5. ASSUME NEW i \in Ids PROVE IsEntry(hash'[i], log, i, Len(log))
  <2> DEFINE r == Rebuilt(comp.locs, i)
  <2>1. /\ r \in Entry
        /\ Len(comp.locs) \in Nat
        /\ r.off = 0 => r.del = FALSE /\ \A k \in 1 .. Len(comp.locs) : comp.locs[k].id # i
        /\ r.off # 0 => /\ r.off \in 1 .. Len(comp.locs)
                        /\ comp.locs[r.off].id = i /\ comp.locs[r.off].del = r.del
                        /\ \A k \in r.off + 1 .. Len(comp.locs) : comp.locs[k].id # i
    <3>1. comp.locs \in Locs
      BY Zenon, <1>3
    <3> QED
      BY ZenonT(30), <3>1, RebuiltType
  <2>2. hash'[i] = r
    BY Zenon, <1>1
  <2> HIDE DEF r
  <2>3. CASE r.off = 0
    <3>1. IsLast(log, i, Len(log), r.off)
      BY Zenon, <1>3, <1>4, <2>1, <2>3 DEF IsLast
    <3> QED
      BY Zenon, <2>1, <2>2, <2>3, <3>1 DEF IsEntry
  <2>4. CASE r.off # 0
    <3>1. r.off \in 1 .. Len(log) /\ log[r.off].id = i /\ log[r.off].del = r.del
      BY Zenon, <1>3, <1>4, <2>1, <2>4
    <3>2. \A k \in r.off + 1 .. Len(log) : log[k].id # i
      BY SMTT(30), <1>3, <1>4, <2>1, <2>4, <3>1
    <3>3. IsLast(log, i, Len(log), r.off)
      BY Zenon, <3>1, <3>2 DEF IsLast
    <3> QED
      BY Zenon, <2>2, <2>4, <3>1, <3>3 DEF IsEntry
  <2> QED
    BY Zenon, <2>3, <2>4
<1>6. IndexRight' /\ DurableInLog' /\ IdsBelow'
  BY Zenon, <1>1, <1>5 DEF IndexRight, Right, DurableInLog, IdsBelow
<1>7. FilesRight'
  <2>1. CkptRight(ckpt)' /\ \A c \in oldCkpts : CkptRight(c)
    BY Zenon, <1>1 DEF Right, FilesRight
  <2> QED
    BY Zenon, <1>1, <2>1, FsyncParentRight
<1> QED
  BY Zenon, <1>2, <1>6, <1>7, NoCompaction DEF Right

-----------------------------------------------------------------------------
(* After a kill, a power failure or a shutdown every durable write is in   *)
(* the log.                                                                *)
LEMMA CrashRight ==
    ASSUME Types, Right, Kill \/ PowerFailure \/ Close
    PROVE  Right'
<1>1. ~up' /\ comp' = Idle
  BY Zenon DEF Kill, PowerFailure, Close, Restarting
<1>2. IndexRight' /\ IdsBelow' /\ SnapshotRight' /\ CopiesRight' /\ SwapRight'
  BY Zenon, <1>1, NoCompaction, ConstantTypes DEF IndexRight, Quiet, IdsBelow
<1>3. CASE Kill
  <2>1. DurableInLog'
    BY Zenon, <1>3 DEF Kill, history, Right, DurableInLog
  <2>2. FilesRight'
    BY Zenon, <1>3, FilesKept DEF Kill, files, history
  <2> QED
    BY Zenon, <1>2, <2>1, <2>2 DEF Right
<1>4. CASE PowerFailure
  <2>1. FilesRight'
    <3>1. ckpt' \in {ckpt} \cup oldCkpts /\ oldCkpts' = {} /\ oldLogs' = {}
      BY Zenon, <1>4 DEF PowerFailure
    <3> QED
      BY Zenon, <3>1 DEF Right, FilesRight, OldLogsRight
  <2>2. Len(log) \in Nat /\ synced \in 0 .. Len(log) /\ synced \in Nat /\ log \in Logs
    BY LogFrames DEF Types
  <2>3. synced' = Len(log')
    BY Zenon, <1>4 DEF PowerFailure
  <2>4. SUFFICES ASSUME NEW i \in Ids \ undone' PROVE Sees(durable'[i], log', i, Len(log'))
    BY Zenon, <1>2, <2>1, <2>3 DEF DurableInLog, Right
  <2>5. ASSUME NEW u \in oldLogs, log' = u.log, undone' = undone \cup u.since,
               durable' = durable
        PROVE  Sees(durable'[i], log', i, Len(log'))
    BY Zenon, <2>5 DEF Right, FilesRight, OldLogsRight
  <2>6. ASSUME log' \in SurvivesPower(log, synced),
               durable' = [j \in Ids |->
                 LET k == LastOf(log', j, synced)
                 IN  IF k = 0 THEN durable[j]
                     ELSE IF log'[k].del THEN 0 ELSE log'[k].stamp],
               undone' = {j \in undone : LastOf(log', j, synced) = 0}
        PROVE  Sees(durable'[i], log', i, Len(log'))
    <3>1. /\ Len(log') \in synced .. Len(log)
          /\ \A k \in 1 .. synced : log'[k] = log[k]
      BY Zenon, <2>2, <2>6, Survivors
    <3>2. \A v : Sees(v, log', i, synced) <=> Sees(v, log, i, synced)
      BY Zenon, <2>2, <3>1, SameFrames
    <3>3. LastOf(log', i, synced) # 0 \/ Sees(durable[i], log', i, synced)
      <4>1. i \notin undone => Sees(durable[i], log, i, synced)
        BY Zenon DEF Right, DurableInLog
      <4> QED
        BY Zenon, <2>6, <3>2, <4>1
    <3>4. Len(log') \in Nat /\ synced \in 0 .. Len(log')
      BY <2>2, <3>1
    <3>5. durable'[i] = LET k == LastOf(log', i, synced)
                        IN  IF k = 0 THEN durable[i] ELSE IF log'[k].del THEN 0 ELSE log'[k].stamp
      BY Zenon, <2>6
    <3> QED
      BY Zenon, <3>3, <3>4, <3>5, OverlaySees
  <2> QED
    BY Zenon, <1>4, <2>5, <2>6 DEF PowerFailure
<1>5. CASE Close
  <2>1. /\ CkptRight(CheckpointNow) /\ ckpt' = CheckpointNow
        /\ oldCkpts' = {} /\ oldLogs' = {}
    BY Zenon, <1>5, CheckpointRight DEF Close
  <2>2. FilesRight'
    BY Zenon, <2>1 DEF FilesRight, OldLogsRight
  <2>3. MakeDurable /\ synced' = Len(log) /\ log' = log
    BY Zenon, <1>5 DEF Close
  <2>4. DurableInLog'
    BY Zenon, <2>3, FlushRight DEF DurableInLog
  <2> QED
    BY Zenon, <1>2, <2>2, <2>4 DEF Right
<1> QED
  BY Zenon, <1>3, <1>4, <1>5

(* The index a recovery builds is the scan of the whole log, also when it  *)
(* starts from a checkpoint of this log.                                   *)
LEMMA RecoveredEntry ==
    ASSUME Types, Right, Recover, ~stale', NEW i \in Ids
    PROVE  IsEntry(hash'[i], log, i, Len(log))
<1> DEFINE from == IF Trusted THEN ckpt.covered ELSE 0
           k == LastOf(log, i, from)
<1>1. /\ from \in 0 .. Len(log) /\ Len(log) \in Nat /\ hash' \in Index
  BY Zenon, RecoverTypes, LogFrames DEF Types
<1>2. hash'[i] = IF k # 0 THEN EntryAt(log, k) ELSE IF Trusted THEN ckpt.hash[i] ELSE NoEntry
  BY Zenon DEF Recover
<1>3. Trusted => from = ckpt.covered
  BY Zenon
<1>4. ~Trusted => from = 0
  BY Zenon
<1> HIDE DEF from
<1>5. /\ k \in {0} \cup (from + 1 .. Len(log))
      /\ k = 0 => \A j \in from + 1 .. Len(log) : log[j].id # i
      /\ k # 0 => IsLast(log, i, Len(log), k)
  BY Zenon, <1>1, LastOfIs
<1> HIDE DEF k
<1>6. CASE k # 0
  <2>1. hash'[i].off = k /\ hash'[i].del = log[k].del
    BY <1>2, <1>6 DEF EntryAt
  <2> QED
    BY Zenon, <1>5, <1>6, <2>1 DEF IsEntry
<1>7. CASE k = 0 /\ Trusted
  <2>1. hash'[i] = ckpt.hash[i] /\ hash'[i] \in Entry
    BY Zenon, <1>1, <1>2, <1>7 DEF Index
  <2>2. SubSeq(log, 1, ckpt.covered) = ckpt.over
    BY Zenon, <1>7 DEF Recover
  <2>3. /\ ckpt.covered = Len(ckpt.over)
        /\ IsEntry(ckpt.hash[i], ckpt.over, i, Len(ckpt.over))
    BY Zenon, <1>7 DEF Right, FilesRight, CkptRight, Trusted
  <2>4. \A j \in 1 .. from : ckpt.over[j] = log[j]
    <3>1. \A j \in 1 .. from : SubSeq(log, 1, from)[j] = log[j]
      BY <1>1, LogFrames DEF Types, Logs
    <3> QED
      BY Zenon, <1>3, <1>7, <2>2, <3>1
  <2>5. IsEntry(hash'[i], ckpt.over, i, from)
    BY Zenon, <1>3, <1>7, <2>1, <2>3
  <2>6. from \in Nat
    BY <1>1
  <2>7. IsEntry(hash'[i], log, i, from)
    BY Zenon, <2>1, <2>4, <2>5, <2>6, SameFrames
  <2> QED
    BY Zenon, <1>1, <1>5, <1>7, <2>1, <2>7, OtherFrames
<1>8. CASE k = 0 /\ ~Trusted
  <2>1. hash'[i] = NoEntry /\ \A j \in 1 .. Len(log) : log[j].id # i
    BY <1>2, <1>4, <1>5, <1>8
  <2> QED
    BY <2>1 DEF NoEntry, IsEntry, IsLast
<1> QED
  BY Zenon, <1>6, <1>7, <1>8

(* Recovery keeps every durable write, and the ids it hands out next are   *)
(* above those in the log and in the checkpoint.                           *)
LEMMA RecoverRight ==
    ASSUME Types, DamageIsSynced, Stopped, Right, Recover, ~stale'
    PROVE  Right'
<1> DEFINE from == IF Trusted THEN ckpt.covered ELSE 0
           end == ScanEnd(log, from)
<1>1. /\ from \in 0 .. Len(log) /\ end \in 0 .. Len(log) /\ Len(log) \in Nat /\ log \in Logs
      /\ Len(log') = end /\ \A k \in 1 .. end : log'[k] = log[k]
      /\ hash' \in Index
  BY Zenon, RecoverTypes, LogFrames DEF Types
<1>2. \A k \in end + 1 .. Len(log) : ~Good(log[k])
  BY Zenon, <1>1, ScanEndIs
<1>3. /\ synced' = IF end < Len(log) THEN end ELSE synced
      /\ nextId' = RecoveredNextId(from)
      /\ UNCHANGED <<pending, ckpt, oldCkpts, oldLogs, meta, comp, durable, undone>>
      /\ ~up /\ up'
  BY Zenon DEF Recover, files
<1>4. /\ Trusted => from = ckpt.covered /\ SubSeq(log, 1, from) = ckpt.over
      /\ ~Trusted => from = 0
  BY Zenon DEF Recover
<1> HIDE DEF from, end
<1>5. comp'.pc = "idle" /\ pending' = {}
  BY Zenon, <1>3, ConstantTypes DEF Stopped
<1>6. \A i \in Ids : \A k \in end + 1 .. Len(log) : log[k].id # i
  BY <1>2, StorageAssumption DEF Good, Ids
<1>7. end \in Nat
  BY <1>1
<1>8. IndexRight'
  <2>1. ASSUME NEW i \in Ids PROVE IsEntry(hash'[i], log', i, end)
    <3>1. IsEntry(hash'[i], log, i, Len(log)) /\ hash'[i] \in Entry
      BY Zenon, <1>1, RecoveredEntry DEF Index
    <3>2. IsEntry(hash'[i], log, i, end)
      BY Zenon, <1>1, <1>6, <3>1, OtherFrames
    <3> QED
      BY Zenon, <1>1, <1>7, <3>1, <3>2, SameFrames
  <2> QED
    BY Zenon, <1>1, <2>1 DEF IndexRight
<1>9. DurableInLog'
  <2>1. ASSUME NEW i \in Ids \ undone PROVE Sees(durable[i], log', i, synced')
    <3>1. Sees(durable[i], log, i, synced) /\ synced \in 0 .. Len(log) /\ synced \in Nat
      BY <1>1 DEF Right, DurableInLog, Types
    <3>2. CASE end < Len(log)
      <4>1. synced = Len(log)
        <5>1. ~Good(log[Len(log)])
          BY <1>1, <1>2, <3>2
        <5>2. Len(log) \notin synced + 1 .. Len(log)
          BY Zenon, <5>1 DEF DamageIsSynced
        <5> QED
          BY <1>1, <3>1, <5>2
      <4>2. Sees(durable[i], log, i, end)
        BY Zenon, <1>1, <1>6, <3>1, <4>1, OtherFrames
      <4>3. Sees(durable[i], log', i, end)
        <5>1. \A v : Sees(v, log', i, end) <=> Sees(v, log, i, end)
          BY Zenon, <1>1, <1>7, SameFrames
        <5> QED
          BY Zenon, <4>2, <5>1
      <4> QED
        BY Zenon, <1>3, <3>2, <4>3
    <3>3. CASE ~ (end < Len(log))
      <4>1. \A k \in 1 .. synced : log'[k] = log[k]
        BY <1>1, <3>1, <3>3
      <4>2. \A v : Sees(v, log', i, synced) <=> Sees(v, log, i, synced)
        BY Zenon, <3>1, <4>1, SameFrames
      <4> QED
        BY Zenon, <1>3, <3>1, <3>3, <4>2
    <3> QED
      BY Zenon, <3>2, <3>3
  <2> QED
    BY Zenon, <1>3, <2>1 DEF DurableInLog
<1>10. IdsBelow'
  <2> DEFINE seed == IF Trusted /\ ckpt.nextId > 0 THEN ckpt.nextId - 1 ELSE 0
             top == SetMax({seed} \cup {log[k].id : k \in from + 1 .. Len(log)}, 0)
  <2>1. /\ meta \in Nat
        /\ Trusted => ckpt.nextId \in Nat /\ ckpt.nextId # 0
        /\ Trusted => \A k \in 1 .. ckpt.covered : ckpt.over[k].id < ckpt.nextId
    BY Zenon DEF Types, Trusted, Checkpoints, Right, FilesRight, CkptRight
  <2>2. seed \in Nat /\ (Trusted => seed = ckpt.nextId - 1)
    BY <2>1
  <2>3. nextId' = SetMax({top + 1, meta}, 0)
    BY Zenon, <1>3 DEF RecoveredNextId
  <2> HIDE DEF seed
  <2>4. /\ top \in Nat /\ seed <= top
        /\ \A k \in from + 1 .. Len(log) : log[k].id <= top
    BY Zenon, <1>1, <2>2, GreatestId
  <2> HIDE DEF top
  <2>5. nextId' \in Nat /\ top + 1 <= nextId' /\ meta <= nextId'
    BY <2>1, <2>3, <2>4, GreaterOf
  <2>6. ASSUME NEW k \in 1 .. end PROVE log'[k].id < nextId'
    <3>1. log'[k] = log[k] /\ log[k].id \in Nat
      BY <1>1, LogFrames
    <3>2. CASE k > from
      BY SMTT(30), <1>1, <2>4, <2>5, <3>1, <3>2
    <3>3. CASE ~ (k > from)
      <4>1. Trusted /\ k \in 1 .. from
        BY <1>1, <1>4, <3>3
      <4>2. SubSeq(log, 1, from)[k] = log[k]
        BY SMTT(30), <1>1, <4>1, LogFrames DEF Logs
      <4>3. log[k].id < ckpt.nextId
        BY Zenon, <1>4, <2>1, <4>1, <4>2
      <4> QED
        BY SMTT(30), <2>1, <2>2, <2>4, <2>5, <3>1, <4>1, <4>3
    <3> QED
      BY Zenon, <3>2, <3>3
  <2>7. nextId' # 0
    BY SMTT(30), <2>4, <2>5
  <2> QED
    BY Zenon, <1>1, <1>3, <1>5, <2>5, <2>6, <2>7 DEF IdsBelow
<1>11. FilesRight'
  BY Zenon, <1>3, FilesKept
<1> QED
  BY Zenon, <1>5, <1>8, <1>9, <1>10, <1>11, NoCompaction DEF Right

-----------------------------------------------------------------------------
(* The initial state.                                                      *)
LEMMA InitRight == Init => Right
<1> SUFFICES ASSUME Init PROVE Right
  BY Zenon
<1>1. /\ log = <<>> /\ synced = 0 /\ Len(log) = 0 /\ comp.pc = "idle"
      /\ \A i \in Ids : hash[i] = NoEntry /\ durable[i] = 0
      /\ ckpt = NoCkpt /\ oldCkpts = {} /\ oldLogs = {} /\ nextId = 1 /\ meta = 0 /\ pending = {}
  BY Zenon, ConstantTypes DEF Init
<1>2. IndexRight
  <2>1. \A i \in Ids : hash[i].off = 0 /\ hash[i].del = FALSE
    BY <1>1 DEF NoEntry
  <2>2. \A i \in Ids : IsLast(log, i, Len(log), 0)
    BY <1>1 DEF IsLast
  <2> QED
    BY Zenon, <2>1, <2>2 DEF IndexRight, IsEntry
<1>3. DurableInLog
  BY <1>1 DEF DurableInLog, Sees, IsLast
<1>4. SnapshotRight /\ CopiesRight /\ SwapRight /\ IdsBelow
  BY <1>1 DEF SnapshotRight, CopiesRight, SwapRight, IdsBelow
<1>5. FilesRight
  BY Zenon, <1>1, NoCheckpointRight DEF FilesRight, OldLogsRight
<1> QED
  BY Zenon, <1>2, <1>3, <1>4, <1>5 DEF Right

(* The history variable stale is never reset.                              *)
LEMMA StaleKept ==
    ASSUME Next, ~stale'
    PROVE  ~stale /\ ~CompactInstallFails
<1>1. ~CompactInstallFails
  BY Zenon DEF CompactInstallFails
<1>2. ASSUME NEW i \in Ids, Insert(i) \/ InsertFails(i) \/ Update(i) \/ Delete(i)
      PROVE  stale' = stale
  BY Zenon, <1>2 DEF Insert, InsertFails, Update, Delete, Rewrite, history
<1>3. CASE \/ NextIdForInsert \/ Fsync \/ Checkpoint \/ CompactSnapshot \/ CompactCopy
           \/ CompactSwap \/ CompactAbort \/ CompactInstall \/ CompactUnlink
           \/ Kill \/ PowerFailure \/ Close
  <2>1. stale' = stale
    BY Zenon, <1>3
       DEF NextIdForInsert, Fsync, Checkpoint, CompactSnapshot, CompactCopy, CompactSwap,
           CompactAbort, CompactInstall, CompactUnlink, Kill, PowerFailure, Close,
           history
  <2> QED
    BY Zenon, <1>1, <2>1
<1>4. CASE Recover
  BY Zenon, <1>1, <1>4 DEF Recover
<1> QED
  BY Zenon, <1>1, <1>2, <1>3, <1>4 DEF Next

(* Every step keeps the inductive invariant.                               *)
LEMMA InductiveStep == IInv /\ [Next]_vars => IInv'
<1> SUFFICES ASSUME IInv, [Next]_vars PROVE IInv'
  BY Zenon
<1>1. Types /\ DamageIsSynced /\ Stopped /\ (~stale => Right)
  BY Zenon DEF IInv
<1>2. DamageIsSynced' /\ Stopped'
  BY Zenon, <1>1, DamageStep, StoppedStep
<1>3. CASE UNCHANGED vars
  <2>1. Types'
    BY Zenon, <1>1, <1>3 DEF vars, Types
  <2>2. IndexRight' = IndexRight /\ DurableInLog' = DurableInLog /\ IdsBelow' = IdsBelow
    BY Zenon, <1>3 DEF vars, IndexRight, Quiet, DurableInLog, IdsBelow
  <2>3. /\ SnapshotRight' = SnapshotRight /\ CopiesRight' = CopiesRight
        /\ SwapRight' = SwapRight
    BY Zenon, <1>3 DEF vars, SnapshotRight, CopiesRight, SwapRight
  <2>4. Right => FilesRight'
    BY Zenon, <1>3, FilesKept DEF vars
  <2>5. stale' = stale
    BY Zenon, <1>3 DEF vars
  <2> QED
    BY Zenon, <1>1, <1>2, <2>1, <2>2, <2>3, <2>4, <2>5 DEF IInv, Right
<1>4. CASE Next
  <2>1. Types'
    <3>1. CASE NextIdForInsert
      <4>1. nextId \in Ids
        BY Zenon, <3>1 DEF NextIdForInsert
      <4> QED
        BY Zenon, <1>1, <3>1, <4>1, WriteTypes
    <3> QED
      BY Zenon, <1>1, <1>4, <3>1, WriteTypes, MaintenanceTypes, CrashTypes
         DEF Next
  <2>2. ASSUME ~stale' PROVE Right'
    <3>1. Right /\ ~CompactInstallFails
      BY Zenon, <1>1, <1>4, <2>2, StaleKept
    <3>2. CASE NextIdForInsert
      <4>1. nextId \in Ids
        BY Zenon, <3>2 DEF NextIdForInsert
      <4> QED
        BY Zenon, <1>1, <3>1, <3>2, <4>1, WriteRight
    <3>3. CASE \E i \in Ids : Insert(i) \/ InsertFails(i) \/ Update(i) \/ Delete(i)
      BY Zenon, <1>1, <3>1, <3>3, WriteRight
    <3>4. CASE Fsync \/ Checkpoint \/ CompactSnapshot \/ CompactAbort \/ CompactUnlink
      BY Zenon, <1>1, <3>1, <3>4, MaintenanceRight
    <3>5. CASE CompactCopy
      BY Zenon, <1>1, <3>1, <3>5, CopyRight
    <3>6. CASE CompactSwap
      BY Zenon, <1>1, <3>1, <3>6, SwapStepRight
    <3>7. CASE CompactInstall
      BY Zenon, <1>1, <3>1, <3>7, InstallRight
    <3>8. CASE Kill \/ PowerFailure \/ Close
      BY Zenon, <1>1, <3>1, <3>8, CrashRight
    <3>9. CASE Recover
      BY Zenon, <1>1, <2>2, <3>1, <3>9, RecoverRight
    <3> QED
      BY Zenon, <1>4, <3>1, <3>2, <3>3, <3>4, <3>5, <3>6, <3>7, <3>8, <3>9
         DEF Next
  <2> QED
    BY Zenon, <1>2, <2>1, <2>2 DEF IInv
<1> QED
  BY Zenon, <1>3, <1>4

(* The inductive invariant holds in every reachable state.                 *)
THEOREM Invariant == Spec => []IInv
<1>1. Init => IInv
  BY Zenon, InitTypes, InitRight DEF IInv
<1> QED
  BY <1>1, InductiveStep, PTL DEF Spec

(* The type invariant of the storage engine: what is fsynced lies in the   *)
(* log, and so does every offset in the index.                             *)
THEOREM TypeCorrect == Spec => []TypeOK
<1>1. IInv => TypeOK
  <2> SUFFICES ASSUME IInv PROVE TypeOK
    BY Zenon
  <2>1. Types /\ Len(log) \in Nat
    BY Zenon, LogFrames DEF IInv, Types
  <2>2. Quiet /\ ~stale => \A i \in Ids : hash[i].off <= Len(log)
    <3> SUFFICES ASSUME Quiet, ~stale, NEW i \in Ids PROVE hash[i].off <= Len(log)
      BY Zenon
    <3>1. IsLast(log, i, Len(log), hash[i].off)
      BY Zenon DEF IInv, Right, IndexRight, IsEntry
    <3> QED
      BY <2>1, <3>1 DEF IsLast
  <2>3. comp.pc \in {"idle", "copy", "copied", "renamed", "installed"}
    BY Zenon, <2>1, CompFields DEF Types
  <2>4. log \in Seq(Frame \cup {Bad}) /\ hash \in [Ids -> [off : Nat, del : BOOLEAN]]
    BY Zenon, <2>1 DEF Types, Logs, AnyFrame, Index, Entry
  <2> QED
    BY Zenon, <2>1, <2>2, <2>3, <2>4 DEF Types, TypeOK
<1> QED
  BY <1>1, Invariant, PTL

(* The hash index is what a full scan of the log would build.              *)
THEOREM IndexFollowsLog == Spec => []IndexIsFullScan
<1>1. IInv => IndexIsFullScan
  <2> SUFFICES ASSUME IInv, Quiet, ~stale, NEW i \in Ids
               PROVE  hash[i] = LET k == LastOf(log, i, 0)
                                IN  IF k = 0 THEN NoEntry ELSE EntryAt(log, k)
    BY Zenon DEF IndexIsFullScan
  <2>1. hash[i] \in Entry /\ Len(log) \in Nat /\ IsEntry(hash[i], log, i, Len(log))
    BY Zenon, LogFrames DEF IInv, Types, Index, Right, IndexRight
  <2> QED
    BY Zenon, <2>1, EntryIsScan
<1> QED
  BY <1>1, Invariant, PTL

(* qe_get returns the last version written, across compactions, crashes    *)
(* and recoveries, of every record but those whose last fsynced write was  *)
(* in a compacted log that a power failure took back.                      *)
THEOREM NoWriteLost == Spec => []ReadsLastWrite
<1>1. IInv => ReadsLastWrite
  <2> SUFFICES ASSUME IInv, Quiet, ~stale, NEW i \in Ids \ undone
               PROVE  Visible(i) = Expected(i)
    BY Zenon DEF ReadsLastWrite
  <2>1. /\ Types /\ hash[i] \in Entry /\ Len(log) \in Nat
        /\ IsEntry(hash[i], log, i, Len(log)) /\ DurableInLog /\ log \in Logs
    BY Zenon, LogFrames DEF IInv, Types, Index, Right, IndexRight
  <2>2. Sees(Expected(i), log, i, Len(log))
    BY Zenon, <2>1, ExpectedSees
  <2> DEFINE k == hash[i].off
  <2>3. k \in Nat /\ IsLast(log, i, Len(log), k) /\ k \in 0 .. Len(log)
    BY <2>1 DEF IsEntry, IsLast, Entry
  <2>4. /\ k = 0 => ~Live(hash, i)
        /\ k # 0 => (Live(hash, i) <=> ~log[k].del)
    BY Zenon, <2>1 DEF IsEntry, Live
  <2>5. k # 0 => k \in 1 .. Len(log) /\ log[k].id = i /\ Readable(log, k)
    BY <2>3, StorageAssumption DEF IsLast, Readable, Good, Ids
  <2>6. Visible(i) = IF k = 0 \/ log[k].del THEN 0 ELSE log[k].stamp
    BY Zenon, <2>4, <2>5 DEF Visible
  <2>7. Sees(Visible(i), log, i, Len(log))
    BY Zenon, <2>3, <2>6 DEF Sees
  <2> QED
    BY Zenon, <2>1, <2>2, <2>7, SeesUnique
<1> QED
  BY <1>1, Invariant, PTL

(* An id about to be handed out is above every id in the log, above every  *)
(* insert in flight and not below the floor in metadata.db.                *)
THEOREM FreshIds == Spec => []NextIdFresh
<1>1. IInv => NextIdFresh
  BY Zenon DEF IInv, Right, IdsBelow, NextIdFresh
<1> QED
  BY <1>1, Invariant, PTL
=============================================================================
