--------------------------- MODULE ReplicaSource ---------------------------
(***************************************************************************)
(* The primary's side of replication as threads: the acceptor, a streamer  *)
(* thread per connection, and replication_source_stop called from main     *)
(* (src/src/server/replication.c, src/src/main.c).  What a streamer sends  *)
(* is the subject of Replication; here it is what it holds: an entry of    *)
(* conn_fds and one of the counters pending and replicas.                  *)
(***************************************************************************)
EXTENDS Integers, FiniteSets

CONSTANTS
    Peers,         \* bound: the connections that are ever made
    MaxReplicas,   \* MAX_REPLICAS
    MaxPending     \* MAX_PENDING

ASSUME ReplicaSourceAssumption ==
    IsFiniteSet(Peers) /\ MaxReplicas \in Nat /\ MaxPending \in Nat

VARIABLES
    thread,     \* peer |-> how far its connection has come
    acc,        \* the acceptor thread: free, busy with a connection, ended
    conns,      \* conn_fds
    pending, replicas,
    stop,       \* the stop flag
    stopper,    \* replication_source_stop, then main's db_close
    seen,       \* the counter the stopper has read
    slipped     \* history: a slot was claimed between the stopper's two reads

rvars == <<thread, acc, conns, pending, replicas, stop, stopper, seen, slipped>>

(* The connections the acceptor still has in hand, the threads counted in  *)
(* pending and those counted in replicas; claimed and overflow, the two    *)
(* moments of the change-over, are in both.                                *)
InHand == {"accepted", "tracked", "counted"}
PendingPcs == {"counted", "handshake", "overflow", "claimed", "closing", "untracked"}
ReplicaPcs == {"overflow", "claimed", "streaming", "closingAuthed", "untrackedAuthed"}
LivePcs == PendingPcs \cup ReplicaPcs
TrackedPcs == (LivePcs \ {"untracked", "untrackedAuthed"}) \cup {"tracked"}
At(S) == {p \in Peers : thread[p] \in S}

Slots == MaxReplicas + MaxPending
Freed == stopper \in {"freed", "closed"}

SourceInit ==
    /\ thread = [p \in Peers |-> "none"] /\ acc = "free"
    /\ conns = {} /\ pending = 0 /\ replicas = 0
    /\ stop = FALSE /\ stopper = "run" /\ seen = 0 /\ slipped = FALSE

Goes(p, from, to) == thread[p] = from /\ thread' = [thread EXCEPT ![p] = to]

-----------------------------------------------------------------------------
(* The acceptor.  The stop flag and the cap on handshakes are looked at    *)
(* after the accept, the registry has room or not under its own lock, the  *)
(* count comes before the thread, and the thread may not start.            *)
Accept(p) ==
    /\ acc = "free" /\ acc' = "busy"
    /\ Goes(p, "none", "accepted")
    /\ UNCHANGED <<conns, pending, replicas, stop, stopper, seen, slipped>>

MayHandshakeOneMore == pending <= MaxPending

MayHandshake == pending < MaxPending

(* Too many handshakes, no room in the registry, or no memory.             *)
AdmitRefused(p) ==
    /\ ~stop
    /\ acc' = "free"
    /\ Goes(p, "accepted", "gone")
    /\ UNCHANGED <<conns, pending, replicas, stop, stopper, seen, slipped>>

Track(p) ==
    /\ ~stop /\ MayHandshake /\ Cardinality(conns) < Slots
    /\ Goes(p, "accepted", "tracked")
    /\ conns' = conns \cup {p}
    /\ UNCHANGED <<acc, pending, replicas, stop, stopper, seen, slipped>>

CountPending(p) ==
    /\ Goes(p, "tracked", "counted")
    /\ pending' = pending + 1
    /\ UNCHANGED <<acc, conns, replicas, stop, stopper, seen, slipped>>

Spawn(p) ==
    /\ Goes(p, "counted", "handshake")
    /\ acc' = "free"
    /\ UNCHANGED <<conns, pending, replicas, stop, stopper, seen, slipped>>

SpawnFailsUncounted(p) ==
    /\ Goes(p, "counted", "gone")
    /\ acc' = "free"
    /\ conns' = conns \ {p}
    /\ UNCHANGED <<pending, replicas, stop, stopper, seen, slipped>>

SpawnFails(p) ==
    /\ Goes(p, "counted", "gone")
    /\ acc' = "free"
    /\ conns' = conns \ {p}
    /\ pending' = pending - 1
    /\ UNCHANGED <<replicas, stop, stopper, seen, slipped>>

AcceptorEndsInHand ==
    /\ stop /\ acc = "busy" /\ At({"tracked", "counted"}) = {}
    /\ acc' = "ended"
    /\ thread' = [p \in Peers |-> IF thread[p] = "accepted" THEN "gone" ELSE thread[p]]
    /\ UNCHANGED <<conns, pending, replicas, stop, stopper, seen, slipped>>

AcceptorEnds ==
    /\ stop /\ acc # "ended" /\ At({"tracked", "counted"}) = {}
    /\ acc' = "ended"
    /\ thread' = [p \in Peers |-> IF thread[p] = "accepted" THEN "gone" ELSE thread[p]]
    /\ UNCHANGED <<conns, pending, replicas, stop, stopper, seen, slipped>>

-----------------------------------------------------------------------------
(* A streamer: the handshake (rejected, timed out, or its socket shut      *)
(* down), the claim of a replica slot, the stream, and done.               *)
HandshakeFails(p) ==
    /\ ~Freed /\ Goes(p, "handshake", "closing")
    /\ UNCHANGED <<acc, conns, pending, replicas, stop, stopper, seen, slipped>>

SlotFree == replicas < MaxReplicas

ClaimSlot(p) ==
    /\ ~Freed
    /\ Goes(p, "handshake", IF SlotFree THEN "claimed" ELSE "overflow")
    /\ replicas' = replicas + 1
    /\ slipped' = (slipped \/ stopper = "reread")
    /\ UNCHANGED <<acc, conns, pending, stop, stopper, seen>>

GiveBack(p) ==
    /\ ~Freed /\ Goes(p, "overflow", "closing")
    /\ replicas' = replicas - 1
    /\ UNCHANGED <<acc, conns, pending, stop, stopper, seen, slipped>>

DropPending(p) ==
    /\ ~Freed /\ Goes(p, "claimed", "streaming")
    /\ pending' = pending - 1
    /\ UNCHANGED <<acc, conns, replicas, stop, stopper, seen, slipped>>

StreamEnds(p) ==
    /\ ~Freed /\ Goes(p, "streaming", "closingAuthed")
    /\ UNCHANGED <<acc, conns, pending, replicas, stop, stopper, seen, slipped>>

UntrackAuthedOnly(p) ==
    /\ ~Freed
    /\ \/ Goes(p, "closing", "untracked") /\ UNCHANGED conns
       \/ Goes(p, "closingAuthed", "untrackedAuthed") /\ conns' = conns \ {p}
    /\ UNCHANGED <<acc, pending, replicas, stop, stopper, seen, slipped>>

Untrack(p) ==
    /\ ~Freed
    /\ Goes(p, "closing", "untracked") \/ Goes(p, "closingAuthed", "untrackedAuthed")
    /\ conns' = conns \ {p}
    /\ UNCHANGED <<acc, pending, replicas, stop, stopper, seen, slipped>>

Release(p) ==
    /\ ~Freed
    /\ \/ Goes(p, "untracked", "gone") /\ pending' = pending - 1 /\ UNCHANGED replicas
       \/ Goes(p, "untrackedAuthed", "gone") /\ replicas' = replicas - 1 /\ UNCHANGED pending
    /\ UNCHANGED <<acc, conns, stop, stopper, seen, slipped>>

-----------------------------------------------------------------------------
(* replication_source_stop: the flag, the acceptor joined, every socket    *)
(* shut down, and the wait on a sum whose two counters are read one after  *)
(* the other; main then closes the store the streams read.                 *)
SetStop ==
    /\ stopper = "run"
    /\ stop' = TRUE /\ stopper' = "join"
    /\ UNCHANGED <<thread, acc, conns, pending, replicas, seen, slipped>>

JoinAcceptor ==
    /\ stopper = "join" /\ acc = "ended"
    /\ stopper' = "wait"
    /\ UNCHANGED <<thread, acc, conns, pending, replicas, stop, seen, slipped>>

ReadReplicas ==
    /\ stopper = "wait"
    /\ seen' = replicas /\ slipped' = FALSE
    /\ stopper' = "reread"
    /\ UNCHANGED <<thread, acc, conns, pending, replicas, stop>>

ReadPendingAlone ==
    /\ stopper = "reread"
    /\ stopper' = IF pending > 0 THEN "wait" ELSE "freed"
    /\ UNCHANGED <<thread, acc, conns, pending, replicas, stop, seen, slipped>>

ReadPending ==
    /\ stopper = "reread"
    /\ stopper' = IF seen + pending > 0 THEN "wait" ELSE "freed"
    /\ UNCHANGED <<thread, acc, conns, pending, replicas, stop, seen, slipped>>

DbClose ==
    /\ stopper = "freed"
    /\ stopper' = "closed"
    /\ UNCHANGED <<thread, acc, conns, pending, replicas, stop, seen, slipped>>

Acceptor ==
    \/ AcceptorEnds
    \/ \E p \in Peers : \/ Accept(p) \/ AdmitRefused(p) \/ Track(p)
                       \/ CountPending(p) \/ Spawn(p) \/ SpawnFails(p)

Streamer(p) ==
    \/ HandshakeFails(p) \/ ClaimSlot(p) \/ GiveBack(p) \/ DropPending(p)
    \/ StreamEnds(p) \/ Untrack(p) \/ Release(p)

Stopper == SetStop \/ JoinAcceptor \/ ReadReplicas \/ ReadPending \/ DbClose

SourceNext == Acceptor \/ Stopper \/ \E p \in Peers : Streamer(p)

SourceSpec == SourceInit /\ [][SourceNext]_rvars

(* accept times out every second to look at the flag; a handshake has a    *)
(* deadline, a stream ends on the flag or on its socket being shut down;   *)
(* the call of replication_source_stop is not assumed to come.             *)
SourceFairness ==
    /\ WF_rvars(Acceptor)
    /\ WF_rvars(Stopper /\ stop)
    /\ \A p \in Peers : WF_rvars(Streamer(p))

FairSourceSpec == SourceSpec /\ SourceFairness

-----------------------------------------------------------------------------
SourceTypeOK ==
    /\ thread \in [Peers -> {"none", "gone"} \cup InHand \cup LivePcs]
    /\ acc \in {"free", "busy", "ended"}
    /\ conns \subseteq Peers
    /\ pending \in Int /\ replicas \in Int /\ seen \in Int
    /\ stop \in BOOLEAN /\ slipped \in BOOLEAN
    /\ stopper \in {"run", "join", "wait", "reread", "freed", "closed"}

(* Whatever the interleaving of acceptor, handshakes, claims, rejections   *)
(* at capacity, failed thread starts and exits, pending and replicas are   *)
(* the numbers of threads they are meant to count: a streamer is in        *)
(* exactly one of them, and in both while it changes over, never in none.  *)
CountersCountThreads ==
    /\ pending = Cardinality(At(PendingPcs))
    /\ replicas = Cardinality(At(ReplicaPcs))

(* The socket of every thread that may block is in conn_fds, so the        *)
(* shutdown loop of replication_source_stop wakes it, and no entry is left *)
(* behind by a thread that closed its socket (the number may be another    *)
(* connection's by then).                                                  *)
RegistryExact == conns = At(TrackedPcs)

(* At most MAX_PENDING threads that have not proved themselves and         *)
(* MAX_REPLICAS that hold a slot, although the cap on handshakes is tested *)
(* and counted in separate steps and the count of slots runs over it while *)
(* a rejected claim is being given back.                                   *)
StreamsBounded ==
    /\ Cardinality(At(PendingPcs)) <= MaxPending
    /\ Cardinality(At(ReplicaPcs \ {"overflow"})) <= MaxReplicas

(* The source is freed and the store closed only after the last streamer   *)
(* has left, provided none claimed its slot between the two reads of the   *)
(* sum.                                                                    *)
FreedAfterStreams == Freed /\ ~slipped => At(LivePcs) = {}

(* What the comments on the counters and on the wait say: the source is    *)
(* never freed, nor the log closed, under a streamer.                      *)
NeverFreedUnderStream == Freed => At(LivePcs) = {}

(* A stop that is asked for ends: the acceptor leaves, every connection    *)
(* drains, the counters reach zero together.                               *)
StopEnds == stop ~> stopper = "closed"
=============================================================================
