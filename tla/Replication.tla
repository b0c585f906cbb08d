---------------------------- MODULE Replication ----------------------------
(***************************************************************************)
(* Log shipping to a read replica: the streamer thread of the primary      *)
(* serving one subscription, the follower thread of the replica, the       *)
(* connection between them, and what writes, compactions and crashes of    *)
(* both nodes do to it.                                                    *)
(*                                                                         *)
(* Offsets count frames.  A frame is a number, every write has a new one;  *)
(* Bad is a frame that does not verify.  The replica's indexes are         *)
(* represented by the sequence of frames that was applied to them, with    *)
(* Bad where recovery skipped a damaged one.  A connection delivers in     *)
(* order; either end may lose it at any time, and what the primary sent    *)
(* before it closed may still arrive.  Heartbeats only feed the lag        *)
(* statistics and are left out.                                            *)
(***************************************************************************)
EXTENDS Naturals, Sequences

CONSTANTS
    NewCodec,         \* writes the replica's build cannot decode
    PrimaryCrashes,   \* subset of {"kill", "power", "hole"}
    Faults,           \* subset of {"truncate", "alloc", "apply", "install"}
    MaxWrites,        \* bound: writes on the primary
    MaxCompactions,   \* bound: compactions of the primary
    MaxCheckpoints,   \* bound: checkpoints of the replica
    MaxDrops,         \* bound: connections lost
    MaxFaults,        \* bound: failures of Faults
    MaxCrashes        \* bound: crashes and restarts of either node

ASSUME ReplicationAssumption ==
    /\ MaxWrites \in Nat /\ MaxCompactions \in Nat
    /\ MaxCheckpoints \in Nat /\ MaxDrops \in Nat /\ MaxFaults \in Nat
    /\ MaxCrashes \in Nat
    /\ NewCodec \subseteq 1 .. MaxWrites
    /\ PrimaryCrashes \subseteq {"kill", "power", "hole"}
    /\ Faults \subseteq {"truncate", "alloc", "apply", "install"}

Bad == 0
Frames == 0 .. MaxWrites

(* Messages: the handshake's reply, and MSG_FRAME, MSG_RESET and           *)
(* MSG_INCOMPATIBLE.                                                       *)
Reply(g, r) == [type |-> "reply", gen |-> g, reset |-> r]
FrameMsg(o, f) == [type |-> "frame", off |-> o, frame |-> f]
ResetMsg == [type |-> "reset"]
IncompatibleMsg == [type |-> "incompatible"]

VARIABLES
    plog,       \* the primary's memory.log
    psynced,    \* frames of it on stable storage
    pgen,       \* its log_generation
    written,    \* writes so far
    rlog,       \* the replica's memory.log
    rindex,     \* the frames its indexes reflect
    rckpt,      \* its memory.index, and the log it was made over
    rgen,       \* ReplicationFollower.gen
    stopped,    \* ReplicationFollower.stop, set by MSG_INCOMPATIBLE
    src,        \* the streamer: pc, and its cur_gen and cursor
    flw,        \* the follower: pc, and the handshake it sent
    chan,       \* messages on the connection
    count,      \* how often the bounded events have happened
    mishaps,    \* history: what has happened that the protocol does not handle
    held        \* history: <<k, f>> when frame f was the k-th of the primary's log

vars == <<plog, psynced, pgen, written, rlog, rindex, rckpt, rgen, stopped, src,
          flw, chan, count, mishaps, held>>
primary == <<plog, psynced, pgen, written, held>>
replica == <<rlog, rindex, rckpt, rgen, stopped>>

NoSrc == [pc |-> "none", gen |-> 0, cursor |-> 0]
NoFlw == [pc |-> "none", off |-> 0, gen |-> 0]

Init ==
    /\ plog = <<>> /\ psynced = 0 /\ pgen = 0 /\ written = 0
    /\ rlog = <<>> /\ rindex = <<>> /\ rgen = 0
    /\ rckpt = [index |-> <<>>, over |-> <<>>]
    /\ stopped = FALSE
    /\ src = NoSrc /\ flw = NoFlw /\ chan = <<>>
    /\ count = [compactions |-> 0, checkpoints |-> 0, drops |-> 0, faults |-> 0,
                crashes |-> 0]
    /\ mishaps = {} /\ held = {}

-----------------------------------------------------------------------------
(* A failure the code logs and then ignores.                               *)
Mishap(f) ==
    f \in Faults /\ count.faults < MaxFaults /\ mishaps' = mishaps \cup {"fault"}

OneMoreFault == [count EXCEPT !.faults = @ + 1]

-----------------------------------------------------------------------------
(* The primary.                                                            *)

Holds(log) == held' = held \cup {<<k, log[k]>> : k \in DOMAIN log}

Write ==
    /\ written < MaxWrites
    /\ written' = written + 1
    /\ plog' = Append(plog, written + 1)
    /\ Holds(plog')
    /\ UNCHANGED <<psynced, pgen, replica, src, flw, chan, count, mishaps>>

Fsync ==
    /\ psynced < Len(plog)
    /\ psynced' = Len(plog)
    /\ UNCHANGED <<plog, pgen, written, held, replica, src, flw, chan, count, mishaps>>

(* The positions of the live frames among the first `end', in an order in  *)
(* which a walk of the hash buckets may meet them.                         *)
Walks(end) ==
    {w \in UNION {[1 .. n -> {k \in 1 .. end : plog[k] # Bad}] : n \in 0 .. end} :
        \A i, j \in DOMAIN w : w[i] = w[j] => i = j}

(* Compaction, at the swap under log_lock: the live frames of the snapshot *)
(* were copied, the readable tail behind it was drained, all offsets have  *)
(* changed, and log_generation says so unless the new hash index could not *)
(* be allocated.                                                           *)
Compact ==
    /\ count.compactions < MaxCompactions
    /\ \E end \in 0 .. Len(plog) :
         /\ \A k \in end + 1 .. Len(plog) : plog[k] # Bad
         /\ \E w \in Walks(end) :
              plog' = [k \in DOMAIN w |-> plog[w[k]]] \o SubSeq(plog, end + 1, Len(plog))
    /\ Holds(plog')
    /\ psynced' = Len(plog')
    /\ \/ /\ pgen' = pgen + 1
          /\ count' = [count EXCEPT !.compactions = @ + 1]
          /\ UNCHANGED mishaps
       \/ /\ Mishap("install")
          /\ count' = [OneMoreFault EXCEPT !.compactions = @ + 1]
          /\ UNCHANGED pgen
    /\ UNCHANGED <<written, replica, src, flw, chan>>

(* The connection's primary end is gone with the process.                  *)
Hangup == src' = [src EXCEPT !.pc = IF @ = "none" THEN "none" ELSE "closed"]

(* The primary dies and starts again: log_generation is not persisted.     *)
(* After a power failure frames that were not fsynced may be missing, or   *)
(* damaged with readable ones behind them, which recovery keeps.           *)
PrimaryCrash ==
    /\ PrimaryCrashes # {}
    /\ count.crashes < MaxCrashes
    /\ \/ "kill" \in PrimaryCrashes /\ UNCHANGED <<plog, psynced>>
       \/ /\ "power" \in PrimaryCrashes
          /\ \E n \in psynced .. Len(plog) : plog' = SubSeq(plog, 1, n)
          /\ psynced' = Len(plog')
       \/ /\ "hole" \in PrimaryCrashes
          /\ \E k \in psynced + 1 .. Len(plog) - 1 : plog' = [plog EXCEPT ![k] = Bad]
          /\ psynced' = Len(plog')
    /\ pgen' = 0
    /\ mishaps' = mishaps \cup {"restart"}
    /\ Hangup
    /\ count' = [count EXCEPT !.crashes = @ + 1]
    /\ UNCHANGED <<written, held, replica, flw, chan>>

-----------------------------------------------------------------------------
(* The handshake.                                                          *)

(* follow_session dials and sends its log size and generation.             *)
Connect ==
    /\ flw.pc = "none" /\ ~stopped
    /\ flw' = [pc |-> "sent", off |-> Len(rlog), gen |-> rgen]
    /\ src' = [NoSrc EXCEPT !.pc = "accepted"]
    /\ chan' = <<>>
    /\ UNCHANGED <<primary, replica, count, mishaps>>

(* The streamer reads log_generation ...                                   *)
ReadGeneration ==
    /\ src.pc = "accepted"
    /\ src' = [src EXCEPT !.pc = "subscribed", !.gen = pgen]
    /\ UNCHANGED <<primary, replica, flw, chan, count, mishaps>>

(* Mutant: the generation is not compared.                                 *)
MustReset_OffsetOnly == flw.off > Len(plog)

(* The subscriber's offsets are not offsets of this log.                   *)
MustReset == flw.gen # src.gen \/ flw.off > Len(plog)

(* ... and then the log size, which decides on a reset.                    *)
Subscribe ==
    /\ src.pc = "subscribed"
    /\ src' = [src EXCEPT !.pc = "stream",
                          !.cursor = IF MustReset THEN 0 ELSE flw.off]
    /\ chan' = Append(chan, Reply(src.gen, MustReset))
    /\ UNCHANGED <<primary, replica, flw, count, mishaps>>

-----------------------------------------------------------------------------
(* Mutant: the cursor steps over a frame.                                  *)
NextCursor_Skips == src.cursor + 2

(* The offset behind the frame that was sent.                              *)
NextCursor == src.cursor + 1

(* Mutant: the last frame is not due.                                      *)
MoreToSend_AllButLast == src.cursor + 1 < Len(plog)

(* The condition of the inner loop.                                        *)
MoreToSend == src.cursor < Len(plog)

(* The stream: one frame, read under log_lock after the generation was     *)
(* checked under it.  A frame that does not read is "transient -- retry    *)
(* next tick".                                                             *)
SendFrame ==
    /\ src.pc = "stream"
    /\ pgen = src.gen
    /\ MoreToSend
    /\ plog[src.cursor + 1] # Bad
    /\ IF plog[src.cursor + 1] \in NewCodec
       THEN /\ chan' = Append(chan, IncompatibleMsg)
            /\ src' = [src EXCEPT !.pc = "closed"]
       ELSE /\ chan' = Append(chan, FrameMsg(src.cursor, plog[src.cursor + 1]))
            /\ src' = [src EXCEPT !.cursor = NextCursor]
    /\ UNCHANGED <<primary, replica, flw, count, mishaps>>

SendReset ==
    /\ src.pc = "stream"
    /\ pgen # src.gen
    /\ chan' = Append(chan, ResetMsg)
    /\ src' = [src EXCEPT !.pc = "closed"]
    /\ UNCHANGED <<primary, replica, flw, count, mishaps>>

-----------------------------------------------------------------------------
(* The follower.                                                           *)

(* db_reset_replica: truncate the log, then replace the indexes.  Either   *)
(* step may fail; follower_reset logs that and goes on.  The checkpoint    *)
(* files stay.                                                             *)
ResetReplica ==
    \/ rlog' = <<>> /\ rindex' = <<>> /\ UNCHANGED <<mishaps, count>>
    \/ Mishap("truncate") /\ count' = OneMoreFault /\ UNCHANGED <<rlog, rindex>>
    \/ Mishap("alloc") /\ count' = OneMoreFault /\ rlog' = <<>> /\ UNCHANGED rindex

Closed == flw' = NoFlw /\ src' = NoSrc /\ chan' = <<>>

RecvReply ==
    /\ flw.pc = "sent"
    /\ chan # <<>>
    /\ rgen' = Head(chan).gen
    /\ IF Head(chan).reset THEN ResetReplica
       ELSE UNCHANGED <<rlog, rindex, mishaps, count>>
    /\ flw' = [flw EXCEPT !.pc = "follow"]
    /\ chan' = Tail(chan)
    /\ UNCHANGED <<primary, rckpt, stopped, src>>

(* Mutant: the frame's offset is not compared with the local log.          *)
InStep_Unchecked(off) == TRUE

(* A frame is applied only at the end of the local log.                    *)
InStep(off) == off = Len(rlog)

(* log_append, then db_replica_apply, in one critical section.             *)
RecvFrame ==
    /\ flw.pc = "follow"
    /\ chan # <<>> /\ Head(chan).type = "frame"
    /\ InStep(Head(chan).off)
    /\ rlog' = Append(rlog, Head(chan).frame)
    /\ \/ /\ rindex' = Append(rindex, Head(chan).frame)
          /\ chan' = Tail(chan)
          /\ UNCHANGED <<src, flw, mishaps, count>>
       \/ Mishap("apply") /\ count' = OneMoreFault /\ UNCHANGED rindex /\ Closed
    /\ UNCHANGED <<primary, rckpt, rgen, stopped>>

RecvDesync ==
    /\ flw.pc = "follow"
    /\ chan # <<>> /\ Head(chan).type = "frame"
    /\ ~InStep(Head(chan).off)
    /\ Closed
    /\ UNCHANGED <<primary, replica, count, mishaps>>

RecvReset ==
    /\ flw.pc = "follow"
    /\ chan # <<>> /\ Head(chan).type = "reset"
    /\ ResetReplica
    /\ Closed
    /\ UNCHANGED <<primary, rckpt, rgen, stopped>>

RecvIncompatible ==
    /\ flw.pc = "follow"
    /\ chan # <<>> /\ Head(chan).type = "incompatible"
    /\ stopped' = TRUE
    /\ Closed
    /\ UNCHANGED <<primary, rlog, rindex, rckpt, rgen, count, mishaps>>

(* The follower sees the end of a connection the primary closed, ...       *)
RecvEof ==
    /\ flw.pc # "none"
    /\ src.pc = "closed" /\ chan = <<>>
    /\ Closed
    /\ UNCHANGED <<primary, replica, count, mishaps>>

(* ... or a timeout or a broken connection with messages still on it.      *)
Drop ==
    /\ flw.pc # "none"
    /\ count.drops < MaxDrops
    /\ Closed
    /\ count' = [count EXCEPT !.drops = @ + 1]
    /\ UNCHANGED <<primary, replica, mishaps>>

-----------------------------------------------------------------------------
(* db_checkpoint by the replica's maintenance thread or at shutdown.       *)
ReplicaCheckpoint ==
    /\ count.checkpoints < MaxCheckpoints
    /\ rckpt' = [index |-> rindex, over |-> rlog]
    /\ count' = [count EXCEPT !.checkpoints = @ + 1]
    /\ UNCHANGED <<primary, rlog, rindex, rgen, stopped, src, flw, chan,
                   mishaps>>

(* Mutant: the checkpoint is used whatever the log holds.                  *)
Trusted_Always(n) == TRUE

(* recovery_run trusts a checkpoint that covers no more than the log.      *)
Trusted(n) == Len(rckpt.over) <= n

(* What a stop of the replica may leave of its log: how much of it was     *)
(* fsynced is left open, and a frame that was not may be missing, or       *)
(* damaged with readable ones behind it.                                   *)
Survivors ==
    {[k \in 1 .. n |-> IF k \in lost THEN Bad ELSE rlog[k]] :
        n \in 0 .. Len(rlog), lost \in SUBSET (1 .. Len(rlog))}

(* Where recovery's scan of a log from an offset ends: the torn tail is    *)
(* cut off, a damaged frame with a readable one behind it stays.           *)
ScanEnd(l, from) ==
    LET damaged == {k \in from + 1 .. Len(l) : l[k] = Bad}
        first == CHOOSE k \in damaged : \A j \in damaged : k <= j
    IN  IF damaged = {} \/ \E k \in first .. Len(l) : l[k] # Bad
        THEN Len(l) ELSE first - 1

(* The log holds as much as the checkpoint covers, but it is another log,  *)
(* or damaged where the checkpoint covers it.                              *)
StaleCheckpoint(l) ==
    Len(rckpt.over) <= Len(l) /\ rckpt.over # SubSeq(l, 1, Len(rckpt.over))

(* The replica stops and starts again with what survived of its log.  The  *)
(* follower's generation is not persisted.                                 *)
ReplicaRestart ==
    /\ count.crashes < MaxCrashes
    /\ \E l \in Survivors :
         LET trusted == Trusted(Len(l))
             from == IF trusted THEN Len(rckpt.over) ELSE 0
             end == ScanEnd(l, from)
         IN  /\ rlog' = SubSeq(l, 1, end)
             /\ rindex' = (IF trusted THEN rckpt.index ELSE <<>>)
                            \o SubSeq(l, from + 1, end)
             /\ mishaps' = IF StaleCheckpoint(l)
                           THEN mishaps \cup {"checkpoint"} ELSE mishaps
    /\ rgen' = 0
    /\ stopped' = FALSE
    /\ Closed
    /\ count' = [count EXCEPT !.crashes = @ + 1]
    /\ UNCHANGED <<primary, rckpt>>

-----------------------------------------------------------------------------
Receive == RecvReply \/ RecvFrame \/ RecvDesync \/ RecvReset \/ RecvIncompatible
           \/ RecvEof
Stream == ReadGeneration \/ Subscribe \/ SendFrame \/ SendReset

Next ==
    \/ Write \/ Fsync \/ Compact \/ PrimaryCrash
    \/ Connect
    \/ ReadGeneration \/ Subscribe \/ SendFrame \/ SendReset
    \/ RecvReply \/ RecvFrame \/ RecvDesync \/ RecvReset \/ RecvIncompatible
    \/ RecvEof
    \/ Drop
    \/ ReplicaCheckpoint \/ ReplicaRestart

Spec == Init /\ [][Next]_vars

(* The follower reconnects for ever; both threads and the network make     *)
(* progress.                                                               *)
FairSpec == Spec /\ WF_vars(Connect) /\ WF_vars(Stream) /\ WF_vars(Receive)

-----------------------------------------------------------------------------
(* The type invariant.                                                     *)
TypeOK ==
    /\ plog \in Seq(Frames) /\ rlog \in Seq(Frames) /\ rindex \in Seq(Frames)
    /\ rckpt \in [index : Seq(Frames), over : Seq(Frames)]
    /\ mishaps \subseteq {"restart", "fault", "checkpoint"}
    /\ psynced \in 0 .. Len(plog)
    /\ pgen \in 0 .. MaxCompactions /\ rgen \in 0 .. MaxCompactions
    /\ written \in 0 .. MaxWrites
    /\ stopped \in BOOLEAN
    /\ src.pc \in {"none", "accepted", "subscribed", "stream", "closed"}
    /\ src.pc = "stream" /\ src.gen = pgen /\ mishaps = {} => src.cursor <= Len(plog)
    /\ flw.pc \in {"none", "sent", "follow"}
    /\ (src.pc = "none") = (flw.pc = "none")

(* The handshake is done and no compaction has ended the stream yet.       *)
Following == flw.pc = "follow" /\ src.pc = "stream" /\ src.gen = pgen

(* A subscribed replica holds a prefix of the primary's log: "the          *)
(* replica's local log ends up byte-identical to the primary's".           *)
FollowedIsPrefix == Following => \E n \in 0 .. Len(plog) : rlog = SubSeq(plog, 1, n)

(* The log s holds what the log t begins with, up to damaged frames of s.  *)
Matches(s, t) == Len(s) <= Len(t) /\ \A k \in 1 .. Len(s) : s[k] \in {t[k], Bad}

(* It does, up to frames the replica's own power failures have damaged.    *)
FollowedMatches == Following => Matches(rlog, plog)

(* A subscribed replica holds a prefix of the log of a primary that has    *)
(* not restarted, up to frames its own power failures damaged, as long as  *)
(* no failure was ignored: across reconnects, compactions it missed and    *)
(* its own crashes, the generation and offset checks of the handshake, and *)
(* those of the stream, suffice.  A damaged frame stays: the replica       *)
(* resumes behind it, and a primary that has never compacted answers its   *)
(* generation 0 without a reset.                                           *)
PrefixOfRunningPrimary ==
    mishaps \cap {"restart", "fault"} = {} => FollowedMatches

(* The replica's indexes reflect its log, frame by frame, whatever was     *)
(* lost, reset or recovered on the way.                                    *)
IndexIsLog == rindex = rlog

(* The same up to damaged frames: a restart that finds a checkpoint puts   *)
(* no frame of another log into the indexes ("a replica restart replays    *)
(* only its own tail, then resumes streaming", read-replica-design.md).    *)
IndexMatchesLog == Len(rindex) = Len(rlog) /\ Matches(rlog, rindex)

(* That holds as long as no failure was ignored and no checkpoint was      *)
(* trusted that is of a discarded log, or of frames a power failure        *)
(* damaged since; restarts of the primary included.                        *)
IndexIsLogUnlessStale ==
    mishaps \cap {"fault", "checkpoint"} = {} => IndexIsLog

(* Every readable frame of the replica's log stands where the primary's    *)
(* log had it once, even when a reset or an apply has failed and was       *)
(* ignored: what the follower's offset check is for.                       *)
AppliedAtOffset ==
    \A k \in DOMAIN rlog : rlog[k] = Bad \/ <<k, rlog[k]>> \in held

(* A replica catches up with the primary ("reconnect, resume from the      *)
(* cursor, catch up"), up to the frames its own power failures damaged,    *)
(* unless it has stopped on a frame it cannot decode.                      *)
CatchesUp == <>[]((Len(rlog) = Len(plog) /\ Matches(rlog, plog)) \/ stopped)

(* That holds for a primary that keeps running, while no failure is        *)
(* ignored.                                                                *)
CatchesUpWithRunningPrimary ==
    CatchesUp \/ <>(mishaps \cap {"restart", "fault"} # {})
=============================================================================
