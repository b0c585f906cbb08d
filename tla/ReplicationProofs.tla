------------------------- MODULE ReplicationProofs -------------------------
(***************************************************************************)
(* What a replica holds, for any number of writes, compactions, crashes,   *)
(* checkpoints and lost connections, and any set of ignored failures.      *)
(***************************************************************************)
EXTENDS Replication, TLAPS
LOCAL INSTANCE WellFoundedInduction

Generations == 0 .. MaxCompactions

Message == [type : {"reply"}, gen : Generations, reset : BOOLEAN]
           \cup [type : {"frame"}, off : Nat, frame : Frames]
           \cup [type : {"reset", "incompatible"}]

Streamer == [pc : {"none", "accepted", "subscribed", "stream", "closed"},
             gen : Generations, cursor : Nat]
Follower == [pc : {"none", "sent", "follow"}, off : Nat, gen : Generations]
Counts == [compactions : Generations, checkpoints : Nat, drops : Nat, faults : Nat,
           crashes : Nat]
Checkpoints == [index : Seq(Frames), over : Seq(Frames)]
Mishaps == SUBSET {"restart", "fault", "checkpoint"}

(* The types of all variables.                                             *)
Types ==
    /\ plog \in Seq(Frames) /\ rlog \in Seq(Frames) /\ rindex \in Seq(Frames)
    /\ rckpt \in Checkpoints
    /\ mishaps \in Mishaps
    /\ psynced \in 0 .. Len(plog)
    /\ written \in 0 .. MaxWrites
    /\ stopped \in BOOLEAN
    /\ rgen \in Generations /\ pgen \in Nat /\ pgen <= count.compactions
    /\ count \in Counts
    /\ src \in Streamer /\ flw \in Follower
    /\ chan \in Seq(Message)

(* The two ends of a connection and what is on it: the reply comes first   *)
(* and only once, and until then the replica is what it was when it sent   *)
(* its offset and generation.                                              *)
Handshake ==
    /\ src.pc = "none" <=> flw.pc = "none"
    /\ flw.pc = "none" => chan = <<>>
    /\ src.pc \in {"accepted", "subscribed"} => flw.pc = "sent" /\ chan = <<>>
    /\ src.pc = "stream" /\ flw.pc = "sent" => chan # <<>>
    /\ \A k \in DOMAIN chan : chan[k].type = "reply" <=> flw.pc = "sent" /\ k = 1
    /\ \A k \in DOMAIN chan : chan[k].type = "reply" =>
         chan[k].gen = src.gen /\ (~chan[k].reset => src.gen = rgen)
    /\ flw.pc = "sent" => flw.gen = rgen /\ flw.off = Len(rlog)
    /\ flw.pc = "follow" => rgen = src.gen

Agrees(s, t) == Len(s) <= Len(t) /\ \A k \in 1 .. Len(s) : s[k] = t[k]

Undisturbed == mishaps \cap {"restart", "fault"} = {}
Unspoilt == mishaps \cap {"fault", "checkpoint"} = {}

(* While the primary has not restarted and nothing failed, a generation    *)
(* names one history of its log: a replica of that generation holds a      *)
(* prefix of it, up to damaged frames, and a frame on a connection of that *)
(* generation is still at its offset.                                      *)
SameGeneration ==
    /\ rgen <= pgen /\ src.gen <= pgen
    /\ rgen = pgen => Matches(rlog, plog)
    /\ src.gen = pgen =>
         /\ src.pc = "stream" => src.cursor <= Len(plog)
         /\ \A k \in DOMAIN chan : chan[k].type = "frame" =>
              chan[k].off < Len(plog) /\ plog[chan[k].off + 1] = chan[k].frame

Indexed == rindex = rlog /\ rckpt.index = rckpt.over

(* Every readable frame of the primary's log, and every frame on the       *)
(* connection, has been recorded at its position.                          *)
Recorded ==
    /\ \A k \in DOMAIN plog : plog[k] # Bad => <<k, plog[k]>> \in held
    /\ \A k \in DOMAIN chan : chan[k].type = "frame" =>
         <<chan[k].off + 1, chan[k].frame>> \in held

IInv ==
    /\ Types
    /\ Handshake
    /\ Undisturbed => SameGeneration
    /\ Unspoilt => Indexed
    /\ Recorded
    /\ AppliedAtOffset

-----------------------------------------------------------------------------
(* What Head and Tail leave of a sequence.                                 *)
LEMMA Received ==
    ASSUME NEW S, NEW s \in Seq(S), s # <<>>
    PROVE  /\ Tail(s) \in Seq(S)
           /\ 1 \in DOMAIN s /\ Head(s) = s[1] /\ Head(s) \in S
           /\ \A k \in DOMAIN Tail(s) : k + 1 \in DOMAIN s /\ Tail(s)[k] = s[k + 1]
OBVIOUS

(* What Append adds to a sequence.                                         *)
LEMMA Appended ==
    ASSUME NEW S, NEW s \in Seq(S), NEW e \in S
    PROVE  /\ Append(s, e) \in Seq(S) /\ Append(s, e) # <<>>
           /\ Len(Append(s, e)) = Len(s) + 1
           /\ DOMAIN s = 1 .. Len(s) /\ DOMAIN Append(s, e) = 1 .. Len(s) + 1
           /\ \A k \in 1 .. Len(s) : Append(s, e)[k] = s[k]
           /\ Append(s, e)[Len(s) + 1] = e
OBVIOUS

(* Sequences with the same elements.                                       *)
LEMMA SameSequence ==
    ASSUME NEW S, NEW s \in Seq(S), NEW t \in Seq(S), Len(s) = Len(t),
           \A k \in 1 .. Len(s) : s[k] = t[k]
    PROVE  s = t
OBVIOUS

(* A prefix of a sequence.                                                 *)
LEMMA Cut ==
    ASSUME NEW S, NEW s \in Seq(S), NEW n \in 0 .. Len(s)
    PROVE  /\ SubSeq(s, 1, n) \in Seq(S) /\ Len(SubSeq(s, 1, n)) = n
           /\ DOMAIN SubSeq(s, 1, n) = 1 .. n
           /\ \A k \in 1 .. n : SubSeq(s, 1, n)[k] = s[k]
<1>1. Len(s) \in Nat /\ \A k \in 1 .. n : s[k] \in S
  OBVIOUS
<1>2. /\ SubSeq(s, 1, n) \in Seq(S)
      /\ Len(SubSeq(s, 1, n)) = IF 1 <= n THEN n - 1 + 1 ELSE 0
      /\ \A i \in 1 .. n - 1 + 1 : SubSeq(s, 1, n)[i] = s[1 + i - 1]
  BY <1>1
<1> QED
  BY SMTT(30), <1>1, <1>2

(* The tail of a sequence behind a position.                               *)
LEMMA Rest ==
    ASSUME NEW S, NEW s \in Seq(S), NEW m \in Nat, NEW n \in 0 .. Len(s)
    PROVE  /\ SubSeq(s, m + 1, n) \in Seq(S)
           /\ m <= n => Len(SubSeq(s, m + 1, n)) = n - m
           /\ \A k \in 1 .. n - m : SubSeq(s, m + 1, n)[k] = s[m + k]
<1>1. \A k \in m + 1 .. n : s[k] \in S
  OBVIOUS
<1>2. SubSeq(s, m + 1, n) \in Seq(S)
  BY SMTT(30), <1>1
<1>3. m <= n => Len(SubSeq(s, m + 1, n)) = n - m
  BY SMTT(30), <1>1
<1>4. \A k \in 1 .. n - m : SubSeq(s, m + 1, n)[k] = s[m + k]
  BY <1>1
<1> QED
  BY SMTT(30), <1>2, <1>3, <1>4

(* What concatenation puts where.                                          *)
LEMMA Joined ==
    ASSUME NEW S, NEW s \in Seq(S), NEW t \in Seq(S)
    PROVE  /\ s \o t \in Seq(S) /\ Len(s \o t) = Len(s) + Len(t)
           /\ \A k \in 1 .. Len(s) : (s \o t)[k] = s[k]
           /\ \A k \in Len(s) + 1 .. Len(s) + Len(t) : (s \o t)[k] = t[k - Len(s)]
OBVIOUS

(* What compaction leaves of the log consists of frames of the log.        *)
LEMMA CompactedLog ==
    ASSUME plog \in Seq(Frames), NEW end \in 0 .. Len(plog), NEW w \in Walks(end)
    PROVE  [k \in DOMAIN w |-> plog[w[k]]] \o SubSeq(plog, end + 1, Len(plog))
             \in Seq(Frames)
<1>1. PICK n \in 0 .. end : w \in [1 .. n -> {k \in 1 .. end : plog[k] # Bad}]
  BY DEF Walks
<1>2. Len(plog) \in Nat /\ \A k \in 1 .. end : plog[k] \in Frames
  OBVIOUS
<1>3. [k \in DOMAIN w |-> plog[w[k]]] \in [1 .. n -> Frames]
  BY SMTT(30), <1>1, <1>2
<1>4. [k \in DOMAIN w |-> plog[w[k]]] \in Seq(Frames)
  BY SMTT(30), <1>2, <1>3
<1> QED
  BY SMTT(30), <1>2, <1>4, Rest

-----------------------------------------------------------------------------
(* The messages the two nodes send.                                        *)
LEMMA MessageTypes ==
    /\ \A g \in Generations, r \in BOOLEAN : Reply(g, r) \in Message
    /\ \A o \in Nat, f \in Frames : FrameMsg(o, f) \in Message
    /\ ResetMsg \in Message /\ IncompatibleMsg \in Message
BY DEF Message, Reply, FrameMsg, ResetMsg, IncompatibleMsg

(* The empty log and the empty connection.                                 *)
LEMMA EmptySeqs ==
    /\ <<>> \in Seq(Frames) /\ <<>> \in Seq(Message)
    /\ Len(<<>>) = 0 /\ DOMAIN <<>> = {}
OBVIOUS

(* The counters of the bounded events.                                     *)
LEMMA CountTypes ==
    ASSUME count \in Counts
    PROVE  /\ count.compactions \in Nat
           /\ count.compactions < MaxCompactions =>
                /\ [count EXCEPT !.compactions = @ + 1] \in Counts
                /\ [count EXCEPT !.compactions = @ + 1].compactions = count.compactions + 1
           /\ count.compactions < MaxCompactions =>
                /\ [OneMoreFault EXCEPT !.compactions = @ + 1] \in Counts
                /\ [OneMoreFault EXCEPT !.compactions = @ + 1].compactions
                      = count.compactions + 1
           /\ OneMoreFault \in Counts
           /\ OneMoreFault.compactions = count.compactions
           /\ [count EXCEPT !.checkpoints = @ + 1] \in Counts
           /\ [count EXCEPT !.checkpoints = @ + 1].compactions = count.compactions
           /\ [count EXCEPT !.drops = @ + 1] \in Counts
           /\ [count EXCEPT !.drops = @ + 1].compactions = count.compactions
           /\ [count EXCEPT !.crashes = @ + 1] \in Counts
           /\ [count EXCEPT !.crashes = @ + 1].compactions = count.compactions
<1>1. /\ count.compactions \in Generations /\ count.checkpoints \in Nat
      /\ count.drops \in Nat /\ count.faults \in Nat /\ count.crashes \in Nat
  BY DEF Counts
<1>2. /\ count.compactions \in Nat
      /\ count.checkpoints + 1 \in Nat /\ count.drops + 1 \in Nat
      /\ count.faults + 1 \in Nat /\ count.crashes + 1 \in Nat
      /\ count.compactions < MaxCompactions => count.compactions + 1 \in Generations
  BY <1>1, ReplicationAssumption DEF Generations
<1>3. /\ [count EXCEPT !.checkpoints = @ + 1] \in Counts
      /\ [count EXCEPT !.checkpoints = @ + 1].compactions = count.compactions
      /\ [count EXCEPT !.drops = @ + 1] \in Counts
      /\ [count EXCEPT !.drops = @ + 1].compactions = count.compactions
  BY <1>1, <1>2 DEF Counts
<1>4. /\ [count EXCEPT !.crashes = @ + 1] \in Counts
      /\ [count EXCEPT !.crashes = @ + 1].compactions = count.compactions
      /\ OneMoreFault \in Counts
      /\ OneMoreFault.compactions = count.compactions
  BY <1>1, <1>2 DEF Counts, OneMoreFault
<1>5. count.compactions < MaxCompactions =>
        /\ [count EXCEPT !.compactions = @ + 1] \in Counts
        /\ [count EXCEPT !.compactions = @ + 1].compactions = count.compactions + 1
  BY <1>1, <1>2 DEF Counts
<1>6. count.compactions < MaxCompactions =>
        /\ [OneMoreFault EXCEPT !.compactions = @ + 1] \in Counts
        /\ [OneMoreFault EXCEPT !.compactions = @ + 1].compactions = count.compactions + 1
  <2> DEFINE c == OneMoreFault
  <2>1. c \in Counts /\ c.compactions = count.compactions
    BY <1>4
  <2> HIDE DEF c
  <2>2. count.compactions < MaxCompactions =>
          /\ [c EXCEPT !.compactions = @ + 1] \in Counts
          /\ [c EXCEPT !.compactions = @ + 1].compactions = count.compactions + 1
    BY <1>2, <2>1 DEF Counts
  <2> QED
    BY <2>2 DEF c
<1> QED
  BY Zenon, <1>2, <1>3, <1>4, <1>5, <1>6

(* What ResetReplica leaves is typed.                                      *)
LEMMA ResetTypes ==
    ASSUME Types, ResetReplica
    PROVE  /\ rlog' \in Seq(Frames) /\ rindex' \in Seq(Frames) /\ mishaps' \in Mishaps
           /\ count' \in Counts /\ count'.compactions = count.compactions
<1>1. rlog' \in Seq(Frames) /\ rindex' \in Seq(Frames) /\ mishaps' \in Mishaps
  BY Zenon, EmptySeqs DEF Types, ResetReplica, Mishap, Mishaps
<1>2. count' \in Counts /\ count'.compactions = count.compactions
  BY Zenon, CountTypes DEF Types, ResetReplica
<1> QED
  BY Zenon, <1>1, <1>2

(* A closed connection is typed.                                           *)
LEMMA ClosedTypes ==
    ASSUME Closed
    PROVE  src' \in Streamer /\ flw' \in Follower /\ chan' \in Seq(Message)
<1>1. 0 \in Generations
  BY ReplicationAssumption DEF Generations
<1> QED
  BY SMTT(30), <1>1, EmptySeqs DEF Closed, NoSrc, NoFlw, Streamer, Follower

(* The steps of the two threads on their own state.                        *)
LEMMA ThreadTypes ==
    ASSUME src \in Streamer, flw \in Follower, pgen \in Generations
    PROVE  /\ [src EXCEPT !.pc = "closed"] \in Streamer
           /\ [src EXCEPT !.pc = IF @ = "none" THEN "none" ELSE "closed"] \in Streamer
           /\ [src EXCEPT !.pc = "subscribed", !.gen = pgen] \in Streamer
           /\ \A c \in Nat : /\ [src EXCEPT !.pc = "stream", !.cursor = c] \in Streamer
                            /\ [src EXCEPT !.cursor = c] \in Streamer
           /\ [flw EXCEPT !.pc = "follow"] \in Follower
           /\ [NoSrc EXCEPT !.pc = "accepted"] \in Streamer
           /\ src.cursor \in Nat /\ src.gen \in Generations /\ flw.off \in Nat
<1>1. [NoSrc EXCEPT !.pc = "accepted"] \in Streamer
  BY SMTT(30), ReplicationAssumption DEF Streamer, NoSrc, Generations
<1>2. /\ [src EXCEPT !.pc = "closed"] \in Streamer
      /\ [src EXCEPT !.pc = "subscribed", !.gen = pgen] \in Streamer
  BY Zenon DEF Streamer
<1>3. [src EXCEPT !.pc = IF @ = "none" THEN "none" ELSE "closed"] \in Streamer
  BY DEF Streamer
<1>4. \A c \in Nat : /\ [src EXCEPT !.pc = "stream", !.cursor = c] \in Streamer
                   /\ [src EXCEPT !.cursor = c] \in Streamer
  BY Zenon DEF Streamer
<1>5. [flw EXCEPT !.pc = "follow"] \in Follower
  BY SMTT(30) DEF Follower
<1>6. src.cursor \in Nat /\ src.gen \in Generations /\ flw.off \in Nat
  BY DEF Streamer, Follower
<1> QED
  BY ZenonT(30), <1>1, <1>2, <1>3, <1>4, <1>5, <1>6

-----------------------------------------------------------------------------
(* Every non-empty set of natural numbers has a least element.             *)
LEMMA LeastNatural ==
    ASSUME NEW T \in SUBSET Nat, T # {}
    PROVE  \E x \in T : \A y \in T : x <= y
<1> DEFINE R == OpToRel(<, Nat)
<1>1. IsWellFoundedOn(R, Nat)
  BY Zenon, NatLessThanWellFounded
<1>2. \A a, b \in Nat : a < b => <<a, b>> \in R
  BY Zenon DEF OpToRel
<1> HIDE DEF R
<1>3. PICK x \in T : \A y \in T : ~ (<<y, x>> \in R)
  BY Zenon, <1>1, WFMin
<1>4. \A y \in T : ~ (y < x)
  BY Zenon, <1>2, <1>3
<1> QED
  BY <1>4

(* A scan ends in the log, and not before the offset it starts at.         *)
LEMMA ScanEndIs ==
    ASSUME NEW l \in Seq(Frames), NEW from \in 0 .. Len(l)
    PROVE  ScanEnd(l, from) \in from .. Len(l)
<1> DEFINE damaged == {k \in from + 1 .. Len(l) : l[k] = Bad}
           first == CHOOSE k \in damaged : \A j \in damaged : k <= j
<1>0. Len(l) \in Nat /\ damaged \in SUBSET Nat /\ damaged \subseteq from + 1 .. Len(l)
  OBVIOUS
<1>1. ScanEnd(l, from) = IF damaged = {} \/ \E k \in first .. Len(l) : l[k] # Bad
                         THEN Len(l) ELSE first - 1
  BY Zenon DEF ScanEnd
<1> HIDE DEF damaged
<1>2. damaged # {} => first \in damaged
  BY Zenon, <1>0, LeastNatural
<1>3. damaged # {} => first \in from + 1 .. Len(l)
  BY Zenon, <1>0, <1>2
<1> HIDE DEF first
<1>4. CASE damaged = {} \/ \E k \in first .. Len(l) : l[k] # Bad
  <2>1. ScanEnd(l, from) = Len(l)
    BY Zenon, <1>1, <1>4
  <2> QED
    BY <1>0, <2>1
<1>5. CASE ~(damaged = {} \/ \E k \in first .. Len(l) : l[k] # Bad)
  <2>1. ScanEnd(l, from) = first - 1 /\ first \in from + 1 .. Len(l)
    BY Zenon, <1>1, <1>3, <1>5
  <2> QED
    BY <1>0, <2>1
<1> QED
  BY Zenon, <1>4, <1>5

(* What may survive of the replica's log is a prefix of it, up to damaged  *)
(* frames.                                                                 *)
LEMMA SurvivorIs ==
    ASSUME Types, NEW l \in Survivors
    PROVE  l \in Seq(Frames) /\ Matches(l, rlog)
<1>1. PICK n \in 0 .. Len(rlog), lost \in SUBSET (1 .. Len(rlog)) :
        l = [k \in 1 .. n |-> IF k \in lost THEN Bad ELSE rlog[k]]
  BY DEF Survivors
<1>2. Len(rlog) \in Nat /\ n \in Nat /\ n <= Len(rlog) /\ Bad \in Frames
  BY ReplicationAssumption DEF Types, Frames, Bad
<1>3. \A k \in 1 .. n : rlog[k] \in Frames
  BY <1>2 DEF Types
<1>4. l \in [1 .. n -> Frames] /\ \A k \in 1 .. n : l[k] \in {rlog[k], Bad}
  BY Zenon, <1>1, <1>2, <1>3
<1>5. l \in Seq(Frames) /\ Len(l) = n
  BY SMTT(30), <1>2, <1>4
<1> QED
  BY Zenon, <1>2, <1>4, <1>5 DEF Matches

(* Recovery from a checkpoint of a prefix of the log rebuilds the indexes  *)
(* of the log: the checkpoint and the tail it does not cover.              *)
LEMMA TailReplay ==
    ASSUME NEW S, NEW s \in Seq(S), NEW c \in Seq(S), NEW n \in 0 .. Len(s),
           Agrees(c, s), Len(c) <= n
    PROVE  c \o SubSeq(s, Len(c) + 1, n) = SubSeq(s, 1, n)
<1>1. Len(c) \in Nat /\ Len(s) \in Nat
  OBVIOUS
<1> DEFINE d == SubSeq(s, Len(c) + 1, n)
           b == SubSeq(s, 1, n)
<1>2. d \in Seq(S) /\ Len(d) = n - Len(c) /\ \A k \in 1 .. n - Len(c) : d[k] = s[Len(c) + k]
  BY <1>1, Rest
<1>3. b \in Seq(S) /\ Len(b) = n /\ \A k \in 1 .. n : b[k] = s[k]
  BY Cut
<1> HIDE DEF d, b
<1> DEFINE e == c \o d
<1>4. /\ e \in Seq(S) /\ Len(e) = n
      /\ \A k \in 1 .. Len(c) : e[k] = c[k]
      /\ \A k \in Len(c) + 1 .. n : e[k] = d[k - Len(c)]
  BY SMTT(30), <1>1, <1>2, Joined
<1> HIDE DEF e
<1>5. \A k \in 1 .. n : e[k] = b[k]
  <2> TAKE k \in 1 .. n
  <2>1. CASE k <= Len(c)
    BY SMTT(30), <1>1, <1>3, <1>4, <2>1 DEF Agrees
  <2>2. CASE k > Len(c)
    <3>1. k \in Len(c) + 1 .. n /\ k - Len(c) \in 1 .. n - Len(c) /\ Len(c) + (k - Len(c)) = k
      BY SMTT(30), <1>1, <2>2
    <3> QED
      BY SMTT(30), <1>2, <1>3, <1>4, <3>1
  <2> QED
    BY SMTT(30), <1>1, <2>1, <2>2
<1>6. e = b
  BY SMTT(30), <1>3, <1>4, <1>5, SameSequence
<1> QED
  BY <1>6 DEF d, b, e

(* What a restart leaves: a survivor of the log up to where its scan ends, *)
(* and the checkpoint and the tail it does not cover, or the whole of it.  *)
RestartedWith(l, end) ==
    /\ Matches(l, rlog)
    /\ rlog' = SubSeq(l, 1, end)
    /\ Trusted(Len(l)) =>
         /\ Len(rckpt.over) <= end
         /\ rindex' = rckpt.index \o SubSeq(l, Len(rckpt.over) + 1, end)
    /\ ~Trusted(Len(l)) => rindex' = SubSeq(l, 1, end)
    /\ mishaps' = IF StaleCheckpoint(l)
                  THEN mishaps \cup {"checkpoint"} ELSE mishaps

(* Every restart leaves that.                                              *)
LEMMA Restarted ==
    ASSUME Types, ReplicaRestart
    PROVE  \E l \in Seq(Frames) : \E end \in 0 .. Len(l) : RestartedWith(l, end)
<1>1. PICK l \in Survivors :
        LET trusted == Trusted(Len(l))
            from == IF trusted THEN Len(rckpt.over) ELSE 0
            end == ScanEnd(l, from)
        IN  /\ rlog' = SubSeq(l, 1, end)
            /\ rindex' = (IF trusted THEN rckpt.index ELSE <<>>)
                           \o SubSeq(l, from + 1, end)
            /\ mishaps' = IF StaleCheckpoint(l)
                          THEN mishaps \cup {"checkpoint"} ELSE mishaps
  BY Zenon DEF ReplicaRestart
<1>2. l \in Seq(Frames) /\ Matches(l, rlog) /\ Len(l) \in Nat
  BY SurvivorIs
<1>3. CASE Trusted(Len(l))
  <2> DEFINE end == ScanEnd(l, Len(rckpt.over))
  <2>1. Len(rckpt.over) \in 0 .. Len(l)
    BY <1>2, <1>3 DEF Trusted, Types, Checkpoints
  <2>2. end \in Len(rckpt.over) .. Len(l)
    BY Zenon, <1>2, <2>1, ScanEndIs
  <2>3. /\ rlog' = SubSeq(l, 1, end)
        /\ rindex' = rckpt.index \o SubSeq(l, Len(rckpt.over) + 1, end)
        /\ mishaps' = IF StaleCheckpoint(l)
                      THEN mishaps \cup {"checkpoint"} ELSE mishaps
    BY Zenon, <1>1, <1>3
  <2> HIDE DEF end
  <2>4. end \in 0 .. Len(l) /\ Len(rckpt.over) <= end
    BY <1>2, <2>1, <2>2
  <2> QED
    BY Zenon, <1>2, <1>3, <2>3, <2>4 DEF RestartedWith
<1>4. CASE ~Trusted(Len(l))
  <2> DEFINE end == ScanEnd(l, 0)
  <2>1. 0 \in 0 .. Len(l)
    BY <1>2
  <2>2. end \in 0 .. Len(l)
    BY Zenon, <1>2, <2>1, ScanEndIs
  <2>3. /\ rlog' = SubSeq(l, 1, end)
        /\ rindex' = <<>> \o SubSeq(l, 0 + 1, end)
        /\ mishaps' = IF StaleCheckpoint(l)
                      THEN mishaps \cup {"checkpoint"} ELSE mishaps
    BY Zenon, <1>1, <1>4
  <2> HIDE DEF end
  <2>4. Agrees(<<>>, l) /\ Len(<<>>) <= end
    BY <1>2, <2>2, EmptySeqs DEF Agrees
  <2>5. <<>> \o SubSeq(l, 0 + 1, end) = SubSeq(l, 1, end)
    BY SMTT(30), <1>2, <2>2, <2>4, EmptySeqs, TailReplay
  <2> QED
    BY Zenon, <1>2, <1>4, <2>2, <2>3, <2>5 DEF RestartedWith
<1> QED
  BY Zenon, <1>3, <1>4

(* The types of what a restart leaves.                                     *)
LEMMA RestartTypes ==
    ASSUME Types, ReplicaRestart
    PROVE  rlog' \in Seq(Frames) /\ rindex' \in Seq(Frames) /\ mishaps' \in Mishaps
<1>0. PICK l \in Seq(Frames) : \E end \in 0 .. Len(l) : RestartedWith(l, end)
  BY Zenon, Restarted
<1>1. PICK end \in 0 .. Len(l) : RestartedWith(l, end)
  BY Zenon, <1>0
<1>2. SubSeq(l, 1, end) \in Seq(Frames)
  BY Zenon, Cut
<1>3. rckpt.index \in Seq(Frames) /\ Len(rckpt.over) \in Nat
  BY DEF Types, Checkpoints
<1>4. SubSeq(l, Len(rckpt.over) + 1, end) \in Seq(Frames)
  BY Zenon, <1>3, Rest
<1>5. rckpt.index \o SubSeq(l, Len(rckpt.over) + 1, end) \in Seq(Frames)
  BY Zenon, <1>3, <1>4, Joined
<1>6. mishaps' \in Mishaps
  BY SMTT(30), <1>1 DEF Types, Mishaps, RestartedWith
<1> QED
  BY Zenon, <1>1, <1>2, <1>5, <1>6 DEF RestartedWith

(* The initial state.                                                      *)
LEMMA InitTypes == Init => Types
<1> SUFFICES ASSUME Init PROVE Types
  BY SMTT(30)
<1>1. 0 \in Generations
  BY SMTT(30), ReplicationAssumption DEF Generations
<1>2. src \in Streamer
  BY SMTT(30), <1>1 DEF Init, NoSrc, Streamer
<1>3. flw \in Follower
  BY <1>1 DEF Init, NoFlw, Follower
<1>4. count \in Counts /\ pgen \in Nat /\ pgen <= count.compactions
  BY SMTT(30), <1>1 DEF Init, Counts
<1>5. rckpt \in Checkpoints /\ mishaps \in Mishaps
  BY SMTT(30), EmptySeqs DEF Init, Checkpoints, Mishaps
<1>6. psynced \in 0 .. Len(plog) /\ written \in 0 .. MaxWrites
  BY SMTT(30), EmptySeqs, ReplicationAssumption DEF Init
<1> QED
  BY Zenon, <1>1, <1>2, <1>3, <1>4, <1>5, <1>6, EmptySeqs DEF Init, Types

(* Every step keeps the types.                                             *)
LEMMA TypesStep ==
    ASSUME Types, Handshake, [Next]_vars
    PROVE  Types'
<1> USE ReplicationAssumption
<1>0. pgen \in Generations /\ Len(plog) \in Nat /\ Len(rlog) \in Nat
  BY SMTT(30) DEF Types, Generations, Counts
<1>1. CASE Write
  <2>1. written + 1 \in Frames /\ written' \in 0 .. MaxWrites
    BY SMTT(30), <1>1 DEF Write, Types, Frames
  <2>2. plog' \in Seq(Frames) /\ Len(plog') = Len(plog) + 1
    BY SMTT(30), <1>1, <2>1 DEF Write, Types
  <2> QED
    BY SMTT(30), <1>0, <1>1, <2>1, <2>2 DEF Write, Types, replica
<1>2. CASE Fsync
  BY SMTT(30), <1>0, <1>2 DEF Fsync, Types, replica
<1>3. CASE Compact
  <2>1. plog' \in Seq(Frames)
    BY SMTT(30), <1>3, CompactedLog DEF Compact, Types
  <2>2. count' \in Counts /\ count'.compactions = count.compactions + 1
    BY <1>3, CountTypes DEF Compact, Types
  <2>3. pgen' \in Nat /\ pgen' <= count.compactions + 1
    <3>1. pgen' = pgen + 1 \/ pgen' = pgen
      BY <1>3 DEF Compact
    <3>2. pgen \in Nat /\ pgen <= count.compactions /\ count.compactions \in Nat
      BY SMTT(30), CountTypes DEF Types
    <3> QED
      BY <3>1, <3>2
  <2>4. mishaps' \in Mishaps
    BY SMTT(30), <1>3 DEF Compact, Types, Mishap, Mishaps
  <2>5. psynced' \in 0 .. Len(plog')
    BY SMTT(30), <1>3, <2>1 DEF Compact
  <2> QED
    BY SMTT(30), <1>3, <2>1, <2>2, <2>3, <2>4, <2>5 DEF Compact, Types, replica
<1>4. CASE PrimaryCrash
  <2>1. plog' \in Seq(Frames) /\ psynced' \in 0 .. Len(plog')
    <3>1. CASE UNCHANGED <<plog, psynced>>
      BY <3>1 DEF Types
    <3>2. ASSUME NEW n \in psynced .. Len(plog), plog' = SubSeq(plog, 1, n),
                 psynced' = Len(plog')
          PROVE  plog' \in Seq(Frames) /\ psynced' \in 0 .. Len(plog')
      <4>1. n \in 0 .. Len(plog)
        BY <1>0 DEF Types
      <4> QED
        BY SMTT(30), <3>2, <4>1, Cut DEF Types
    <3>3. ASSUME NEW k \in psynced + 1 .. Len(plog) - 1, plog' = [plog EXCEPT ![k] = Bad],
                 psynced' = Len(plog')
          PROVE  plog' \in Seq(Frames) /\ psynced' \in 0 .. Len(plog')
      <4>1. k \in 1 .. Len(plog) /\ Bad \in Frames
        BY <1>0 DEF Types, Frames, Bad
      <4>2. plog' \in Seq(Frames) /\ Len(plog') = Len(plog)
        BY SMTT(30), <3>3, <4>1 DEF Types
      <4> QED
        BY SMTT(30), <1>0, <3>3, <4>2
    <3> QED
      BY SMTT(30), <1>4, <3>1, <3>2, <3>3 DEF PrimaryCrash
  <2>2. count' \in Counts /\ count'.compactions = count.compactions
    BY SMTT(30), <1>4, CountTypes DEF PrimaryCrash, Types
  <2>3. src' \in Streamer
    BY ZenonT(30), <1>0, <1>4, ThreadTypes DEF PrimaryCrash, Types, Hangup
  <2>4. mishaps' \in Mishaps
    BY SMTT(30), <1>4 DEF PrimaryCrash, Types, Mishaps
  <2> QED
    BY SMTT(30), <1>4, <2>1, <2>2, <2>3, <2>4, CountTypes
       DEF PrimaryCrash, Types, replica
<1>5. CASE Connect
  <2>1. flw' \in Follower
    BY SMTT(30), <1>0, <1>5 DEF Connect, Follower, Types
  <2> QED
    BY ZenonT(30), <1>0, <1>5, <2>1, EmptySeqs, ThreadTypes
       DEF Connect, Types, primary, replica
<1>6. CASE ReadGeneration
  BY ZenonT(30), <1>0, <1>6, ThreadTypes DEF ReadGeneration, Types, primary, replica
<1>7. CASE Subscribe
  <2>1. chan' \in Seq(Message)
    BY ZenonT(30), <1>0, <1>7, ThreadTypes, MessageTypes, Appended
       DEF Subscribe, Types, MustReset
  <2>2. src' \in Streamer
    BY ZenonT(30), <1>0, <1>7, ThreadTypes DEF Subscribe, Types
  <2> QED
    BY SMTT(30), <1>7, <2>1, <2>2 DEF Subscribe, Types, primary, replica
<1>8. CASE SendFrame
  <2>1. src.cursor \in Nat /\ src.cursor < Len(plog) /\ src \in Streamer
    BY Zenon, <1>0, <1>8, ThreadTypes DEF SendFrame, MoreToSend, Types
  <2>2. plog[src.cursor + 1] \in Frames
    <3>1. src.cursor + 1 \in 1 .. Len(plog)
      BY SMTT(30), <1>0, <2>1
    <3> QED
      BY <3>1 DEF Types
  <2>3. chan' \in Seq(Message)
    <3>1. PICK m \in Message : chan' = Append(chan, m)
      BY SMTT(30), <1>8, <2>1, <2>2, MessageTypes DEF SendFrame
    <3> QED
      BY <3>1 DEF Types
  <2>4. src' \in Streamer
    <3>1. \/ src' = [src EXCEPT !.pc = "closed"]
          \/ src' = [src EXCEPT !.cursor = src.cursor + 1]
      BY <1>8 DEF SendFrame, NextCursor
    <3>2. src.cursor + 1 \in Nat
      BY SMTT(30), <2>1
    <3> QED
      BY Zenon, <1>0, <3>1, <3>2, ThreadTypes DEF Types
  <2> QED
    BY SMTT(30), <1>8, <2>3, <2>4 DEF SendFrame, Types, primary, replica
<1>9. CASE SendReset
  <2>1. chan' \in Seq(Message)
    BY SMTT(30), <1>9, MessageTypes DEF SendReset, Types
  <2> QED
    BY Zenon, <1>0, <1>9, <2>1, ThreadTypes DEF SendReset, Types, primary, replica
<1>10. CASE RecvReply
  <2>1. Head(chan) \in Message /\ Head(chan).type = "reply" /\ chan' \in Seq(Message)
    BY SMTT(30), <1>10, Received DEF RecvReply, Types, Handshake
  <2>2. rgen' \in Generations
    BY <1>10, <2>1 DEF RecvReply, Message
  <2>3. rlog' \in Seq(Frames) /\ rindex' \in Seq(Frames) /\ mishaps' \in Mishaps
        /\ count' \in Counts /\ count'.compactions = count.compactions
    BY SMTT(30), <1>10, ResetTypes DEF RecvReply, Types
  <2>4. flw' \in Follower
    BY ZenonT(30), <1>0, <1>10, ThreadTypes DEF RecvReply, Types
  <2> QED
    BY SMTT(30), <1>10, <2>1, <2>2, <2>3, <2>4 DEF RecvReply, Types, primary
<1>11. CASE RecvFrame
  <2>1. Head(chan) \in Message /\ Tail(chan) \in Seq(Message)
    BY SMTT(30), <1>11, Received DEF RecvFrame, Types
  <2>2. Head(chan).frame \in Frames
    BY SMTT(30), <1>11, <2>1 DEF RecvFrame, Message
  <2>3. rlog' \in Seq(Frames) /\ Append(rindex, Head(chan).frame) \in Seq(Frames)
    BY SMTT(30), <1>11, <2>2 DEF RecvFrame, Types
  <2>4. rindex' \in Seq(Frames) /\ mishaps' \in Mishaps
        /\ count' \in Counts /\ count'.compactions = count.compactions
    BY Zenon, <1>11, <2>3, CountTypes DEF RecvFrame, Types, Mishap, Mishaps
  <2>5. src' \in Streamer /\ flw' \in Follower /\ chan' \in Seq(Message)
    BY Zenon, <1>11, <2>1, ClosedTypes DEF RecvFrame, Types
  <2> QED
    BY SMTT(30), <1>11, <2>3, <2>4, <2>5 DEF RecvFrame, Types, primary
<1>12. CASE RecvDesync
  BY SMTT(30), <1>12, ClosedTypes DEF RecvDesync, Types, primary, replica
<1>13. CASE RecvReset
  BY SMTT(30), <1>13, ClosedTypes, ResetTypes DEF RecvReset, Types, primary
<1>14. CASE RecvIncompatible
  BY SMTT(30), <1>14, ClosedTypes DEF RecvIncompatible, Types, primary
<1>15. CASE RecvEof
  BY SMTT(30), <1>15, ClosedTypes DEF RecvEof, Types, primary, replica
<1>16. CASE Drop
  BY SMTT(30), <1>16, ClosedTypes, CountTypes DEF Drop, Types, primary, replica
<1>17. CASE ReplicaCheckpoint
  <2>1. rckpt' \in Checkpoints
    BY SMTT(30), <1>17 DEF ReplicaCheckpoint, Types, Checkpoints
  <2> QED
    BY SMTT(30), <1>17, <2>1, CountTypes DEF ReplicaCheckpoint, Types, primary
<1>18. CASE ReplicaRestart
  <2>1. rlog' \in Seq(Frames) /\ rindex' \in Seq(Frames) /\ mishaps' \in Mishaps
    BY Zenon, <1>18, RestartTypes
  <2>2. rgen' \in Generations
    BY <1>18 DEF ReplicaRestart, Generations
  <2> QED
    BY Zenon, <1>18, <2>1, <2>2, ClosedTypes, CountTypes
       DEF ReplicaRestart, Types, primary
<1>19. CASE UNCHANGED vars
  BY <1>19 DEF vars, Types
<1> QED
  BY SMTT(30), <1>1, <1>2, <1>3, <1>4, <1>5, <1>6, <1>7, <1>8, <1>9, <1>10,
     <1>11, <1>12,
     <1>13, <1>14, <1>15, <1>16, <1>17, <1>18, <1>19 DEF Next

-----------------------------------------------------------------------------
(* A closed connection satisfies Handshake, whatever the replica holds.    *)
LEMMA ClosedHandshake ==
    ASSUME Closed
    PROVE  /\ Handshake'
           /\ src' = NoSrc /\ flw' = NoFlw /\ chan' = <<>> /\ DOMAIN chan' = {}
BY EmptySeqs DEF Closed, Handshake, NoSrc, NoFlw

(* Sending a message that is not a reply keeps the reply first.            *)
LEMMA SentHandshake ==
    ASSUME Types, Handshake, src.pc = "stream",
           NEW m \in Message, m.type # "reply", chan' = Append(chan, m),
           src'.pc \in {"stream", "closed"}, src'.gen = src.gen,
           UNCHANGED <<flw, rlog, rgen>>
    PROVE  Handshake'
<1>1. /\ chan' # <<>>
      /\ DOMAIN chan = 1 .. Len(chan) /\ DOMAIN chan' = 1 .. Len(chan) + 1
      /\ \A k \in 1 .. Len(chan) : chan'[k] = chan[k]
      /\ chan'[Len(chan) + 1] = m
  BY Appended DEF Types
<1>2. Len(chan) \in Nat /\ (flw.pc = "sent" => Len(chan) # 0)
  BY DEF Types, Handshake
<1> QED
  BY SMTT(30), <1>1, <1>2 DEF Handshake

(* Receiving a message leaves no reply behind.                             *)
LEMMA ReceivedHandshake ==
    ASSUME Types, Handshake, chan # <<>>, chan' = Tail(chan), flw'.pc = "follow",
           flw.pc # "none", rgen' = src.gen, UNCHANGED src
    PROVE  Handshake'
<1>1. \A k \in DOMAIN chan' : k + 1 \in DOMAIN chan /\ chan'[k] = chan[k + 1]
  BY Received DEF Types
<1>2. DOMAIN chan' \subseteq Nat \ {0}
  BY Received DEF Types
<1> QED
  BY <1>1, <1>2 DEF Handshake

(* Every step keeps Handshake.                                             *)
LEMMA HandshakeStep ==
    ASSUME Types, Handshake, [Next]_vars
    PROVE  Handshake'
<1>1. CASE UNCHANGED <<rlog, rgen, src, flw, chan>>
  BY <1>1 DEF Handshake
<1>2. CASE PrimaryCrash
  <2>1. /\ src'.pc = IF src.pc = "none" THEN "none" ELSE "closed"
        /\ src'.gen = src.gen
    BY <1>2 DEF PrimaryCrash, Hangup, Types, Streamer
  <2>2. UNCHANGED <<rlog, rgen, flw, chan>>
    BY <1>2 DEF PrimaryCrash, replica
  <2> QED
    BY <2>1, <2>2 DEF Handshake
<1>3. CASE Connect
  <2>1. src'.pc = "accepted" /\ flw'.pc = "sent" /\ flw'.gen = rgen /\ flw'.off = Len(rlog)
    BY <1>3 DEF Connect, NoSrc
  <2>2. chan' = <<>> /\ DOMAIN chan' = {} /\ UNCHANGED <<rlog, rgen>>
    BY SMTT(30), <1>3, EmptySeqs DEF Connect, replica
  <2> QED
    BY <2>1, <2>2 DEF Handshake
<1>4. CASE ReadGeneration
  <2>1. src.pc = "accepted" /\ src'.pc = "subscribed"
    BY <1>4 DEF ReadGeneration, Types, Streamer
  <2>2. chan = <<>> /\ DOMAIN chan = {} /\ UNCHANGED <<rlog, rgen, flw, chan>>
    BY SMTT(30), <1>4, <2>1, EmptySeqs DEF ReadGeneration, replica, Handshake
  <2> QED
    BY <2>1, <2>2 DEF Handshake
<1>5. CASE Subscribe
  <2>1. src.pc = "subscribed" /\ src'.pc = "stream" /\ src'.gen = src.gen
    BY <1>5 DEF Subscribe, Types, Streamer
  <2>2. chan = <<>> /\ flw.pc = "sent" /\ UNCHANGED <<rlog, rgen, flw>>
    BY SMTT(30), <1>5, <2>1 DEF Subscribe, replica, Handshake
  <2>3. MustReset \in BOOLEAN /\ src.gen \in Generations
    BY DEF MustReset, Types, Streamer
  <2>4. /\ chan' # <<>> /\ DOMAIN chan' = 1 .. 1
        /\ chan'[1] = Reply(src.gen, MustReset)
    BY SMTT(30), <1>5, <2>2, <2>3, Appended, MessageTypes, EmptySeqs DEF Subscribe
  <2>5. ~MustReset => src.gen = rgen
    BY <2>2 DEF MustReset, Handshake
  <2>6. \A k \in DOMAIN chan' : k = 1 /\ chan'[k].type = "reply" /\ chan'[k].gen = src.gen
                               /\ (~chan'[k].reset => src.gen = rgen)
    BY SMTT(30), <2>4, <2>5 DEF Reply
  <2> QED
    BY SMTT(30), <2>1, <2>2, <2>4, <2>6 DEF Handshake
<1>6. CASE SendFrame
  <2>1. src.cursor \in Nat /\ src.cursor + 1 \in 1 .. Len(plog)
    BY SMTT(30), <1>6 DEF SendFrame, MoreToSend, Types, Streamer
  <2>2. plog[src.cursor + 1] \in Frames
    BY <2>1 DEF Types
  <2>3. PICK m \in Message : m.type # "reply" /\ chan' = Append(chan, m)
    BY SMTT(30), <1>6, <2>1, <2>2, MessageTypes
       DEF SendFrame, FrameMsg, IncompatibleMsg
  <2>4. src'.pc \in {"stream", "closed"} /\ src'.gen = src.gen
    BY SMTT(30), <1>6 DEF SendFrame, Types, Streamer
  <2> QED
    BY SMTT(30), <1>6, <2>3, <2>4, SentHandshake DEF SendFrame, replica
<1>7. CASE SendReset
  <2>1. ResetMsg \in Message /\ ResetMsg.type # "reply"
    BY MessageTypes DEF ResetMsg
  <2>2. src'.pc \in {"stream", "closed"} /\ src'.gen = src.gen
    BY <1>7 DEF SendReset, Types, Streamer
  <2> QED
    BY SMTT(30), <1>7, <2>1, <2>2, SentHandshake DEF SendReset, replica
<1>8. CASE RecvReply
  <2>1. rgen' = src.gen
    BY SMTT(30), <1>8, Received DEF RecvReply, Handshake, Types
  <2>2. flw'.pc = "follow"
    BY <1>8 DEF RecvReply, Types, Follower
  <2> QED
    BY SMTT(30), <1>8, <2>1, <2>2, ReceivedHandshake DEF RecvReply
<1>9. CASE RecvFrame
  <2>1. CASE Closed
    BY SMTT(30), <2>1, ClosedHandshake
  <2>2. CASE chan' = Tail(chan) /\ UNCHANGED <<src, flw>>
    BY SMTT(30), <1>9, <2>2, ReceivedHandshake DEF RecvFrame, Handshake
  <2> QED
    BY SMTT(30), <1>9, <2>1, <2>2 DEF RecvFrame
<1>10. CASE Closed
  BY <1>10, ClosedHandshake
<1>11. QED
  <2>1. CASE Write \/ Fsync \/ Compact \/ ReplicaCheckpoint \/ UNCHANGED vars
    BY <2>1, <1>1 DEF Write, Fsync, Compact, ReplicaCheckpoint, vars, replica
  <2>2. CASE RecvDesync \/ RecvReset \/ RecvIncompatible \/ RecvEof \/ Drop \/ ReplicaRestart
    BY Zenon, <2>2, <1>10
       DEF RecvDesync, RecvReset, RecvIncompatible, RecvEof, Drop, ReplicaRestart
  <2> QED
    BY SMTT(30), <1>2, <1>3, <1>4, <1>5, <1>6, <1>7, <1>8, <1>9, <2>1, <2>2 DEF Next

-----------------------------------------------------------------------------
(* A mishap is never forgotten.                                            *)
LEMMA MishapsGrow ==
    ASSUME [Next]_vars
    PROVE  mishaps \subseteq mishaps'
<1>1. CASE PrimaryCrash \/ Compact \/ ReplicaRestart
  BY Zenon, <1>1 DEF PrimaryCrash, Compact, ReplicaRestart, Mishap
<1>2. CASE RecvReply \/ RecvReset \/ RecvFrame
  BY <1>2 DEF RecvReply, RecvReset, RecvFrame, ResetReplica, Mishap
<1> QED
  BY SMTT(30), <1>1, <1>2
     DEF Next, vars, Write, Fsync, Connect, ReadGeneration, Subscribe,
     SendFrame, SendReset, RecvDesync, RecvIncompatible, RecvEof, Drop, ReplicaCheckpoint

(* A reset that did not fail leaves an empty log.                          *)
LEMMA CleanReset ==
    ASSUME ResetReplica, "fault" \notin mishaps'
    PROVE  rlog' = <<>> /\ rindex' = <<>>
BY DEF ResetReplica, Mishap

(* Losing the connection, with the replica's log unchanged or empty.       *)
LEMMA ClosedGeneration ==
    ASSUME Types, SameGeneration, Closed, UNCHANGED <<plog, pgen, rgen>>,
           rlog' = rlog \/ rlog' = <<>>
    PROVE  SameGeneration'
<1>1. src'.gen = 0 /\ src'.pc = "none" /\ DOMAIN chan' = {}
  BY ClosedHandshake DEF NoSrc
<1>2. Matches(<<>>, plog)
  BY EmptySeqs DEF Matches, Types
<1> QED
  BY <1>1, <1>2 DEF SameGeneration, Types, Matches

(* Every step keeps SameGeneration while nothing disturbs it.              *)
LEMMA GenerationStep ==
    ASSUME Types, Handshake, Undisturbed => SameGeneration, [Next]_vars, Undisturbed'
    PROVE  SameGeneration'
<1>0. SameGeneration /\ "fault" \notin mishaps' /\ "restart" \notin mishaps'
  BY MishapsGrow DEF Undisturbed
<1>a. /\ pgen \in Nat /\ rgen \in Nat /\ src.gen \in Nat /\ src.cursor \in Nat
      /\ flw.off \in Nat
      /\ Len(plog) \in Nat /\ DOMAIN plog = 1 .. Len(plog)
      /\ Len(rlog) \in Nat /\ DOMAIN rlog = 1 .. Len(rlog)
      /\ \A k \in DOMAIN chan : chan[k] \in Message
  BY SMTT(30) DEF Types, Generations, Streamer, Follower
<1>b. \A k \in DOMAIN chan : chan[k].type = "frame" => chan[k].off \in Nat
  BY <1>a DEF Message
<1>1. CASE UNCHANGED <<plog, pgen, rlog, rgen, src, chan>>
  BY SMTT(30), <1>0, <1>1 DEF SameGeneration, Matches
<1>2. CASE Write
  <2>1. /\ Len(plog') = Len(plog) + 1
        /\ \A k \in 1 .. Len(plog) : plog'[k] = plog[k]
    <3>1. written + 1 \in Frames
      BY <1>2, ReplicationAssumption DEF Write, Types, Frames
    <3> QED
      BY SMTT(30), <1>2, <3>1, Appended DEF Write, Types
  <2>2. UNCHANGED <<pgen, rlog, rgen, src, chan>>
    BY <1>2 DEF Write, replica
  <2>3. Matches(rlog, plog) => Matches(rlog, plog)'
    BY SMTT(30), <1>a, <2>1, <2>2 DEF Matches
  <2>4. ASSUME NEW k \in DOMAIN chan, chan[k].type = "frame", src.gen = pgen
        PROVE  chan[k].off < Len(plog') /\ plog'[chan[k].off + 1] = chan[k].frame
    BY SMTT(30), <1>0, <1>a, <1>b, <2>1, <2>4 DEF SameGeneration
  <2> QED
    BY SMTT(30), <1>0, <1>a, <2>1, <2>2, <2>3, <2>4 DEF SameGeneration
<1>3. CASE Compact
  <2>1. pgen' = pgen + 1 /\ UNCHANGED <<rlog, rgen, src, chan>>
    BY <1>0, <1>3 DEF Compact, replica, Mishap
  <2> QED
    BY SMTT(30), <1>0, <1>a, <2>1 DEF SameGeneration
<1>4. CASE PrimaryCrash
  BY <1>0, <1>4 DEF PrimaryCrash
<1>5. CASE Connect
  <2>1. src'.gen = 0 /\ src'.pc = "accepted" /\ DOMAIN chan' = {}
    BY SMTT(30), <1>5, EmptySeqs DEF Connect, NoSrc
  <2> QED
    BY SMTT(30), <1>0, <1>5, <1>a, <2>1
       DEF Connect, primary, replica, SameGeneration, Matches
<1>6. CASE ReadGeneration
  <2>1. src.pc = "accepted" /\ src'.pc = "subscribed" /\ src'.gen = pgen
    BY <1>6 DEF ReadGeneration, Types, Streamer
  <2>2. DOMAIN chan' = {}
    BY SMTT(30), <1>6, <2>1, EmptySeqs DEF ReadGeneration, Handshake
  <2> QED
    BY SMTT(30), <1>0, <1>6, <1>a, <2>1, <2>2
       DEF ReadGeneration, primary, replica, SameGeneration, Matches
<1>7. CASE Subscribe
  <2>1. /\ src.pc = "subscribed" /\ src'.gen = src.gen
        /\ src'.cursor = IF MustReset THEN 0 ELSE flw.off
    BY <1>7 DEF Subscribe, Types, Streamer
  <2>2. chan = <<>> /\ UNCHANGED <<plog, pgen, rlog, rgen>>
    BY SMTT(30), <1>7, <2>1 DEF Subscribe, replica, primary, Handshake
  <2>3. DOMAIN chan' = 1 .. 1 /\ chan'[1].type = "reply"
    <3>1. MustReset \in BOOLEAN /\ src.gen \in Generations
      BY DEF MustReset, Types, Streamer
    <3>2. DOMAIN chan' = 1 .. 1 /\ chan'[1] = Reply(src.gen, MustReset)
      BY SMTT(30), <1>7, <2>2, <3>1, Appended, MessageTypes, EmptySeqs DEF Subscribe
    <3> QED
      BY <3>2 DEF Reply
  <2>4. src'.cursor <= Len(plog)
    BY SMTT(30), <1>a, <2>1 DEF MustReset
  <2> QED
    BY SMTT(30), <1>0, <2>1, <2>2, <2>3, <2>4 DEF SameGeneration, Matches
<1>8. CASE SendFrame
  <2>1. src.cursor < Len(plog) /\ UNCHANGED <<plog, pgen, rlog, rgen>> /\ src.gen = pgen
    BY <1>8 DEF SendFrame, MoreToSend, primary, replica
  <2>2. plog[src.cursor + 1] \in Frames
    BY SMTT(30), <1>a, <2>1 DEF Types
  <2>3. PICK m \in Message :
          /\ chan' = Append(chan, m)
          /\ m.type = "frame" => m.off = src.cursor /\ m.frame = plog[src.cursor + 1]
    BY SMTT(30), <1>8, <1>a, <2>2, MessageTypes
       DEF SendFrame, FrameMsg, IncompatibleMsg
  <2>4. /\ DOMAIN chan = 1 .. Len(chan) /\ DOMAIN chan' = 1 .. Len(chan) + 1
        /\ \A k \in 1 .. Len(chan) : chan'[k] = chan[k]
        /\ chan'[Len(chan) + 1] = m /\ Len(chan) \in Nat
    BY SMTT(30), <2>3, Appended DEF Types
  <2>5. src'.gen = src.gen /\ src'.cursor <= Len(plog)
    <3>1. \/ src' = [src EXCEPT !.pc = "closed"]
          \/ src' = [src EXCEPT !.cursor = src.cursor + 1]
      BY <1>8 DEF SendFrame, NextCursor
    <3>2. src'.gen = src.gen /\ (src'.cursor = src.cursor \/ src'.cursor = src.cursor + 1)
      BY SMTT(30), <3>1 DEF Types, Streamer
    <3> QED
      BY SMTT(30), <1>a, <2>1, <3>2
  <2>6. \A k \in DOMAIN chan' : chan'[k].type = "frame" =>
           chan'[k].off < Len(plog) /\ plog[chan'[k].off + 1] = chan'[k].frame
    BY SMTT(30), <1>0, <2>1, <2>3, <2>4 DEF SameGeneration
  <2> QED
    BY SMTT(30), <1>0, <2>1, <2>5, <2>6 DEF SameGeneration, Matches
<1>9. CASE SendReset
  <2>1. src'.gen = src.gen /\ src.gen # pgen
    BY <1>9 DEF SendReset, Types, Streamer
  <2> QED
    BY SMTT(30), <1>0, <1>9, <2>1
       DEF SendReset, primary, replica, SameGeneration, Matches
<1>10. CASE RecvReply
  <2>1. /\ Head(chan) = chan[1] /\ 1 \in DOMAIN chan
        /\ \A k \in DOMAIN chan' : k + 1 \in DOMAIN chan /\ chan'[k] = chan[k + 1]
    BY SMTT(30), <1>10, Received DEF RecvReply, Types
  <2>2. rgen' = src.gen /\ (~Head(chan).reset => src.gen = rgen)
    BY SMTT(30), <1>10, <2>1 DEF RecvReply, Handshake
  <2>3. UNCHANGED <<plog, pgen, src>>
    BY <1>10 DEF RecvReply, primary
  <2>4. rgen' = pgen => Matches(rlog', plog)
    <3>1. CASE Head(chan).reset
      BY SMTT(30), <1>0, <1>10, <1>a, <3>1, CleanReset, EmptySeqs
         DEF RecvReply, Matches
    <3>2. CASE ~Head(chan).reset
      BY SMTT(30), <1>0, <1>10, <2>2, <3>2 DEF RecvReply, SameGeneration
    <3> QED
      BY SMTT(30), <3>1, <3>2
  <2> QED
    BY SMTT(30), <1>0, <2>1, <2>2, <2>3, <2>4 DEF SameGeneration, Matches
<1>11. CASE RecvFrame
  <2>1. /\ Head(chan) = chan[1] /\ 1 \in DOMAIN chan
        /\ \A k \in DOMAIN Tail(chan) : k + 1 \in DOMAIN chan /\ Tail(chan)[k] = chan[k + 1]
    BY SMTT(30), <1>11, Received DEF RecvFrame, Types
  <2>2. /\ chan[1].type = "frame" /\ chan[1].off = Len(rlog)
        /\ rlog' = Append(rlog, chan[1].frame) /\ chan' = Tail(chan)
        /\ UNCHANGED <<plog, pgen, rgen, src>>
    BY SMTT(30), <1>0, <1>11, <2>1 DEF RecvFrame, InStep, primary, Mishap
  <2>3. chan[1].frame \in Frames
    BY SMTT(30), <1>a, <2>1, <2>2 DEF Message
  <2>4. /\ Len(rlog') = Len(rlog) + 1 /\ rlog'[Len(rlog) + 1] = chan[1].frame
        /\ \A k \in 1 .. Len(rlog) : rlog'[k] = rlog[k]
    BY SMTT(30), <2>2, <2>3, Appended DEF Types
  <2>5. src.gen = rgen
    BY <1>11 DEF RecvFrame, Handshake
  <2>6. rgen = pgen => Matches(rlog', plog)
    <3>1. SUFFICES ASSUME rgen = pgen PROVE Matches(rlog', plog)
      OBVIOUS
    <3>2. Len(rlog) < Len(plog) /\ plog[Len(rlog) + 1] = chan[1].frame
      BY SMTT(30), <1>0, <2>1, <2>2, <2>5, <3>1 DEF SameGeneration
    <3>3. Matches(rlog, plog)
      BY SMTT(30), <1>0, <3>1 DEF SameGeneration
    <3> QED
      BY SMTT(30), <1>a, <2>4, <3>2, <3>3 DEF Matches
  <2> QED
    BY SMTT(30), <1>0, <2>1, <2>2, <2>6 DEF SameGeneration, Matches
<1>12. CASE RecvDesync \/ RecvIncompatible \/ RecvEof \/ Drop
  BY SMTT(30), <1>0, <1>12, ClosedGeneration
     DEF RecvDesync, RecvIncompatible, RecvEof, Drop, primary, replica
<1>13. CASE RecvReset
  BY SMTT(30), <1>0, <1>13, ClosedGeneration, CleanReset DEF RecvReset, primary
<1>14. CASE ReplicaRestart
  <2>0. PICK l \in Seq(Frames) : \E end \in 0 .. Len(l) : RestartedWith(l, end)
    BY Zenon, <1>14, Restarted
  <2>1. PICK end \in 0 .. Len(l) : Matches(l, rlog) /\ rlog' = SubSeq(l, 1, end)
    BY Zenon, <2>0 DEF RestartedWith
  <2>2. Len(rlog') = end /\ \A k \in 1 .. end : rlog'[k] = l[k]
    BY Zenon, <2>1, Cut
  <2>3. rgen' = 0 /\ UNCHANGED <<plog, pgen>>
    BY <1>14 DEF ReplicaRestart, primary
  <2>4. src'.gen = 0 /\ src'.pc = "none" /\ DOMAIN chan' = {}
    BY SMTT(30), <1>14, ClosedHandshake DEF ReplicaRestart, NoSrc
  <2>5. pgen = 0 => Matches(rlog, plog)
    BY SMTT(30), <1>0, <1>a DEF SameGeneration
  <2>6. pgen = 0 => Matches(rlog', plog)
    <3>1. end \in Nat /\ end <= Len(l) /\ Len(l) \in Nat
      BY SMTT(30), <2>1
    <3>2. ASSUME NEW k \in 1 .. end, Matches(rlog, plog)
          PROVE  rlog'[k] \in {plog[k], Bad}
      <4>1. k \in 1 .. Len(l) /\ k \in 1 .. Len(rlog)
        BY SMTT(30), <1>a, <2>1, <3>1 DEF Matches
      <4>2. rlog'[k] = l[k] /\ l[k] \in {rlog[k], Bad} /\ rlog[k] \in {plog[k], Bad}
        BY Zenon, <2>1, <2>2, <3>2, <4>1 DEF Matches
      <4> QED
        BY Zenon, <4>2
    <3>3. Matches(rlog, plog) => end <= Len(plog)
      BY SMTT(30), <1>a, <2>1, <3>1 DEF Matches
    <3> QED
      BY Zenon, <2>2, <2>5, <3>2, <3>3 DEF Matches
  <2> QED
    BY SMTT(30), <1>a, <2>3, <2>4, <2>6 DEF SameGeneration, Matches
<1>15. CASE Fsync \/ ReplicaCheckpoint \/ UNCHANGED vars
  BY <1>15, <1>1 DEF Fsync, ReplicaCheckpoint, vars, replica, primary
<1> QED
  BY SMTT(30), <1>2, <1>3, <1>4, <1>5, <1>6, <1>7, <1>8, <1>9, <1>10, <1>11,
     <1>12, <1>13,
     <1>14, <1>15 DEF Next

-----------------------------------------------------------------------------
(* Every step keeps Indexed while nothing spoils it.                       *)
LEMMA IndexedStep ==
    ASSUME Types, Handshake, Unspoilt => Indexed, [Next]_vars, Unspoilt'
    PROVE  Indexed'
<1>0. Indexed /\ "fault" \notin mishaps' /\ "checkpoint" \notin mishaps'
  BY MishapsGrow DEF Unspoilt
<1>1. CASE UNCHANGED <<rlog, rindex, rckpt>>
  BY <1>0, <1>1 DEF Indexed
<1>2. CASE RecvReply
  <2>1. CASE Head(chan).reset
    BY SMTT(30), <1>0, <1>2, <2>1, CleanReset DEF RecvReply, Indexed
  <2>2. CASE ~Head(chan).reset
    BY SMTT(30), <1>0, <1>2, <2>2 DEF RecvReply, Indexed
  <2> QED
    BY <2>1, <2>2
<1>3. CASE RecvFrame
  BY <1>0, <1>3 DEF RecvFrame, Indexed, Mishap
<1>4. CASE RecvReset
  BY SMTT(30), <1>0, <1>4, CleanReset DEF RecvReset, Indexed
<1>5. CASE ReplicaCheckpoint
  BY <1>0, <1>5 DEF ReplicaCheckpoint, Indexed
<1>6. CASE ReplicaRestart
  <2>0. PICK l \in Seq(Frames) : \E end \in 0 .. Len(l) : RestartedWith(l, end)
    BY Zenon, <1>6, Restarted
  <2>1. PICK end \in 0 .. Len(l) :
          /\ rlog' = SubSeq(l, 1, end)
          /\ Trusted(Len(l)) =>
               /\ Len(rckpt.over) <= end
               /\ rindex' = rckpt.index \o SubSeq(l, Len(rckpt.over) + 1, end)
          /\ ~Trusted(Len(l)) => rindex' = SubSeq(l, 1, end)
          /\ mishaps' = IF StaleCheckpoint(l)
                        THEN mishaps \cup {"checkpoint"} ELSE mishaps
    BY Zenon, <2>0 DEF RestartedWith
  <2>2. UNCHANGED rckpt
    BY <1>6 DEF ReplicaRestart
  <2>3. CASE Trusted(Len(l))
    <3>1. Len(rckpt.over) <= Len(l) /\ rckpt.over = SubSeq(l, 1, Len(rckpt.over))
      BY Zenon, <1>0, <2>1, <2>3 DEF StaleCheckpoint, Trusted
    <3>2. rckpt.over \in Seq(Frames) /\ Len(rckpt.over) \in 0 .. Len(l)
      BY SMTT(30), <3>1 DEF Types, Checkpoints
    <3>3. Agrees(rckpt.over, l)
      BY Zenon, <3>1, <3>2, Cut DEF Agrees
    <3>4. rckpt.over \o SubSeq(l, Len(rckpt.over) + 1, end) = SubSeq(l, 1, end)
      BY Zenon, <2>1, <2>3, <3>2, <3>3, TailReplay
    <3> QED
      BY Zenon, <1>0, <2>1, <2>2, <2>3, <3>4 DEF Indexed
  <2>4. CASE ~Trusted(Len(l))
    BY Zenon, <1>0, <2>1, <2>2, <2>4 DEF Indexed
  <2> QED
    BY <2>3, <2>4
<1>7. CASE Write \/ Fsync \/ Compact \/ PrimaryCrash \/ Connect \/ ReadGeneration
           \/ Subscribe \/ SendFrame \/ SendReset
  BY <1>7, <1>1 DEF Write, Fsync, Compact, PrimaryCrash, Connect, ReadGeneration,
     Subscribe, SendFrame, SendReset, replica
<1>8. CASE RecvDesync \/ RecvIncompatible \/ RecvEof \/ Drop \/ UNCHANGED vars
  BY <1>8, <1>1 DEF RecvDesync, RecvIncompatible, RecvEof, Drop, vars, replica
<1> QED
  BY SMTT(30), <1>2, <1>3, <1>4, <1>5, <1>6, <1>7, <1>8 DEF Next

-----------------------------------------------------------------------------
(* Every step keeps Recorded.                                              *)
LEMMA RecordedStep ==
    ASSUME Types, Handshake, Recorded, [Next]_vars
    PROVE  Recorded'
<1>0. /\ Len(plog) \in Nat /\ DOMAIN plog = 1 .. Len(plog)
      /\ Len(chan) \in Nat /\ DOMAIN chan = 1 .. Len(chan)
  BY DEF Types
<1>1. CASE UNCHANGED <<plog, chan, held>>
  BY <1>1 DEF Recorded
<1>2. CASE Holds(plog') /\ UNCHANGED chan
  BY <1>2 DEF Recorded, Holds
<1>3. CASE PrimaryCrash
  <2>1. UNCHANGED <<held, chan>>
    BY <1>3 DEF PrimaryCrash
  <2>2. \A k \in DOMAIN plog' : plog'[k] # Bad => k \in DOMAIN plog /\ plog'[k] = plog[k]
    <3>1. CASE UNCHANGED plog
      BY <3>1
    <3>2. ASSUME NEW n \in psynced .. Len(plog), plog' = SubSeq(plog, 1, n)
          PROVE  \A k \in DOMAIN plog' : plog'[k] # Bad => k \in DOMAIN plog /\ plog'[k] = plog[k]
      <4>1. n \in 0 .. Len(plog)
        BY <1>0 DEF Types
      <4>2. DOMAIN plog' = 1 .. n /\ \A k \in 1 .. n : plog'[k] = plog[k]
        BY SMTT(30), <3>2, <4>1, Cut DEF Types
      <4> QED
        BY SMTT(30), <1>0, <4>1, <4>2
    <3>3. ASSUME NEW k \in psynced + 1 .. Len(plog) - 1, plog' = [plog EXCEPT ![k] = Bad]
          PROVE  \A j \in DOMAIN plog' : plog'[j] # Bad => j \in DOMAIN plog /\ plog'[j] = plog[j]
      BY <3>3
    <3> QED
      BY SMTT(30), <1>3, <3>1, <3>2, <3>3 DEF PrimaryCrash
  <2> QED
    BY <2>1, <2>2 DEF Recorded
<1>4. CASE chan' = <<>> /\ UNCHANGED <<plog, held>>
  BY SMTT(30), <1>4, EmptySeqs DEF Recorded
<1>5. ASSUME NEW m \in Message, chan' = Append(chan, m), UNCHANGED <<plog, held>>,
             m.type = "frame" => <<m.off + 1, m.frame>> \in held
      PROVE  Recorded'
  <2>1. /\ DOMAIN chan' = 1 .. Len(chan) + 1
        /\ \A k \in 1 .. Len(chan) : chan'[k] = chan[k]
        /\ chan'[Len(chan) + 1] = m
    BY <1>5, Appended DEF Types
  <2> QED
    BY SMTT(30), <1>0, <1>5, <2>1 DEF Recorded
<1>6. CASE Subscribe
  <2>1. MustReset \in BOOLEAN /\ src.gen \in Generations
    BY DEF MustReset, Types, Streamer
  <2>2. Reply(src.gen, MustReset) \in Message /\ Reply(src.gen, MustReset).type # "frame"
    BY <2>1, MessageTypes DEF Reply
  <2> QED
    BY Zenon, <1>5, <1>6, <2>2 DEF Subscribe, primary
<1>7. CASE SendFrame
  <2>1. src.cursor \in Nat /\ src.cursor + 1 \in DOMAIN plog /\ plog[src.cursor + 1] # Bad
    BY <1>0, <1>7 DEF SendFrame, MoreToSend, Types, Streamer
  <2>2. plog[src.cursor + 1] \in Frames /\ <<src.cursor + 1, plog[src.cursor + 1]>> \in held
    BY SMTT(30), <1>0, <2>1 DEF Types, Recorded
  <2>3. PICK m \in Message :
          /\ chan' = Append(chan, m)
          /\ m.type = "frame" => m.off = src.cursor /\ m.frame = plog[src.cursor + 1]
    BY SMTT(30), <1>7, <2>1, <2>2, MessageTypes
       DEF SendFrame, FrameMsg, IncompatibleMsg
  <2> QED
    BY Zenon, <1>5, <1>7, <2>2, <2>3 DEF SendFrame, primary
<1>8. CASE SendReset
  <2>1. ResetMsg \in Message /\ ResetMsg.type # "frame"
    BY MessageTypes DEF ResetMsg
  <2> QED
    BY Zenon, <1>5, <1>8, <2>1 DEF SendReset, primary
<1>9. CASE chan # <<>> /\ chan' = Tail(chan) /\ UNCHANGED <<plog, held>>
  <2>1. \A k \in DOMAIN chan' : k + 1 \in DOMAIN chan /\ chan'[k] = chan[k + 1]
    BY SMTT(30), <1>9, Received DEF Types
  <2> QED
    BY SMTT(30), <1>9, <2>1 DEF Recorded
<1>10. CASE Write \/ Compact
  BY SMTT(30), <1>2, <1>10 DEF Write, Compact
<1>11. CASE Fsync \/ ReadGeneration \/ ReplicaCheckpoint \/ UNCHANGED vars
  BY SMTT(30), <1>1, <1>11
     DEF Fsync, ReadGeneration, ReplicaCheckpoint, vars, primary
<1>12. CASE Connect
  BY SMTT(30), <1>4, <1>12 DEF Connect, primary
<1>13. CASE RecvReply \/ RecvFrame
  BY SMTT(30), <1>4, <1>9, <1>13 DEF RecvReply, RecvFrame, Closed, primary
<1>14. CASE RecvDesync \/ RecvReset \/ RecvIncompatible \/ RecvEof \/ Drop \/ ReplicaRestart
  BY Zenon, <1>4, <1>14
     DEF RecvDesync, RecvReset, RecvIncompatible, RecvEof, Drop, ReplicaRestart,
     Closed, primary
<1> QED
  BY SMTT(30), <1>3, <1>6, <1>7, <1>8, <1>10, <1>11, <1>12, <1>13, <1>14 DEF Next

(* Every step keeps AppliedAtOffset: a frame enters the replica's log at   *)
(* the offset of its message, ignored failures or not.                     *)
LEMMA AppliedStep ==
    ASSUME Types, Recorded, AppliedAtOffset, [Next]_vars
    PROVE  AppliedAtOffset'
<1>1. held \subseteq held'
  BY Zenon
     DEF Next, vars, primary, Holds, Write, Fsync, Compact, PrimaryCrash, Connect,
     ReadGeneration, Subscribe, SendFrame, SendReset, RecvReply, RecvFrame, RecvDesync,
     RecvReset, RecvIncompatible, RecvEof, Drop, ReplicaCheckpoint, ReplicaRestart
<1>2. CASE UNCHANGED rlog
  BY <1>1, <1>2 DEF AppliedAtOffset
<1>3. CASE rlog' = <<>>
  BY <1>3, EmptySeqs DEF AppliedAtOffset
<1>4. CASE RecvFrame
  <2>1. /\ 1 \in DOMAIN chan /\ chan[1] = Head(chan) /\ chan[1] \in Message
        /\ chan[1].type = "frame" /\ chan[1].off = Len(rlog)
        /\ rlog' = Append(rlog, chan[1].frame)
    BY <1>4, Received DEF RecvFrame, InStep, Types
  <2>2. chan[1].frame \in Frames
    BY <2>1 DEF Message
  <2>3. /\ DOMAIN rlog = 1 .. Len(rlog) /\ DOMAIN rlog' = 1 .. Len(rlog) + 1
        /\ \A k \in 1 .. Len(rlog) : rlog'[k] = rlog[k]
        /\ rlog'[Len(rlog) + 1] = chan[1].frame /\ Len(rlog) \in Nat
    BY SMTT(30), <2>1, <2>2, Appended DEF Types
  <2>4. <<Len(rlog) + 1, chan[1].frame>> \in held
    BY <2>1 DEF Recorded
  <2> QED
    <3> SUFFICES ASSUME NEW k \in DOMAIN rlog' PROVE rlog'[k] = Bad \/ <<k, rlog'[k]>> \in held
      BY Zenon, <1>1 DEF AppliedAtOffset
    <3>1. CASE k = Len(rlog) + 1
      BY SMTT(30), <2>3, <2>4, <3>1
    <3>2. CASE k # Len(rlog) + 1
      <4>1. k \in 1 .. Len(rlog)
        BY SMTT(30), <2>3, <3>2
      <4> QED
        BY Zenon, <2>3, <4>1 DEF AppliedAtOffset
    <3> QED
      BY <3>1, <3>2
<1>5. CASE ReplicaRestart
  <2>0. PICK l \in Seq(Frames) : \E end \in 0 .. Len(l) : RestartedWith(l, end)
    BY Zenon, <1>5, Restarted
  <2>1. PICK end \in 0 .. Len(l) : Matches(l, rlog) /\ rlog' = SubSeq(l, 1, end)
    BY Zenon, <2>0 DEF RestartedWith
  <2>2. DOMAIN rlog' = 1 .. end /\ \A k \in 1 .. end : rlog'[k] = l[k]
    BY Zenon, <2>1, Cut
  <2>3. \A k \in 1 .. end : k \in 1 .. Len(l) /\ k \in DOMAIN rlog
    BY SMTT(30), <2>1 DEF Matches, Types
  <2>4. \A k \in 1 .. end : l[k] = rlog[k] \/ l[k] = Bad
    BY Zenon, <2>1, <2>3 DEF Matches
  <2> QED
    BY Zenon, <1>1, <2>2, <2>3, <2>4 DEF AppliedAtOffset
<1>6. CASE RecvReply \/ RecvReset
  BY SMTT(30), <1>2, <1>3, <1>6 DEF RecvReply, RecvReset, ResetReplica
<1>7. CASE Write \/ Fsync \/ Compact \/ PrimaryCrash \/ Connect \/ ReadGeneration
           \/ Subscribe \/ SendFrame \/ SendReset
  BY SMTT(30), <1>7, <1>2
     DEF Write, Fsync, Compact, PrimaryCrash, Connect, ReadGeneration,
     Subscribe, SendFrame, SendReset, replica
<1>8. CASE RecvDesync \/ RecvIncompatible \/ RecvEof \/ Drop \/ ReplicaCheckpoint
           \/ UNCHANGED vars
  BY <1>8, <1>2
     DEF RecvDesync, RecvIncompatible, RecvEof, Drop, ReplicaCheckpoint, vars,
     replica
<1> QED
  BY SMTT(30), <1>4, <1>5, <1>6, <1>7, <1>8 DEF Next

-----------------------------------------------------------------------------
(* The inductive invariant holds in every reachable state.                 *)
THEOREM Invariant == Spec => []IInv
<1>1. Init => IInv
  <2> SUFFICES ASSUME Init PROVE IInv
    OBVIOUS
  <2>1. Types
    BY InitTypes
  <2>2. Handshake
    BY EmptySeqs DEF Init, Handshake, NoSrc, NoFlw
  <2>3. SameGeneration
    <3>1. src.gen = 0 /\ src.pc = "none" /\ pgen = 0 /\ rgen = 0
      BY DEF Init, NoSrc
    <3>2. DOMAIN chan = {} /\ Len(rlog) = 0 /\ Len(plog) = 0
      BY EmptySeqs DEF Init
    <3> QED
      BY <3>1, <3>2 DEF SameGeneration, Matches
  <2>4. Indexed /\ Recorded /\ AppliedAtOffset
    BY EmptySeqs DEF Init, Indexed, Recorded, AppliedAtOffset
  <2> QED
    BY SMTT(30), <2>1, <2>2, <2>3, <2>4 DEF IInv
<1>2. IInv /\ [Next]_vars => IInv'
  BY SMTT(30), TypesStep, HandshakeStep, GenerationStep, IndexedStep,
     RecordedStep, AppliedStep
     DEF IInv
<1> QED
  BY <1>1, <1>2, PTL DEF Spec

(* Types, and the cursor of a stream that no mishap has touched lies in    *)
(* the log it streams.                                                     *)
THEOREM TypeCorrect == Spec => []TypeOK
<1>1. IInv => TypeOK
  <2> SUFFICES ASSUME IInv PROVE TypeOK
    OBVIOUS
  <2>1. /\ pgen \in 0 .. MaxCompactions /\ rgen \in 0 .. MaxCompactions
        /\ rckpt \in [index : Seq(Frames), over : Seq(Frames)]
        /\ mishaps \subseteq {"restart", "fault", "checkpoint"}
    BY SMTT(30), ReplicationAssumption
       DEF IInv, Types, Counts, Generations, Checkpoints, Mishaps
  <2>2. src.pc = "stream" /\ src.gen = pgen /\ mishaps = {} => src.cursor <= Len(plog)
    BY DEF IInv, SameGeneration, Undisturbed
  <2>3. /\ src.pc \in {"none", "accepted", "subscribed", "stream", "closed"}
        /\ flw.pc \in {"none", "sent", "follow"}
    BY DEF IInv, Types, Streamer, Follower
  <2>4. (src.pc = "none") = (flw.pc = "none")
    BY DEF IInv, Handshake
  <2> QED
    BY SMTT(30), <2>1, <2>2, <2>3, <2>4 DEF IInv, Types, TypeOK
<1> QED
  BY <1>1, Invariant, PTL

(* A subscribed replica holds a prefix of the log of a primary that has    *)
(* not restarted, up to frames its own power failures damaged, as long as  *)
(* no failure was ignored: whatever compactions it missed and however      *)
(* often it crashed, reconnected or was reset.                             *)
THEOREM FollowsRunningPrimary == Spec => []PrefixOfRunningPrimary
<1>1. IInv => PrefixOfRunningPrimary
  <2> SUFFICES ASSUME IInv, Undisturbed, Following PROVE Matches(rlog, plog)
    BY Zenon DEF PrefixOfRunningPrimary, FollowedMatches, Undisturbed
  <2> QED
    BY DEF IInv, Following, Handshake, SameGeneration
<1> QED
  BY <1>1, Invariant, PTL

(* The replica's indexes reflect its log, damaged frames included, unless  *)
(* a failure was ignored or a checkpoint was trusted that is not of the    *)
(* log as it is.                                                           *)
THEOREM IndexesFollowLog == Spec => []IndexIsLogUnlessStale
<1>1. IInv => IndexIsLogUnlessStale
  BY DEF IInv, IndexIsLogUnlessStale, Unspoilt, Indexed, IndexIsLog
<1> QED
  BY <1>1, Invariant, PTL

(* Whatever fails, a readable frame stands in the replica's log where the  *)
(* primary's log had it once.                                              *)
THEOREM FramesKeepOffsets == Spec => []AppliedAtOffset
<1>1. IInv => AppliedAtOffset
  BY DEF IInv
<1> QED
  BY <1>1, Invariant, PTL
=============================================================================
