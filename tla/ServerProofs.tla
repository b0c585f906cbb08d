---------------------------- MODULE ServerProofs ----------------------------
(***************************************************************************)
(* The connections, for every number of loops and of clients, every cap    *)
(* and whatever the clients send: the shared count is exact, the loops     *)
(* overshoot the cap by less than their number, requests are answered in   *)
(* order, each once, and none is left in a buffer.                         *)
(* The replication source, for every number of connections and every value *)
(* of the two caps: the counters count the threads, the registry holds     *)
(* their sockets, the caps hold, and the source is freed after the last    *)
(* stream unless a slot was claimed between the stopper's two reads.       *)
(* Admission, for every rate, every number of tenants and every delay: the *)
(* rate limit is neither exceeded in any window of time nor able to lock a *)
(* tenant out.                                                             *)
(***************************************************************************)
EXTENDS Connections, ReplicaSource, Admission, FiniteSetTheorems, TLAPS

-----------------------------------------------------------------------------
(* The connections.                                                        *)

States == {"absent", "new", "backlog", "admitted", "placing", "open", "refused", "eof",
           "toolong", "error", "reaped", "stopped"}

(* The loops between the test of the cap and the count.                    *)
Adds == {l \in Loops : loop[l] = "add"}

CountTypes ==
    /\ st \in [Clients -> States] /\ at \in [Clients -> Loops]
    /\ loop \in [Loops -> {"poll", "accept", "add", "place", "io", "ended"}]
    /\ ready \in [Loops -> SUBSET Clients]
    /\ g_conns \in Int

(* What poll reported is still open when it is handled: only its own loop  *)
(* closes a connection, and it does so in this pass or after it.           *)
ReadyIsOpen ==
    /\ \A l \in Loops : \A c \in ready[l] : st[c] = "open" /\ at[c] = l
    /\ \A l \in Loops : loop[l] \in {"poll", "ended"} => ready[l] = {}

(* The cap holds of the count together with the connections about to be    *)
(* counted, whose number is that of the loops at most.                     *)
CapWithAdds == g_conns + Cardinality(Adds) <= MaxConn + Cardinality(Loops) - 1

(* The inductive invariant: CapNearlyHolds does not say which loops are    *)
(* past the test, CapWithAdds does.                                        *)
IInv == CountTypes /\ ReadyIsOpen /\ ConnsCounted /\ CapWithAdds

-----------------------------------------------------------------------------
(* The sets that are counted are finite.                                   *)
LEMMA Finite ==
    /\ IsFiniteSet(Counted) /\ Cardinality(Counted) \in Nat
    /\ IsFiniteSet(Adds) /\ Cardinality(Adds) \in Nat
    /\ Cardinality(Adds) <= Cardinality(Loops) /\ Cardinality(Loops) \in Nat
    /\ \A l \in Loops : IsFiniteSet(OpenOn(l))
<1>1. Counted \in SUBSET Clients /\ Adds \in SUBSET Loops
  BY Zenon DEF Counted, Adds
<1>2. IsFiniteSet(Clients) /\ IsFiniteSet(Loops)
  BY Zenon, ConnectionsAssumption
<1>3. IsFiniteSet(Counted) /\ IsFiniteSet(Adds) /\ Cardinality(Adds) <= Cardinality(Loops)
  BY Zenon, <1>1, <1>2, FS_Subset
<1>4. Cardinality(Counted) \in Nat /\ Cardinality(Adds) \in Nat /\ Cardinality(Loops) \in Nat
  BY Zenon, <1>2, <1>3, FS_CardinalityType
<1>5. ASSUME NEW l \in Loops PROVE IsFiniteSet(OpenOn(l))
  <2>1. OpenOn(l) \in SUBSET Counted
    BY Zenon DEF OpenOn, Open, Counted
  <2> QED
    BY Zenon, <1>3, <2>1, FS_Subset
<1> QED
  BY Zenon, <1>3, <1>4, <1>5

(* Taking connections out of the open ones takes as many off their number. *)
LEMMA CountLess ==
    ASSUME NEW S \in SUBSET Counted
    PROVE  Cardinality(Counted \ S) = Cardinality(Counted) - Cardinality(S) /\ Cardinality(S) \in Nat
<1>1. IsFiniteSet(Counted) /\ IsFiniteSet(S) /\ Cardinality(S) \in Nat
  BY Zenon, Finite, FS_Subset, FS_CardinalityType
<1>2. Counted \cap S = S
  BY Zenon
<1> QED
  BY Zenon, <1>1, <1>2, FS_Difference

(* Nothing is open, and no loop is past the test, at the start.            *)
LEMMA InitIInv == ConnInit => IInv
<1> SUFFICES ASSUME ConnInit PROVE IInv
  BY Zenon
<1>1. PICK p \in Plans : /\ at = p.at /\ stream = p.stream
                         /\ st = [c \in Clients |-> IF c \in p.who THEN "new" ELSE "absent"]
  BY Zenon DEF ConnInit
<1>2. CountTypes
  BY <1>1, ConnectionsAssumption DEF ConnInit, CountTypes, States
<1>3. ReadyIsOpen
  BY Zenon DEF ConnInit, ReadyIsOpen
<1>4. Counted = {} /\ Adds = {} /\ Cardinality({}) = 0
  BY Zenon, <1>1, FS_EmptySet DEF ConnInit, Counted, Adds
<1>5. Cardinality(Loops) >= 1
  BY Finite, FS_EmptySet, ConnectionsAssumption
<1>6. ConnsCounted /\ CapWithAdds
  BY <1>4, <1>5, Finite, ConnectionsAssumption
     DEF ConnInit, ConnsCounted, CapWithAdds
<1> QED
  BY Zenon, <1>2, <1>3, <1>6 DEF IInv

(* A step that neither opens nor closes a connection keeps the invariant   *)
(* when no loop goes past the test.                                        *)
LEMMA QuietConnections ==
    ASSUME IInv, CountTypes', ReadyIsOpen', Counted' = Counted, UNCHANGED g_conns, Adds' \subseteq Adds
    PROVE  IInv'
<1>1. Cardinality(Adds') <= Cardinality(Adds) /\ Cardinality(Adds') \in Nat
  BY Zenon, Finite, FS_Subset, FS_CardinalityType
<1>2. ConnsCounted' /\ CapWithAdds'
  BY SMTT(30), <1>1, Finite, ConnectionsAssumption
     DEF IInv, ConnsCounted, CapWithAdds, CountTypes
<1> QED
  BY Zenon, <1>2 DEF IInv

(* A step that closes the connections of S, of those that are open.        *)
LEMMA CloseStep ==
    ASSUME IInv, CountTypes', ReadyIsOpen', NEW S \in SUBSET Counted,
           Counted' = Counted \ S, g_conns' = g_conns - Cardinality(S), Adds' \subseteq Adds
    PROVE  IInv'
<1>0. MaxConn \in Int
  BY ConnectionsAssumption
<1>1. Cardinality(Counted') = Cardinality(Counted) - Cardinality(S) /\ Cardinality(S) \in Nat
  BY Zenon, CountLess
<1>2. Cardinality(Adds') <= Cardinality(Adds) /\ Cardinality(Adds') \in Nat
  BY Zenon, Finite, FS_Subset, FS_CardinalityType
<1>3. ConnsCounted'
  BY Zenon, <1>1 DEF IInv, ConnsCounted
<1>4. /\ g_conns \in Int /\ g_conns + Cardinality(Adds) <= MaxConn + Cardinality(Loops) - 1
      /\ MaxConn \in Int /\ Cardinality(Loops) \in Nat /\ Cardinality(Adds) \in Nat
  BY Zenon, <1>0, Finite DEF IInv, CapWithAdds, CountTypes
<1>5. PICK g, n : g = g_conns - n /\ n = Cardinality(S) /\ g_conns' = g
  BY Zenon
<1>6. g + Cardinality(Adds') <= MaxConn + Cardinality(Loops) - 1
  BY <1>1, <1>2, <1>4, <1>5
<1>7. CapWithAdds'
  BY Zenon, <1>5, <1>6 DEF CapWithAdds
<1> QED
  BY Zenon, <1>3, <1>7 DEF IInv

-----------------------------------------------------------------------------
(* Clients and the stop flag touch no count.                               *)
LEMMA ClientStep ==
    ASSUME IInv, RequestStop \/ \E c \in Clients : Client(c)
    PROVE  IInv'
<1>1. CASE UNCHANGED <<st, at, loop, ready, g_conns>>
  BY Zenon, <1>1, QuietConnections DEF IInv, CountTypes, ReadyIsOpen, Counted, Adds
<1>2. ASSUME NEW c \in Clients, Connect(c) PROVE IInv'
  <2>1. st[c] = "new" /\ st' = [st EXCEPT ![c] = "backlog"] /\ UNCHANGED <<at, loop, ready, g_conns>>
    BY Zenon, <1>2 DEF Connect
  <2>2. CountTypes' /\ Counted' = Counted /\ Adds' = Adds
    BY Zenon, <2>1 DEF IInv, CountTypes, States, Counted, Adds
  <2>3. ReadyIsOpen'
    BY Zenon, <2>1 DEF IInv, CountTypes, ReadyIsOpen
  <2> QED
    BY Zenon, <2>1, <2>2, <2>3, QuietConnections
<1> QED
  BY Zenon, <1>1, <1>2 DEF RequestStop, Client, Send, Shut, TakeResponse

(* poll reports connections its loop has open.                             *)
LEMMA PollStep ==
    ASSUME IInv, NEW l \in Loops, Poll(l)
    PROVE  IInv'
<1>1. /\ ready' = [ready EXCEPT ![l] = {c \in OpenOn(l) : Polled(c)}]
      /\ loop'[l] \in {"accept", "io"} /\ \A m \in Loops : m # l => loop'[m] = loop[m]
      /\ loop' \in [Loops -> {"poll", "accept", "add", "place", "io", "ended"}]
      /\ UNCHANGED <<st, at, g_conns>>
  BY Zenon DEF Poll, IInv, CountTypes
<1>2. CountTypes'
  <2>1. ready' \in [Loops -> SUBSET Clients]
    BY Zenon, <1>1 DEF IInv, CountTypes, OpenOn, Open
  <2> QED
    BY Zenon, <1>1, <2>1 DEF IInv, CountTypes
<1>3. ReadyIsOpen'
  BY <1>1 DEF IInv, CountTypes, ReadyIsOpen, OpenOn, Open
<1>4. Counted' = Counted /\ Adds' \subseteq Adds
  BY Zenon, <1>1 DEF Counted, Adds
<1> QED
  BY Zenon, <1>1, <1>2, <1>3, <1>4, QuietConnections

(* The test of the cap: a loop that passes it was below the cap, and there *)
(* are no more loops past it than loops.                                   *)
LEMMA AcceptOneStep ==
    ASSUME IInv, NEW l \in Loops, NEW c \in Clients, AcceptOne(l, c)
    PROVE  IInv'
<1>1. /\ loop[l] = "accept" /\ st[c] = "backlog"
      /\ UNCHANGED <<at, ready, g_conns>>
  BY Zenon DEF AcceptOne
<1>2. CASE BelowCap
  <2>1. st' = [st EXCEPT ![c] = "admitted"] /\ loop' = [loop EXCEPT ![l] = "add"]
    BY Zenon, <1>2 DEF AcceptOne
  <2>2. CountTypes' /\ Counted' = Counted
    BY Zenon, <1>1, <2>1 DEF IInv, CountTypes, States, Counted
  <2>3. ReadyIsOpen'
    BY <1>1, <2>1 DEF IInv, CountTypes, ReadyIsOpen
  <2>4. Adds' \in SUBSET Loops /\ IsFiniteSet(Loops)
    BY Zenon, ConnectionsAssumption DEF Adds
  <2>5. Cardinality(Adds') <= Cardinality(Loops) /\ Cardinality(Adds') \in Nat
    BY Zenon, <2>4, FS_Subset, FS_CardinalityType
  <2>6. CapWithAdds'
    BY SMTT(30), <1>1, <1>2, <2>5, Finite, ConnectionsAssumption
       DEF IInv, CountTypes, BelowCap, CapWithAdds
  <2> QED
    BY Zenon, <1>1, <2>2, <2>3, <2>6 DEF IInv, ConnsCounted
<1>3. CASE ~BelowCap
  <2>1. st' = [st EXCEPT ![c] = "refused"] /\ UNCHANGED loop
    BY Zenon, <1>3 DEF AcceptOne
  <2>2. CountTypes' /\ Counted' = Counted /\ Adds' = Adds
    BY Zenon, <1>1, <2>1 DEF IInv, CountTypes, States, Counted, Adds
  <2>3. ReadyIsOpen'
    BY <1>1, <2>1 DEF IInv, CountTypes, ReadyIsOpen
  <2> QED
    BY Zenon, <1>1, <2>2, <2>3, QuietConnections
<1> QED
  BY Zenon, <1>2, <1>3

(* The count: one loop fewer past the test, one connection more.           *)
LEMMA CountConnStep ==
    ASSUME IInv, NEW l \in Loops, NEW c \in Clients, CountConn(l, c)
    PROVE  IInv'
<1>1. /\ loop[l] = "add" /\ st[c] = "admitted"
      /\ st' = [st EXCEPT ![c] = "placing"] /\ loop' = [loop EXCEPT ![l] = "place"]
      /\ g_conns' = g_conns + 1 /\ UNCHANGED <<at, ready>>
  BY Zenon DEF CountConn
<1>2. CountTypes'
  BY <1>1 DEF IInv, CountTypes, States
<1>3. ReadyIsOpen'
  BY <1>1 DEF IInv, CountTypes, ReadyIsOpen
<1>4. Counted' = Counted \cup {c} /\ c \notin Counted /\ Adds' = Adds \ {l} /\ l \in Adds
  BY Zenon, <1>1 DEF IInv, CountTypes, Counted, Adds
<1>5. Cardinality(Counted') = Cardinality(Counted) + 1
  BY Zenon, <1>4, Finite, FS_AddElement
<1>6. Cardinality(Adds') = Cardinality(Adds) - 1
  BY Zenon, <1>4, Finite, FS_RemoveElement
<1>7. ConnsCounted' /\ CapWithAdds'
  BY <1>1, <1>5, <1>6, Finite, ConnectionsAssumption
     DEF IInv, CountTypes, ConnsCounted, CapWithAdds
<1> QED
  BY Zenon, <1>2, <1>3, <1>7 DEF IInv

(* A counted connection gets its place in the loop's array.                *)
LEMMA AddConnStep ==
    ASSUME IInv, NEW l \in Loops, NEW c \in Clients, AddConn(l, c)
    PROVE  IInv'
<1>1. /\ loop[l] = "place" /\ st[c] = "placing"
      /\ st' = [st EXCEPT ![c] = "open"] /\ loop' = [loop EXCEPT ![l] = "accept"]
      /\ UNCHANGED <<at, ready, g_conns>>
  BY Zenon DEF AddConn
<1>2. CountTypes' /\ Counted' = Counted /\ Adds' \subseteq Adds
  BY Zenon, <1>1 DEF IInv, CountTypes, States, Counted, Adds
<1>3. ReadyIsOpen'
  BY <1>1 DEF IInv, CountTypes, ReadyIsOpen
<1> QED
  BY Zenon, <1>1, <1>2, <1>3, QuietConnections

(* An allocation that fails gives back what was taken: the place before    *)
(* the count, the count after it.                                          *)
LEMMA AddFailsStep ==
    ASSUME IInv, NEW l \in Loops, NEW c \in Clients, AddFails(l, c)
    PROVE  IInv'
<1>1. /\ st[c] \in {"admitted", "placing"} /\ loop[l] \in {"add", "place"}
      /\ st' = [st EXCEPT ![c] = "refused"] /\ loop' = [loop EXCEPT ![l] = "accept"]
      /\ UNCHANGED <<at, ready>>
  BY Zenon DEF AddFails
<1>2. \/ st[c] = "admitted" /\ g_conns' = g_conns
      \/ st[c] = "placing" /\ g_conns' = g_conns - 1
  BY Zenon DEF AddFails
<1>3. CountTypes' /\ Adds' \subseteq Adds
  BY <1>1, <1>2 DEF IInv, CountTypes, States, Adds
<1>4. ReadyIsOpen'
  BY <1>1 DEF IInv, CountTypes, ReadyIsOpen
<1>5. CASE st[c] = "admitted"
  <2>1. Counted' = Counted /\ UNCHANGED g_conns
    BY Zenon, <1>1, <1>2, <1>5 DEF IInv, CountTypes, Counted
  <2> QED
    BY Zenon, <1>3, <1>4, <2>1, QuietConnections
<1>6. CASE st[c] = "placing"
  <2>1. Counted' = Counted \ {c} /\ {c} \in SUBSET Counted /\ g_conns' = g_conns - 1
    BY Zenon, <1>1, <1>2, <1>6 DEF IInv, CountTypes, Counted
  <2>2. Cardinality({c}) = 1
    BY Zenon, FS_Singleton
  <2> QED
    BY Zenon, <1>3, <1>4, <2>1, <2>2, CloseStep
<1> QED
  BY Zenon, <1>1, <1>5, <1>6

(* The listener is drained.                                                *)
LEMMA AcceptDrainedStep ==
    ASSUME IInv, NEW l \in Loops, AcceptDrained(l)
    PROVE  IInv'
<1>1. /\ loop[l] = "accept" /\ loop' = [loop EXCEPT ![l] = "io"]
      /\ UNCHANGED <<st, at, ready, g_conns>>
  BY Zenon DEF AcceptDrained
<1>2. CountTypes' /\ Counted' = Counted /\ Adds' \subseteq Adds
  BY Zenon, <1>1 DEF IInv, CountTypes, Counted, Adds
<1>3. ReadyIsOpen'
  BY <1>1 DEF IInv, CountTypes, ReadyIsOpen
<1> QED
  BY Zenon, <1>1, <1>2, <1>3, QuietConnections

(* A polled connection is handled: it stays open, or it is closed and      *)
(* leaves the count.                                                       *)
LEMMA HandledStep ==
    ASSUME IInv, NEW l \in Loops, NEW c \in Clients, NEW k, NEW why \in States \ {"placing"}, NEW socket,
           Handled(l, c, k, why, socket)
    PROVE  IInv'
<1>1. /\ loop[l] = "io" /\ c \in ready[l]
      /\ ready' = [ready EXCEPT ![l] = @ \ {c}]
      /\ st' = [st EXCEPT ![c] = why]
      /\ g_conns' = IF why = "open" THEN g_conns ELSE g_conns - 1
      /\ UNCHANGED <<at, loop>>
  BY Zenon DEF Handled
<1>2. st[c] = "open" /\ at[c] = l
  BY Zenon, <1>1 DEF IInv, ReadyIsOpen
<1>3. CountTypes'
  <2>1. ready' \in [Loops -> SUBSET Clients]
    BY Zenon, <1>1 DEF IInv, CountTypes
  <2> QED
    BY <1>1, <2>1 DEF IInv, CountTypes
<1>4. ReadyIsOpen'
  <2>1. \A m \in Loops : ready'[m] \subseteq ready[m] /\ c \notin ready'[m]
    BY <1>1, <1>2 DEF IInv, CountTypes, ReadyIsOpen
  <2>2. \A d \in Clients : d # c => st'[d] = st[d]
    BY Zenon, <1>1 DEF IInv, CountTypes
  <2>3. \A m \in Loops : ready'[m] \subseteq Clients
    BY Zenon, <1>3 DEF CountTypes
  <2> QED
    BY SMTT(30), <1>1, <2>1, <2>2, <2>3 DEF IInv, ReadyIsOpen
<1>5. CASE why = "open"
  <2>1. Counted' = Counted /\ Adds' = Adds
    BY Zenon, <1>1, <1>2, <1>5 DEF IInv, CountTypes, Counted, Adds
  <2> QED
    BY Zenon, <1>1, <1>3, <1>4, <1>5, <2>1, QuietConnections
<1>6. CASE why # "open"
  <2>1. Counted' = Counted \ {c} /\ {c} \in SUBSET Counted /\ Adds' = Adds
    BY Zenon, <1>1, <1>2, <1>6 DEF IInv, CountTypes, Counted, Adds
  <2>2. Cardinality({c}) = 1
    BY Zenon, FS_Singleton
  <2> QED
    BY Zenon, <1>1, <1>3, <1>4, <1>6, <2>1, <2>2, CloseStep
<1> QED
  BY Zenon, <1>5, <1>6

(* The idle pass closes a set of the loop's open connections.              *)
LEMMA ReapStep ==
    ASSUME IInv, NEW l \in Loops, Reap(l)
    PROVE  IInv'
<1>1. PICK S \in SUBSET OpenOn(l) :
          /\ st' = [c \in Clients |-> IF c \in S THEN "reaped" ELSE st[c]]
          /\ g_conns' = g_conns - Cardinality(S)
  BY Zenon DEF Reap
<1>2. /\ loop[l] = "io" /\ ready[l] = {} /\ loop' = [loop EXCEPT ![l] = "poll"]
      /\ UNCHANGED <<at, ready>>
  BY Zenon DEF Reap
<1>3. S \in SUBSET Counted /\ \A c \in S : at[c] = l
  BY Zenon DEF OpenOn, Open, Counted
<1>4. Cardinality(S) \in Nat
  BY Zenon, <1>3, CountLess
<1>5. CountTypes'
  <2>1. st' \in [Clients -> States]
    BY Zenon, <1>1 DEF IInv, CountTypes, States
  <2>2. g_conns' \in Int
    BY <1>1, <1>4 DEF IInv, CountTypes
  <2> QED
    BY Zenon, <1>2, <2>1, <2>2 DEF IInv, CountTypes
<1>6. ReadyIsOpen'
  <2>1. \A m \in Loops : \A c \in ready[m] : c \in Clients /\ c \notin S
    BY <1>2, <1>3 DEF IInv, CountTypes, ReadyIsOpen
  <2>2. \A m \in Loops : \A c \in ready'[m] : st'[c] = "open" /\ at'[c] = m
    BY Zenon, <1>1, <1>2, <2>1 DEF IInv, ReadyIsOpen
  <2>3. \A m \in Loops : loop'[m] \in {"poll", "ended"} => ready'[m] = {}
    BY <1>2 DEF IInv, CountTypes, ReadyIsOpen
  <2> QED
    BY Zenon, <2>2, <2>3 DEF ReadyIsOpen
<1>7. Counted' = Counted \ S /\ Adds' \subseteq Adds
  BY Zenon, <1>1, <1>2 DEF IInv, CountTypes, Counted, Adds
<1> QED
  BY Zenon, <1>1, <1>3, <1>5, <1>6, <1>7, CloseStep

(* The end of a loop closes every connection it has.                       *)
LEMMA LoopEndsStep ==
    ASSUME IInv, NEW l \in Loops, LoopEnds(l)
    PROVE  IInv'
<1>1. /\ loop[l] = "poll" /\ loop' = [loop EXCEPT ![l] = "ended"]
      /\ st' = [c \in Clients |-> IF c \in OpenOn(l) THEN "stopped" ELSE st[c]]
      /\ g_conns' = g_conns - Cardinality(OpenOn(l))
      /\ UNCHANGED <<at, ready>>
  BY Zenon DEF LoopEnds
<1>2. OpenOn(l) \in SUBSET Counted /\ \A c \in OpenOn(l) : at[c] = l
  BY Zenon DEF OpenOn, Open, Counted
<1>3. Cardinality(OpenOn(l)) \in Nat
  BY Zenon, <1>2, CountLess
<1>4. CountTypes'
  <2>1. st' \in [Clients -> States]
    BY Zenon, <1>1 DEF IInv, CountTypes, States
  <2>2. g_conns' \in Int
    BY <1>1, <1>3 DEF IInv, CountTypes
  <2> QED
    BY Zenon, <1>1, <2>1, <2>2 DEF IInv, CountTypes
<1>5. ReadyIsOpen'
  <2>1. ready[l] = {}
    BY Zenon, <1>1 DEF IInv, ReadyIsOpen
  <2>2. \A m \in Loops : \A c \in ready[m] : c \in Clients /\ c \notin OpenOn(l)
    BY SMTT(30), <1>2, <2>1 DEF IInv, CountTypes, ReadyIsOpen
  <2>3. \A m \in Loops : \A c \in ready'[m] : st'[c] = "open" /\ at'[c] = m
    BY Zenon, <1>1, <2>2 DEF IInv, ReadyIsOpen
  <2>4. \A m \in Loops : loop'[m] \in {"poll", "ended"} => ready'[m] = {}
    BY SMTT(30), <1>1, <2>1 DEF IInv, CountTypes, ReadyIsOpen
  <2> QED
    BY Zenon, <2>3, <2>4 DEF ReadyIsOpen
<1>6. Counted' = Counted \ OpenOn(l) /\ Adds' \subseteq Adds
  BY Zenon, <1>1 DEF IInv, CountTypes, Counted, Adds
<1> QED
  BY Zenon, <1>1, <1>2, <1>4, <1>5, <1>6, CloseStep

(* Every step of the server keeps the invariant.                           *)
LEMMA NextIInv == IInv /\ [ConnNext]_cvars => IInv'
<1> SUFFICES ASSUME IInv, [ConnNext]_cvars PROVE IInv'
  BY Zenon
<1>1. CASE RequestStop \/ \E c \in Clients : Client(c)
  BY Zenon, <1>1, ClientStep
<1>2. ASSUME NEW l \in Loops, LoopStep(l) PROVE IInv'
  <2>1. CASE Poll(l) \/ AcceptDrained(l) \/ Reap(l) \/ LoopEnds(l)
    BY Zenon, <2>1, PollStep, AcceptDrainedStep, ReapStep, LoopEndsStep
  <2>2. ASSUME NEW c \in Clients, AcceptOne(l, c) \/ CountConn(l, c) \/ AddConn(l, c) \/ AddFails(l, c) PROVE IInv'
    BY Zenon, <2>2, AcceptOneStep, CountConnStep, AddConnStep, AddFailsStep
  <2>3. ASSUME NEW c \in Clients, HandleInput(l, c) \/ HandleOutput(l, c) \/ HandleError(l, c)
        PROVE  IInv'
    <3>1. \E k, socket : \E why \in States \ {"placing"} : Handled(l, c, k, why, socket)
      BY Zenon, <2>3 DEF HandleInput, HandleOutput, HandleError, States
    <3> QED
      BY Zenon, <3>1, HandledStep
  <2> QED
    BY Zenon, <1>2, <2>1, <2>2, <2>3 DEF LoopStep
<1>3. CASE UNCHANGED cvars
  BY Zenon, <1>3, QuietConnections
     DEF cvars, IInv, CountTypes, ReadyIsOpen, Counted, Adds
<1> QED
  BY Zenon, <1>1, <1>2, <1>3 DEF ConnNext

(* g_conns is the number of open connections, however many loops accept,   *)
(* close, reap and end at the same time.                                   *)
THEOREM CountAlwaysExact == ConnSpec => []ConnsCounted
<1>1. IInv => ConnsCounted
  BY Zenon DEF IInv
<1> QED
  BY <1>1, InitIInv, NextIInv, PTL DEF ConnSpec

(* max_connections is overshot by less than the number of loops: what the  *)
(* test before the count in loop_accept amounts to.                        *)
THEOREM CapOvershoot == ConnSpec => []CapNearlyHolds
<1>1. IInv => CapNearlyHolds
  BY Finite, ConnectionsAssumption DEF IInv, CountTypes, CapWithAdds, CapNearlyHolds
<1> QED
  BY <1>1, InitIInv, NextIInv, PTL DEF ConnSpec

-----------------------------------------------------------------------------
(* A nonempty set of naturals has a least element.                         *)
LEMMA LeastNatural ==
    ASSUME NEW S \in SUBSET Nat, S # {}
    PROVE  \E x \in S : \A y \in S : x <= y
<1> DEFINE R == OpToRel(<, Nat)
<1>1. IsWellFoundedOn(R, Nat)
  BY Zenon, NatLessThanWellFounded
<1>2. \A a, b \in Nat : a < b => <<a, b>> \in R
  BY Zenon DEF OpToRel
<1> HIDE DEF R
<1>3. PICK x \in S : \A y \in S : ~ (<<y, x>> \in R)
  BY Zenon, <1>1, WFMin
<1>4. \A y \in S : ~ (y < x)
  BY Zenon, <1>2, <1>3
<1> QED
  BY <1>4

(* Induction, for a set instead of a predicate.                            *)
LEMMA Induction ==
    ASSUME NEW S, 0 \in S, \A n \in Nat : n \in S => n + 1 \in S
    PROVE  Nat \subseteq S
<1> SUFFICES ASSUME Nat \ S # {} PROVE FALSE
  BY Zenon
<1>1. PICK m \in Nat \ S : \A y \in Nat \ S : m <= y
  BY Zenon, LeastNatural
<1>2. m - 1 \in Nat /\ ~ (m <= m - 1) /\ (m - 1) + 1 = m
  BY <1>1
<1> QED
  BY Zenon, <1>1, <1>2

(* f gives what the first n turns of conn_advance leave of k.              *)
Turns(k, n, f) == f = [i \in 0 .. n |-> IF i = 0 THEN k ELSE AdvanceOnce(f[i - 1])]

(* The turns of conn_advance exist, however many are asked for.            *)
LEMMA TurnsExist ==
    ASSUME NEW k PROVE \A n \in Nat : \E f : Turns(k, n, f)
<1> DEFINE S == {n \in Nat : \E f : Turns(k, n, f)}
<1>1. 0 \in S
  <2>1. Turns(k, 0, [i \in 0 .. 0 |-> k])
    BY DEF Turns
  <2> QED
    BY Zenon, <2>1
<1>2. ASSUME NEW n \in Nat, n \in S PROVE n + 1 \in S
  <2>1. PICK f : Turns(k, n, f)
    BY Zenon, <1>2
  <2> DEFINE g == [i \in 0 .. n + 1 |-> IF i <= n THEN f[i] ELSE AdvanceOnce(f[n])]
  <2>2. Turns(k, n + 1, g)
    BY <2>1 DEF Turns
  <2> QED
    BY <2>2
<1> HIDE DEF S
<1>3. Nat \subseteq S
  BY Zenon, <1>1, <1>2, Induction
<1> QED
  BY Zenon, <1>3 DEF S

(* conn_advance is what is left after as many turns as there are bytes.    *)
LEMMA AdvanceTurns ==
    ASSUME NEW k, Len(k.rbuf) \in Nat
    PROVE  \E f : Turns(k, Len(k.rbuf) + 1, f) /\ Advance(k) = f[Len(k.rbuf) + 1]
<1> DEFINE Turn[n \in 0 .. Len(k.rbuf) + 1] ==
            IF n = 0 THEN k ELSE LET before == Turn[n - 1] IN AdvanceOnce(before)
<1>1. Advance(k) = Turn[Len(k.rbuf) + 1]
  BY Zenon DEF Advance
<1>2. Turn = CHOOSE f : Turns(k, Len(k.rbuf) + 1, f)
  BY Zenon DEF Turns
<1> HIDE DEF Turn
<1>3. \E f : Turns(k, Len(k.rbuf) + 1, f)
  <2>1. Len(k.rbuf) + 1 \in Nat
    OBVIOUS
  <2> QED
    BY Zenon, <2>1, TurnsExist
<1>4. Turns(k, Len(k.rbuf) + 1, Turn)
  BY Zenon, <1>2, <1>3
<1> QED
  BY Zenon, <1>1, <1>4

(* A byte of a request line, the connections a loop may hold, and the      *)
(* numbers of the first n requests.                                        *)
Bytes == {"a", "nl"}

Conns == [rbuf : Seq(Bytes), rem : Nat, cur : Nat, room : Nat, handled : Nat,
          wrote : Seq(Nat), closing : BOOLEAN, dead : BOOLEAN]

Numbers(n) == [i \in 1 .. n |-> i]

(* What is answered on a connection, and that the answer to a line that is *)
(* too long ends it.                                                       *)
InOrder(k) ==
    /\ Answers(k) = IF k.closing THEN Append(Numbers(k.handled), 0) ELSE Numbers(k.handled)
    /\ k.closing => k.rem > 0 \/ k.dead

(* No turn of conn_advance changes the connection.                         *)
Settled(k) ==
    k.rem > 0 \/ k.dead \/ (~HasLine(k.rbuf) /\ Len(k.rbuf) <= Limit)

(* The next request's number follows the earlier ones.                     *)
LEMMA NumbersGrow ==
    ASSUME NEW n \in Nat PROVE /\ Append(Numbers(n), n + 1) = Numbers(n + 1)
                               /\ Numbers(n) \in Seq(Nat)
<1>1. Numbers(n) \in Seq(Nat) /\ Len(Numbers(n)) = n /\ \A i \in 1 .. n : Numbers(n)[i] = i
  BY DEF Numbers
<1>2. Numbers(n + 1) \in Seq(Nat) /\ Len(Numbers(n + 1)) = n + 1
      /\ \A i \in 1 .. n + 1 : Numbers(n + 1)[i] = i
  BY DEF Numbers
<1> QED
  BY <1>1, <1>2

(* A connection after a write of some of its response.                     *)
LEMMA WroteConn ==
    ASSUME NEW k \in Conns, NEW a \in Nat, NEW b \in Nat, NEW c \in Seq(Nat), NEW d \in BOOLEAN
    PROVE  [k EXCEPT !.rem = a, !.room = b, !.wrote = c, !.dead = d] \in Conns
BY Zenon DEF Conns

(* conn_flush writes what is staged, in whole or in part.                  *)
LEMMA FlushConn ==
    ASSUME NEW k \in Conns, k.rem > 0
    PROVE  /\ Flush(k) \in Conns
           /\ Answers(Flush(k)) = Answers(k)
           /\ Flush(k).rbuf = k.rbuf /\ Flush(k).handled = k.handled
           /\ Flush(k).closing = k.closing
           /\ k.closing => Flush(k).rem > 0 \/ Flush(k).dead
<1> DEFINE w == Lesser(k.rem, k.room)
           out == w = k.rem
           f == Flush(k)
<1>1. k.rem \in Nat /\ k.room \in Nat /\ w \in Nat /\ w <= k.rem /\ w <= k.room
  BY DEF Conns, Lesser
<1>2. /\ f.rem = k.rem - w /\ f.wrote = (IF out THEN Append(k.wrote, k.cur) ELSE k.wrote)
      /\ f.rbuf = k.rbuf /\ f.handled = k.handled /\ f.closing = k.closing /\ f.cur = k.cur
      /\ f.dead = (out /\ k.closing)
  BY Zenon DEF Flush, Conns
<1>3. f \in Conns
  <2>1. k.rem - w \in Nat /\ k.room - w \in Nat
    BY <1>1
  <2>2. (IF out THEN Append(k.wrote, k.cur) ELSE k.wrote) \in Seq(Nat)
    BY DEF Conns
  <2>3. (out /\ k.closing) \in BOOLEAN
    BY Zenon
  <2> QED
    BY ZenonT(30), <2>1, <2>2, <2>3, WroteConn DEF Flush
<1>4. Answers(f) = Answers(k)
  BY <1>1, <1>2 DEF Answers
<1>5. k.closing => f.rem > 0 \/ f.dead
  <2>1. ~out => f.rem > 0
    BY <1>1, <1>2
  <2> QED
    BY Zenon, <1>2, <2>1
<1> QED
  BY Zenon, <1>2, <1>3, <1>4, <1>5

(* The first line of a buffer ends at its first newline.                   *)
LEMMA FirstLine ==
    ASSUME NEW b \in Seq(Bytes), HasLine(b)
    PROVE  LineEnd(b) \in 1 .. Len(b)
<1> DEFINE S == {i \in 1 .. Len(b) : b[i] = "nl"}
<1>1. S \in SUBSET Nat /\ S # {}
  BY DEF HasLine
<1>2. PICK e \in S : \A y \in S : e <= y
  BY Zenon, <1>1, LeastNatural
<1>3. e \in DOMAIN b /\ b[e] = "nl" /\ \A j \in 1 .. e - 1 : b[j] # "nl"
  BY <1>2
<1>4. LineEnd(b) \in DOMAIN b
  BY Zenon, <1>3 DEF LineEnd
<1> QED
  BY <1>4

(* A response is staged on a connection that has none and is not closing.  *)
LEMMA StageConn ==
    ASSUME NEW k \in Conns, NEW id \in Nat, NEW last \in BOOLEAN, k.rem = 0, ~k.dead
    PROVE  /\ Stage(k, id, last) \in Conns
           /\ Answers(Stage(k, id, last)) = Append(k.wrote, id)
           /\ Stage(k, id, last).rbuf = k.rbuf /\ Stage(k, id, last).handled = k.handled
           /\ Stage(k, id, last).closing <=> last
           /\ last => Stage(k, id, last).rem > 0 \/ Stage(k, id, last).dead
<1> DEFINE s == [k EXCEPT !.rem = RespLen, !.cur = id, !.closing = last]
<1>1. RespLen \in Nat /\ RespLen > 0
  BY ConnectionsAssumption
<1>2. s \in Conns
  BY Zenon, <1>1 DEF Conns
<1>3. /\ s.rem = RespLen /\ s.cur = id /\ s.closing = last /\ s.wrote = k.wrote
      /\ s.rbuf = k.rbuf /\ s.handled = k.handled
  BY Zenon DEF Conns
<1>4. Answers(s) = Append(k.wrote, id)
  BY Zenon, <1>1, <1>3 DEF Answers
<1>5. Stage(k, id, last) = Flush(s)
  BY Zenon DEF Stage
<1> HIDE DEF s
<1>6. s.rem > 0
  BY Zenon, <1>1, <1>3
<1> QED
  BY Zenon, <1>2, <1>3, <1>4, <1>5, <1>6, FlushConn

(* One turn of conn_advance keeps the order of the answers, and takes a    *)
(* line out of the buffer unless it leaves the connection settled.         *)
LEMMA AdvanceOnceConn ==
    ASSUME NEW k \in Conns, InOrder(k)
    PROVE  /\ AdvanceOnce(k) \in Conns /\ InOrder(AdvanceOnce(k))
           /\ Settled(k) => AdvanceOnce(k) = k
           /\ Settled(AdvanceOnce(k)) \/ Len(AdvanceOnce(k).rbuf) < Len(k.rbuf)
           /\ Len(AdvanceOnce(k).rbuf) <= Len(k.rbuf)
<1>0. /\ k.rbuf \in Seq(Bytes) /\ Len(k.rbuf) \in Nat /\ k.handled \in Nat /\ k.rem \in Nat
      /\ k.wrote \in Seq(Nat)
  BY DEF Conns
<1>1. CASE k.rem > 0 \/ k.dead
  <2>1. AdvanceOnce(k) = k /\ Settled(k)
    BY Zenon, <1>1 DEF AdvanceOnce, Settled
  <2> QED
    BY <1>0, <2>1
<1>2. CASE ~(k.rem > 0 \/ k.dead) /\ ~HasLine(k.rbuf) /\ Len(k.rbuf) <= Limit
  <2>1. ~(Len(k.rbuf) > Limit)
    BY <1>0, <1>2, ConnectionsAssumption
  <2>2. AdvanceOnce(k) = k /\ Settled(k)
    BY Zenon, <1>2, <2>1 DEF AdvanceOnce, Settled
  <2> QED
    BY <1>0, <2>2
<1>a. ASSUME ~(k.rem > 0 \/ k.dead)
      PROVE  k.rem = 0 /\ ~k.dead /\ k.closing = FALSE /\ k.wrote = Numbers(k.handled)
  <2>1. k.rem = 0 /\ ~k.dead /\ ~k.closing
    BY <1>0, <1>a DEF InOrder
  <2>2. k.closing = FALSE
    BY Zenon, <2>1 DEF Conns
  <2> QED
    BY Zenon, <1>0, <1>a, <2>1, <2>2 DEF InOrder, Answers
<1>3. CASE ~(k.rem > 0 \/ k.dead) /\ ~HasLine(k.rbuf) /\ ~(Len(k.rbuf) <= Limit)
  <2> DEFINE s == Stage(k, 0, TRUE)
  <2>1. AdvanceOnce(k) = s
    <3>1. Len(k.rbuf) > Limit
      BY <1>0, <1>3, ConnectionsAssumption
    <3> QED
      BY Zenon, <1>3, <3>1 DEF AdvanceOnce
  <2>2. /\ s \in Conns /\ Answers(s) = Append(k.wrote, 0) /\ s.rbuf = k.rbuf
        /\ s.handled = k.handled /\ s.closing /\ (s.rem > 0 \/ s.dead)
    <3>1. 0 \in Nat /\ TRUE \in BOOLEAN
      BY Zenon
    <3> QED
      BY Zenon, <1>3, <1>a, <3>1, StageConn
  <2> HIDE DEF s
  <2>3. InOrder(s) /\ Settled(s)
    BY Zenon, <1>3, <1>a, <2>2 DEF InOrder, Settled
  <2>4. ~Settled(k)
    BY Zenon, <1>3 DEF Settled
  <2> QED
    BY SMTT(30), <1>0, <2>1, <2>2, <2>3, <2>4
<1>4. CASE ~(k.rem > 0 \/ k.dead) /\ HasLine(k.rbuf)
  <2> DEFINE e == LineEnd(k.rbuf)
             r == [k EXCEPT !.rbuf = SubSeq(k.rbuf, e + 1, Len(k.rbuf))]
             t == [r EXCEPT !.handled = r.handled + 1]
             s == Stage(t, k.handled + 1, FALSE)
  <2>1. e \in 1 .. Len(k.rbuf)
    BY Zenon, <1>0, <1>4, FirstLine
  <2>2. AdvanceOnce(k) = IF e = 1 THEN r ELSE s
    BY Zenon, <1>4 DEF AdvanceOnce
  <2>3. /\ SubSeq(k.rbuf, e + 1, Len(k.rbuf)) \in Seq(Bytes)
        /\ Len(SubSeq(k.rbuf, e + 1, Len(k.rbuf))) < Len(k.rbuf)
    <3> HIDE DEF e
    <3> QED
      BY SMTT(30), <1>0, <2>1
  <2> HIDE DEF e
  <2>4. /\ r \in Conns /\ Len(r.rbuf) < Len(k.rbuf)
        /\ r.rem = k.rem /\ r.handled = k.handled /\ r.closing = k.closing
        /\ r.dead = k.dead /\ r.wrote = k.wrote /\ r.cur = k.cur
    BY Zenon, <2>3 DEF Conns
  <2> HIDE DEF r
  <2>5. /\ t \in Conns /\ t.rbuf = r.rbuf /\ t.handled = k.handled + 1
        /\ t.rem = 0 /\ ~t.dead /\ t.wrote = k.wrote
    <3>1. k.rem = 0 /\ ~k.dead
      BY Zenon, <1>4, <1>a
    <3>2. k.handled + 1 \in Nat /\ r.handled + 1 = k.handled + 1
      BY <1>0, <2>4
    <3>3. t \in Conns
      BY Zenon, <2>4, <3>2 DEF Conns
    <3>4. /\ t.rbuf = r.rbuf /\ t.handled = r.handled + 1 /\ t.rem = r.rem
          /\ t.wrote = r.wrote /\ t.dead = r.dead
      BY Zenon, <2>4 DEF Conns
    <3> QED
      BY Zenon, <2>4, <3>1, <3>2, <3>3, <3>4
  <2> HIDE DEF t
  <2>6. /\ s \in Conns /\ Answers(s) = Append(k.wrote, k.handled + 1) /\ s.rbuf = r.rbuf
        /\ s.handled = k.handled + 1 /\ ~s.closing
    <3>1. k.handled + 1 \in Nat /\ FALSE \in BOOLEAN
      BY <1>0
    <3> QED
      <4>1. PICK h \in Nat : h = k.handled + 1
        BY Zenon, <3>1
      <4>2. ~FALSE /\ t \in Conns /\ t.rem = 0 /\ ~t.dead
        BY Zenon, <2>5
      <4>3. /\ Stage(t, h, FALSE) \in Conns
            /\ Answers(Stage(t, h, FALSE)) = Append(t.wrote, h)
            /\ Stage(t, h, FALSE).rbuf = t.rbuf /\ Stage(t, h, FALSE).handled = t.handled
            /\ ~Stage(t, h, FALSE).closing
        BY Zenon, <3>1, <4>2, StageConn
      <4> QED
        BY Zenon, <2>5, <4>1, <4>3
  <2> HIDE DEF s
  <2>7. InOrder(s)
    <3>1. Append(Numbers(k.handled), k.handled + 1) = Numbers(k.handled + 1)
      BY Zenon, <1>0, NumbersGrow
    <3> QED
      BY Zenon, <1>4, <1>a, <2>6, <3>1 DEF InOrder
  <2>8. InOrder(r)
    BY Zenon, <1>4, <1>a, <2>4 DEF InOrder, Answers
  <2>9. ~Settled(k)
    BY Zenon, <1>4 DEF Settled
  <2>10. Len(r.rbuf) <= Len(k.rbuf)
    BY <1>0, <2>4 DEF Conns
  <2> QED
    BY Zenon, <2>2, <2>4, <2>6, <2>7, <2>8, <2>9, <2>10
<1> QED
  BY Zenon, <1>1, <1>2, <1>3, <1>4

(* After n turns there is nothing left to do, or n lines fewer.            *)
Kept(k, n, a) ==
    a \in Conns /\ InOrder(a) /\ (Settled(a) \/ Len(a.rbuf) + n <= Len(k.rbuf))

(* conn_advance keeps the order of the answers and leaves nothing it could *)
(* do: every turn but the last takes a line out of the buffer, so there    *)
(* are as many as the model allows.                                        *)
LEMMA AdvanceConn ==
    ASSUME NEW k \in Conns, InOrder(k)
    PROVE  Advance(k) \in Conns /\ InOrder(Advance(k)) /\ Settled(Advance(k))
<1> DEFINE N == Len(k.rbuf) + 1
<1>1. Len(k.rbuf) \in Nat /\ N \in Nat /\ N > Len(k.rbuf) /\ 0 <= N
  BY DEF Conns
<1>2. PICK f : Turns(k, N, f) /\ Advance(k) = f[N]
  BY Zenon, <1>1, AdvanceTurns
<1> HIDE DEF N
<1>3. f[0] = k /\ \A n \in Nat : n + 1 <= N => f[n + 1] = AdvanceOnce(f[n])
  BY <1>1, <1>2 DEF Turns
<1> DEFINE S == {n \in Nat : n <= N => Kept(k, n, f[n])}
<1>4. 0 \in S
  <2>1. Kept(k, 0, k)
    BY <1>1 DEF Kept
  <2> QED
    BY Zenon, <1>1, <1>3, <2>1
<1>5. ASSUME NEW n \in Nat, n \in S PROVE n + 1 \in S
  <2>1. ASSUME n + 1 <= N PROVE Kept(k, n + 1, f[n + 1])
    <3>1. Kept(k, n, f[n]) /\ f[n + 1] = AdvanceOnce(f[n])
      BY <1>1, <1>3, <1>5, <2>1
    <3>2. PICK a, b : a = f[n] /\ b = f[n + 1]
      BY Zenon
    <3>3. Kept(k, n, a) /\ b = AdvanceOnce(a)
      BY Zenon, <3>1, <3>2
    <3>4. /\ b \in Conns /\ InOrder(b) /\ (Settled(a) => b = a)
          /\ Settled(b) \/ Len(b.rbuf) < Len(a.rbuf)
      BY Zenon, <3>3, AdvanceOnceConn DEF Kept
    <3>5. Len(a.rbuf) \in Nat /\ Len(b.rbuf) \in Nat
      <4>1. a.rbuf \in Seq(Bytes) /\ b.rbuf \in Seq(Bytes)
        BY Zenon, <3>3, <3>4 DEF Kept, Conns
      <4> QED
        BY <4>1
    <3>6. Settled(b) \/ Len(b.rbuf) + (n + 1) <= Len(k.rbuf)
      <4>1. CASE Settled(a)
        BY Zenon, <3>4, <4>1
      <4>2. CASE Len(a.rbuf) + n <= Len(k.rbuf) /\ Len(b.rbuf) < Len(a.rbuf)
        <5>1. \A x, y, z \in Nat : x + n <= z /\ y < x => y + (n + 1) <= z
          OBVIOUS
        <5> QED
          BY Zenon, <1>1, <3>5, <4>2, <5>1
      <4> QED
        BY Zenon, <3>3, <3>4, <4>1, <4>2 DEF Kept
    <3> QED
      BY Zenon, <3>2, <3>4, <3>6 DEF Kept
  <2> QED
    BY <2>1
<1> HIDE DEF S
<1>6. Nat \subseteq S
  BY Zenon, <1>4, <1>5, Induction
<1>7. Kept(k, N, f[N])
  BY <1>1, <1>6 DEF S
<1>8. PICK a : a = f[N]
  BY Zenon
<1>9. Kept(k, N, a)
  BY Zenon, <1>7, <1>8
<1>10. ~(Len(a.rbuf) + N <= Len(k.rbuf))
  <2>1. a.rbuf \in Seq(Bytes)
    BY Zenon, <1>9 DEF Kept, Conns
  <2> QED
    BY <1>1, <2>1
<1> QED
  BY Zenon, <1>2, <1>8, <1>9, <1>10 DEF Kept

-----------------------------------------------------------------------------
(* What travels on a connection.                                           *)
Wire ==
    /\ stream \in [Clients -> Seq(Bytes)] /\ sock \in [Clients -> Seq(Bytes)]
    /\ sent \in [Clients -> Nat] /\ conn \in [Clients -> Conns]

(* Between two events a connection is settled, its answers are in order,   *)
(* and the answer that ends it has closed it.                              *)
Answering ==
    /\ Wire
    /\ \A c \in Clients : /\ InOrder(conn[c]) /\ Settled(conn[c])
                          /\ conn[c].dead => st[c] = "toolong"

(* A new connection has answered nothing and has nothing to do.            *)
LEMMA InitAnswering == ConnInit => Answering
<1> SUFFICES ASSUME ConnInit PROVE Answering
  BY Zenon
<1>1. PICK p \in Plans : stream = p.stream
  BY Zenon DEF ConnInit
<1>2. stream \in [Clients -> Seq(Bytes)]
  BY Zenon, <1>1, ConnectionsAssumption DEF Bytes
<1>3. NewConn \in Conns
  BY ConnectionsAssumption DEF NewConn, Conns
<1>4. InOrder(NewConn) /\ Settled(NewConn) /\ ~NewConn.dead
  <2>1. /\ NewConn.rem = 0 /\ NewConn.wrote = <<>> /\ NewConn.handled = 0
        /\ ~NewConn.closing /\ ~NewConn.dead /\ NewConn.rbuf = <<>>
    BY Zenon DEF NewConn
  <2>2. Answers(NewConn) = <<>> /\ Numbers(0) = <<>>
    BY <2>1 DEF Answers, Numbers
  <2>3. ~HasLine(<<>>) /\ Len(<<>>) <= Limit
    BY ConnectionsAssumption DEF HasLine
  <2> QED
    BY Zenon, <2>1, <2>2, <2>3 DEF InOrder, Settled
<1>5. Wire
  BY <1>2, <1>3 DEF ConnInit, Wire
<1>6. \A c \in Clients : conn[c] = NewConn
  BY Zenon DEF ConnInit
<1> QED
  BY Zenon, <1>4, <1>5, <1>6 DEF Answering

(* A step that leaves the bytes alone, and no closed connection reopened.  *)
LEMMA QuietAnswering ==
    ASSUME Answering, UNCHANGED <<stream, sock, sent, conn>>,
           \A c \in Clients : st[c] = "toolong" => st'[c] = "toolong"
    PROVE  Answering'
<1>1. Wire'
  BY Zenon DEF Answering, Wire
<1>2. conn' = conn
  BY Zenon
<1> QED
  BY Zenon, <1>1, <1>2 DEF Answering, InOrder, Settled, Answers

(* A handled connection was open, and comes back settled with its answers  *)
(* in order.                                                               *)
LEMMA HandledAnswering ==
    ASSUME IInv, Answering, NEW l \in Loops, NEW c \in Clients, NEW k \in Conns,
           NEW why, NEW socket \in Seq(Bytes), Handled(l, c, k, why, socket),
           InOrder(k), Settled(k), k.dead => why = "toolong"
    PROVE  Answering'
<1>1. /\ conn' = [conn EXCEPT ![c] = k] /\ sock' = [sock EXCEPT ![c] = socket]
      /\ st' = [st EXCEPT ![c] = why] /\ UNCHANGED <<stream, sent>>
  BY Zenon DEF Handled
<1>2. Wire'
  BY Zenon, <1>1 DEF Answering, Wire
<1>3. conn'[c] = k /\ st'[c] = why /\ \A d \in Clients : d # c => conn'[d] = conn[d] /\ st'[d] = st[d]
  BY Zenon, <1>1 DEF Answering, Wire, IInv, CountTypes
<1>4. ASSUME NEW d \in Clients
      PROVE  InOrder(conn'[d]) /\ Settled(conn'[d]) /\ (conn'[d].dead => st'[d] = "toolong")
  BY Zenon, <1>3 DEF Answering
<1> QED
  BY Zenon, <1>2, <1>4 DEF Answering

(* What conn_read takes from the socket and leaves in it.                  *)
LEMMA ReadBytes ==
    ASSUME NEW s \in Seq(Bytes), NEW b \in Seq(Bytes), Len(b) <= Limit
    PROVE  LET n == Lesser(Len(s), Limit + 1 - Len(b))
           IN  /\ SubSeq(s, 1, n) \in Seq(Bytes) /\ SubSeq(s, n + 1, Len(s)) \in Seq(Bytes)
               /\ b \o SubSeq(s, 1, n) \in Seq(Bytes)
<1> DEFINE n == Lesser(Len(s), Limit + 1 - Len(b))
<1>1. n \in 0 .. Len(s) /\ Len(s) \in Nat
  BY ConnectionsAssumption DEF Lesser
<1> HIDE DEF n
<1>2. SubSeq(s, 1, n) \in Seq(Bytes) /\ SubSeq(s, n + 1, Len(s)) \in Seq(Bytes)
  BY <1>1
<1>3. b \o SubSeq(s, 1, n) \in Seq(Bytes)
  BY <1>2
<1> QED
  BY Zenon, <1>2, <1>3 DEF n

(* Every step of the server keeps the answers in order.                    *)
LEMMA AnsweringStep ==
    ASSUME IInv, Answering, [ConnNext]_cvars
    PROVE  Answering'
<1>0. st \in [Clients -> States] /\ Wire
  BY Zenon DEF IInv, CountTypes, Answering
<1>1. ASSUME NEW c \in Clients, Connect(c) \/ Shut(c) PROVE Answering'
  <2>1. UNCHANGED <<stream, sock, sent, conn>> /\ \A d \in Clients : st[d] = "toolong" => st'[d] = "toolong"
    BY Zenon, <1>0, <1>1 DEF Connect, Shut
  <2> QED
    BY Zenon, <2>1, QuietAnswering
<1>2. ASSUME NEW c \in Clients, Send(c) PROVE Answering'
  <2>1. stream[c][sent[c] + 1] \in Bytes
    <3>1. stream[c] \in Seq(Bytes) /\ sent[c] \in Nat /\ sent[c] < Len(stream[c])
      BY Zenon, <1>0, <1>2 DEF Wire, Send
    <3> QED
      BY <3>1
  <2>2. Wire'
    BY <1>0, <1>2, <2>1 DEF Wire, Send
  <2>3. conn' = conn /\ st' = st
    BY Zenon, <1>2 DEF Send
  <2> QED
    BY Zenon, <2>2, <2>3 DEF Answering, InOrder, Settled, Answers
<1>3. ASSUME NEW c \in Clients, TakeResponse(c) PROVE Answering'
  <2> DEFINE k == [conn[c] EXCEPT !.room = SndBuf]
  <2>1. conn[c] \in Conns
    BY Zenon, <1>0 DEF Wire
  <2>2. k \in Conns /\ k.rem = conn[c].rem /\ k.wrote = conn[c].wrote /\ k.cur = conn[c].cur
        /\ k.handled = conn[c].handled /\ k.rbuf = conn[c].rbuf
    BY Zenon, <2>1, ConnectionsAssumption DEF Conns
  <2>3. k.closing = conn[c].closing /\ k.dead = conn[c].dead
    BY Zenon, <2>1 DEF Conns
  <2>4. conn' = [conn EXCEPT ![c] = k] /\ UNCHANGED <<stream, sock, sent, st>>
    BY Zenon, <1>3 DEF TakeResponse
  <2> HIDE DEF k
  <2>5. Wire'
    BY Zenon, <1>0, <2>2, <2>4 DEF Wire
  <2>6. conn'[c] = k /\ st' = st /\ \A d \in Clients : d # c => conn'[d] = conn[d]
    BY Zenon, <1>0, <2>4 DEF Wire
  <2>7. InOrder(k) /\ Settled(k) /\ (k.dead => st[c] = "toolong")
    BY Zenon, <2>2, <2>3 DEF Answering, InOrder, Settled, Answers
  <2>8. ASSUME NEW d \in Clients
        PROVE  InOrder(conn'[d]) /\ Settled(conn'[d]) /\ (conn'[d].dead => st'[d] = "toolong")
    BY Zenon, <2>6, <2>7 DEF Answering
  <2> QED
    BY Zenon, <2>5, <2>8 DEF Answering
<1>4. ASSUME NEW l \in Loops,
             Poll(l) \/ AcceptDrained(l) \/ \E c \in Clients :
               AcceptOne(l, c) \/ CountConn(l, c) \/ AddConn(l, c) \/ AddFails(l, c)
      PROVE  Answering'
  <2>1. UNCHANGED <<stream, sock, sent, conn>> /\ \A d \in Clients : st[d] = "toolong" => st'[d] = "toolong"
    BY Zenon, <1>0, <1>4
       DEF Poll, AcceptDrained, AcceptOne, CountConn, AddConn, AddFails
  <2> QED
    BY Zenon, <2>1, QuietAnswering
<1>5. ASSUME NEW l \in Loops, Reap(l) \/ LoopEnds(l) PROVE Answering'
  <2>1. UNCHANGED <<stream, sock, sent, conn>> /\ \A d \in Clients : st[d] = "toolong" => st'[d] = "toolong"
    BY Zenon, <1>0, <1>5 DEF Reap, LoopEnds, OpenOn, Open
  <2> QED
    BY Zenon, <2>1, QuietAnswering
<1>6. ASSUME NEW l \in Loops, NEW c \in Clients, HandleInput(l, c) PROVE Answering'
  <2>0. conn[c].rem = 0 /\ st[c] = "open"
    BY Zenon, <1>6 DEF HandleInput, Handled, IInv, ReadyIsOpen
  <2>1. conn[c] \in Conns /\ sock[c] \in Seq(Bytes) /\ conn[c].rbuf \in Seq(Bytes)
    BY Zenon, <1>0 DEF Wire, Conns
  <2>2. Len(conn[c].rbuf) <= Limit
    <3>1. ~conn[c].dead /\ ~(conn[c].rem > 0) /\ Settled(conn[c])
      BY <2>0 DEF Answering
    <3> QED
      BY Zenon, <3>1 DEF Settled
  <2>3. /\ SubSeq(sock[c], 1, ReadLen(c)) \in Seq(Bytes) /\ Unread(c) \in Seq(Bytes)
        /\ conn[c].rbuf \o SubSeq(sock[c], 1, ReadLen(c)) \in Seq(Bytes)
    BY Zenon, <2>1, <2>2, ReadBytes DEF Unread, ReadLen
  <2> DEFINE b == conn[c].rbuf \o SubSeq(sock[c], 1, ReadLen(c))
             r == [conn[c] EXCEPT !.rbuf = b]
  <2>a. Read(c) = r
    BY Zenon DEF Read
  <2> HIDE DEF b
  <2>4. /\ r \in Conns /\ r.rem = conn[c].rem /\ r.wrote = conn[c].wrote /\ r.cur = conn[c].cur
        /\ r.handled = conn[c].handled
    BY Zenon, <2>1, <2>3 DEF Conns, b
  <2>5. r.closing = conn[c].closing /\ r.dead = conn[c].dead
    BY Zenon, <2>1 DEF Conns
  <2> HIDE DEF r
  <2>6. InOrder(r)
    BY Zenon, <2>4, <2>5 DEF Answering, InOrder, Answers
  <2>7. PICK k : k = Advance(r)
    BY Zenon
  <2>8. k \in Conns /\ InOrder(k) /\ Settled(k)
    BY Zenon, <2>4, <2>6, <2>7, AdvanceConn
  <2>9. PICK why : Handled(l, c, k, why, Unread(c)) /\ (k.dead => why = "toolong")
    BY Zenon, <1>6, <2>a, <2>7 DEF HandleInput
  <2> QED
    BY Zenon, <2>3, <2>8, <2>9, HandledAnswering
<1>7. ASSUME NEW l \in Loops, NEW c \in Clients, HandleOutput(l, c) PROVE Answering'
  <2>1. conn[c] \in Conns /\ sock[c] \in Seq(Bytes) /\ conn[c].rem > 0
    BY Zenon, <1>0, <1>7 DEF Wire, HandleOutput
  <2>2. PICK f : f = Flush(conn[c])
    BY Zenon
  <2>3. f \in Conns /\ InOrder(f)
    BY ZenonT(30), <2>1, <2>2, FlushConn DEF Answering, InOrder
  <2>4. PICK k : k = Advance(f)
    BY Zenon
  <2>5. k \in Conns /\ InOrder(k) /\ Settled(k)
    BY Zenon, <2>3, <2>4, AdvanceConn
  <2>6. PICK why : Handled(l, c, k, why, sock[c]) /\ (k.dead => why = "toolong")
    BY Zenon, <1>7, <2>2, <2>4 DEF HandleOutput
  <2> QED
    BY Zenon, <2>1, <2>5, <2>6, HandledAnswering
<1>8. ASSUME NEW l \in Loops, NEW c \in Clients, HandleError(l, c) PROVE Answering'
  <2>1. st[c] = "open"
    BY Zenon, <1>8 DEF HandleError, Handled, IInv, ReadyIsOpen
  <2>2. ~conn[c].dead /\ conn[c] \in Conns /\ InOrder(conn[c]) /\ Settled(conn[c])
    BY Zenon, <1>0, <2>1 DEF Answering, Wire
  <2>3. Handled(l, c, conn[c], "error", <<>>) /\ <<>> \in Seq(Bytes)
    BY <1>8 DEF HandleError
  <2> QED
    BY Zenon, <2>2, <2>3, HandledAnswering
<1>9. CASE RequestStop \/ UNCHANGED cvars
  <2>1. UNCHANGED <<stream, sock, sent, conn>> /\ \A d \in Clients : st[d] = "toolong" => st'[d] = "toolong"
    BY Zenon, <1>9 DEF RequestStop, cvars
  <2> QED
    BY Zenon, <2>1, QuietAnswering
<1> QED
  BY Zenon, <1>1, <1>2, <1>3, <1>4, <1>5, <1>6, <1>7, <1>8, <1>9
     DEF ConnNext, Client, LoopStep

(* Pipelined requests are answered in their order, each once, and nothing  *)
(* after a line that is too long, however the bytes arrive in pieces and   *)
(* however the responses have to wait.                                     *)
THEOREM RepliesInOrder == ConnSpec => []AnswersInOrder
<1>1. Answering => AnswersInOrder
  BY Zenon DEF Answering, InOrder, AnswersInOrder, Numbers
<1>2. IInv /\ Answering /\ [ConnNext]_cvars => Answering'
  BY Zenon, AnsweringStep
<1> QED
  BY <1>1, <1>2, InitIInv, NextIInv, InitAnswering, PTL DEF ConnSpec

(* No complete request waits in a buffer while its loop polls for more     *)
(* bytes of the peer: conn_advance takes every line there is.              *)
THEOREM RequestsNeverStranded == ConnSpec => []NoRequestStranded
<1>1. Answering => NoRequestStranded
  <2> SUFFICES ASSUME Answering, NEW c \in Open, conn[c].rem = 0
               PROVE  ~HasLine(conn[c].rbuf) /\ Len(conn[c].rbuf) <= Limit
    BY Zenon DEF NoRequestStranded
  <2>1. c \in Clients /\ st[c] = "open" /\ ~(conn[c].rem > 0)
    BY DEF Open
  <2>2. ~conn[c].dead /\ Settled(conn[c])
    BY Zenon, <2>1 DEF Answering
  <2> QED
    BY Zenon, <2>1, <2>2 DEF Settled
<1>2. IInv /\ Answering /\ [ConnNext]_cvars => Answering'
  BY Zenon, AnsweringStep
<1> QED
  BY <1>1, <1>2, InitIInv, NextIInv, InitAnswering, PTL DEF ConnSpec

-----------------------------------------------------------------------------
(* The replication source.                                                 *)

(* Threads that hold a slot of a replica.                                  *)
SlotPcs == ReplicaPcs \ {"overflow"}

(* The acceptor has at most one connection in hand, and the room it found  *)
(* for it is still there when it counts it.                                *)
OneInHand ==
    /\ \A p \in Peers : thread[p] \in InHand => acc = "busy"
    /\ \A p, q \in Peers : thread[p] \in InHand /\ thread[q] \in InHand => p = q
    /\ \A p \in Peers : thread[p] = "tracked" => pending < MaxPending

(* Past the join no connection can come; a zero that was read still stands *)
(* unless a slot has been claimed since.                                   *)
StopState ==
    /\ stopper \in {"wait", "reread", "freed", "closed"} => acc = "ended"
    /\ seen >= 0
    /\ stopper = "reread" /\ seen = 0 /\ ~slipped => At(ReplicaPcs) = {}

(* The inductive invariant: FreedAfterStreams needs that the counters are  *)
(* exact, and that what was read of the first is true at the second read.  *)
SourceInv ==
    /\ SourceTypeOK /\ CountersCountThreads /\ RegistryExact /\ StreamsBounded
    /\ OneInHand /\ StopState /\ FreedAfterStreams

-----------------------------------------------------------------------------
(* Every set of threads is finite.                                         *)
LEMMA AtFinite ==
    ASSUME NEW S
    PROVE  IsFiniteSet(At(S)) /\ Cardinality(At(S)) \in Nat
<1>1. At(S) \in SUBSET Peers
  BY Zenon DEF At
<1>2. IsFiniteSet(At(S))
  BY Zenon, <1>1, FS_Subset, ReplicaSourceAssumption
<1> QED
  BY Zenon, <1>2, FS_CardinalityType

(* A thread that goes from one point to another leaves the sets it was in  *)
(* and enters those it is in: what every action does to a count.           *)
LEMMA CountMoves ==
    ASSUME NEW S, NEW p \in Peers, NEW from, NEW to, SourceTypeOK, Goes(p, from, to)
    PROVE  /\ At(S)' = IF to \in S THEN At(S) \cup {p} ELSE At(S) \ {p}
           /\ from \in S <=> p \in At(S)
           /\ Cardinality(At(S)') = Cardinality(At(S))
                + (IF to \in S THEN 1 ELSE 0) - (IF from \in S THEN 1 ELSE 0)
           /\ Cardinality(At(S)) \in Nat
           /\ Cardinality(At(S)') \in Nat
<1>1. thread[p] = from /\ thread' = [thread EXCEPT ![p] = to] /\ DOMAIN thread = Peers
  BY Zenon DEF Goes, SourceTypeOK
<1>2. At(S)' = IF to \in S THEN At(S) \cup {p} ELSE At(S) \ {p}
  BY Zenon, <1>1 DEF At
<1>3. from \in S <=> p \in At(S)
  BY Zenon, <1>1 DEF At
<1>4. IsFiniteSet(At(S)) /\ Cardinality(At(S)) \in Nat
  BY Zenon, AtFinite
<1>5. CASE to \in S
  <2>1. Cardinality(At(S)') = IF p \in At(S) THEN Cardinality(At(S)) ELSE Cardinality(At(S)) + 1
    BY Zenon, <1>2, <1>4, <1>5, FS_AddElement
  <2> QED
    BY <2>1, <1>2, <1>3, <1>4, <1>5
<1>6. CASE to \notin S
  <2>1. /\ Cardinality(At(S)') = IF p \in At(S) THEN Cardinality(At(S)) - 1 ELSE Cardinality(At(S))
        /\ IsFiniteSet(At(S)')
    BY <1>2, <1>4, <1>6, FS_RemoveElement
  <2>2. Cardinality(At(S)') \in Nat
    BY Zenon, <2>1, FS_CardinalityType
  <2> QED
    BY <2>1, <2>2, <1>2, <1>3, <1>4, <1>6
<1> QED
  BY Zenon, <1>5, <1>6

(* The points a step of a thread can lead to.                              *)
Pcs == {"none", "gone"} \cup InHand \cup LivePcs

(* What a step of one connection thread does to the map of threads.        *)
LEMMA GoesTyped ==
    ASSUME NEW p \in Peers, NEW from, NEW to, SourceTypeOK, Goes(p, from, to), to \in Pcs
    PROVE  /\ thread' \in [Peers -> Pcs]
           /\ thread[p] = from /\ thread'[p] = to
           /\ \A q \in Peers : q # p => thread'[q] = thread[q]
BY Zenon DEF SourceTypeOK, Goes, Pcs

(* A count that is zero counts nothing, and a part is no larger than the   *)
(* whole.                                                                  *)
LEMMA CountZero ==
    ASSUME NEW S, Cardinality(At(S)) = 0
    PROVE  At(S) = {}
BY Zenon, AtFinite, FS_EmptySet

(* The threads that hold a slot are among those that are counted as        *)
(* replicas.                                                               *)
LEMMA SlotsWithinReplicas == Cardinality(At(SlotPcs)) <= Cardinality(At(ReplicaPcs))
<1>1. At(SlotPcs) \in SUBSET At(ReplicaPcs)
  BY Zenon DEF At, SlotPcs
<1> QED
  BY Zenon, <1>1, AtFinite, FS_Subset

(* A source just started, with no connection, has the inductive invariant. *)
LEMMA InitSource == SourceInit => SourceInv
<1> SUFFICES ASSUME SourceInit PROVE SourceInv
  BY Zenon
<1>1. At(PendingPcs) = {} /\ At(ReplicaPcs) = {} /\ At(SlotPcs) = {} /\ At(TrackedPcs) = {}
  BY Zenon DEF SourceInit, At, PendingPcs, ReplicaPcs, SlotPcs, TrackedPcs, LivePcs
<1>2. Cardinality({}) = 0
  BY Zenon, FS_EmptySet
<1>3. SourceTypeOK
  <2>1. thread \in [Peers -> {"none", "gone"} \cup InHand \cup LivePcs]
    BY Zenon DEF SourceInit
  <2>2. stop \in BOOLEAN /\ slipped \in BOOLEAN
    BY Zenon DEF SourceInit
  <2> QED
    BY <2>1, <2>2 DEF SourceInit, SourceTypeOK
<1>4. CountersCountThreads /\ RegistryExact
  BY Zenon, <1>1, <1>2 DEF SourceInit, CountersCountThreads, RegistryExact
<1>5. StreamsBounded
  BY SMTT(30), <1>1, <1>2, ReplicaSourceAssumption DEF StreamsBounded, SlotPcs
<1>6. OneInHand /\ FreedAfterStreams
  BY Zenon DEF SourceInit, OneInHand, FreedAfterStreams, InHand, Freed
<1>7. StopState
  BY DEF SourceInit, StopState
<1> QED
  BY Zenon, <1>3, <1>4, <1>5, <1>6, <1>7 DEF SourceInv

-----------------------------------------------------------------------------
(* The four sets at once.                                                  *)
In(pc, S) == IF pc \in S THEN 1 ELSE 0

(* What a step from one point to another adds to and takes from each       *)
(* counter and the registry: CountMoves, for the sets the actions use.     *)
LEMMA Moves ==
    ASSUME NEW p \in Peers, NEW from, NEW to, SourceTypeOK, Goes(p, from, to)
    PROVE  /\ Cardinality(At(PendingPcs)') = Cardinality(At(PendingPcs)) + In(to, PendingPcs) - In(from, PendingPcs)
           /\ Cardinality(At(ReplicaPcs)') = Cardinality(At(ReplicaPcs)) + In(to, ReplicaPcs) - In(from, ReplicaPcs)
           /\ Cardinality(At(SlotPcs)') = Cardinality(At(SlotPcs)) + In(to, SlotPcs) - In(from, SlotPcs)
           /\ At(TrackedPcs)' = IF to \in TrackedPcs THEN At(TrackedPcs) \cup {p} ELSE At(TrackedPcs) \ {p}
           /\ to \notin ReplicaPcs => At(ReplicaPcs)' \subseteq At(ReplicaPcs)
           /\ \A S \in {PendingPcs, ReplicaPcs, SlotPcs} : Cardinality(At(S)) \in Nat
<1>1. ASSUME NEW S
      PROVE  /\ Cardinality(At(S)') = Cardinality(At(S)) + In(to, S) - In(from, S)
             /\ At(S)' = IF to \in S THEN At(S) \cup {p} ELSE At(S) \ {p}
             /\ Cardinality(At(S)) \in Nat
  BY Zenon, CountMoves DEF In
<1>2. Cardinality(At(PendingPcs)') = Cardinality(At(PendingPcs)) + In(to, PendingPcs) - In(from, PendingPcs)
  BY Zenon, <1>1
<1>3. Cardinality(At(ReplicaPcs)') = Cardinality(At(ReplicaPcs)) + In(to, ReplicaPcs) - In(from, ReplicaPcs)
  BY Zenon, <1>1
<1>4. Cardinality(At(SlotPcs)') = Cardinality(At(SlotPcs)) + In(to, SlotPcs) - In(from, SlotPcs)
  BY Zenon, <1>1
<1>5. At(TrackedPcs)' = IF to \in TrackedPcs THEN At(TrackedPcs) \cup {p} ELSE At(TrackedPcs) \ {p}
  BY Zenon, <1>1
<1>6. At(ReplicaPcs)' = IF to \in ReplicaPcs THEN At(ReplicaPcs) \cup {p} ELSE At(ReplicaPcs) \ {p}
  BY Zenon, <1>1
<1>7. \A S \in {PendingPcs, ReplicaPcs, SlotPcs} : Cardinality(At(S)) \in Nat
  BY Zenon, AtFinite
<1> QED
  BY Zenon, <1>2, <1>3, <1>4, <1>5, <1>6, <1>7

(* A step that moves one thread and changes the counters and the registry  *)
(* by what the move says keeps them exact, and keeps the caps when it      *)
(* enters a counter only from the point where the cap was tested.          *)
LEMMA MoveKeeps ==
    ASSUME SourceInv, NEW p \in Peers, NEW from, NEW to \in Pcs, Goes(p, from, to),
           pending' = pending + In(to, PendingPcs) - In(from, PendingPcs),
           replicas' = replicas + In(to, ReplicaPcs) - In(from, ReplicaPcs),
           conns' = IF to \in TrackedPcs THEN conns \cup {p} ELSE conns \ {p},
           UNCHANGED <<stop, stopper, seen>>,
           acc' \in {"free", "busy", "ended"}, slipped' \in BOOLEAN,
           In(to, PendingPcs) > In(from, PendingPcs) => from = "tracked",
           In(to, SlotPcs) > In(from, SlotPcs) => SlotFree
    PROVE  SourceTypeOK' /\ CountersCountThreads' /\ RegistryExact' /\ StreamsBounded'
<1>1. SourceTypeOK
  BY Zenon DEF SourceInv
<1>2. thread' \in [Peers -> Pcs] /\ thread[p] = from
  BY Zenon, <1>1, GoesTyped
<1>3. /\ In(to, PendingPcs) \in 0 .. 1 /\ In(from, PendingPcs) \in 0 .. 1
      /\ In(to, ReplicaPcs) \in 0 .. 1 /\ In(from, ReplicaPcs) \in 0 .. 1
      /\ In(to, SlotPcs) \in 0 .. 1 /\ In(from, SlotPcs) \in 0 .. 1
  BY DEF In
<1>4. SourceTypeOK'
  <2>1. stop' \in BOOLEAN /\ slipped' \in BOOLEAN /\ conns' \subseteq Peers
    BY Zenon, <1>1 DEF SourceTypeOK
  <2>2. pending' \in Int /\ replicas' \in Int
    BY SMTT(30), <1>1, <1>3 DEF SourceTypeOK
  <2> QED
    BY Zenon, <1>1, <1>2, <2>1, <2>2 DEF SourceTypeOK, Pcs
<1>5. CountersCountThreads'
  BY Zenon, <1>1, Moves DEF SourceInv, SourceTypeOK, CountersCountThreads
<1>6. RegistryExact'
  BY Zenon, <1>1, Moves DEF SourceInv, RegistryExact
<1>7. StreamsBounded'
  <2>1. /\ Cardinality(At(PendingPcs)') = pending + In(to, PendingPcs) - In(from, PendingPcs)
        /\ pending \in Nat /\ pending <= MaxPending
    BY Zenon, <1>1, Moves DEF SourceInv, StreamsBounded, CountersCountThreads
  <2>2. from = "tracked" => pending < MaxPending
    BY Zenon, <1>2 DEF SourceInv, OneInHand
  <2>3. Cardinality(At(PendingPcs)') <= MaxPending
    BY SMTT(30), <1>3, <2>1, <2>2, ReplicaSourceAssumption
  <2>4. /\ Cardinality(At(SlotPcs)') = Cardinality(At(SlotPcs)) + In(to, SlotPcs) - In(from, SlotPcs)
        /\ Cardinality(At(SlotPcs)) \in Nat
    BY Zenon, <1>1, Moves
  <2>5. Cardinality(At(SlotPcs)) <= MaxReplicas /\ Cardinality(At(SlotPcs)) <= replicas
    BY Zenon, SlotsWithinReplicas
       DEF SourceInv, StreamsBounded, CountersCountThreads, SlotPcs
  <2>6. replicas \in Int
    BY Zenon, <1>1 DEF SourceTypeOK
  <2>7. Cardinality(At(SlotPcs)') <= MaxReplicas
    BY SMTT(30), <1>3, <2>4, <2>5, <2>6, ReplicaSourceAssumption DEF SlotFree
  <2>8. At(SlotPcs)' = At(ReplicaPcs \ {"overflow"})'
    BY Zenon DEF SlotPcs
  <2> QED
    BY Zenon, <2>3, <2>7, <2>8 DEF StreamsBounded
<1> QED
  BY Zenon, <1>4, <1>5, <1>6, <1>7

(* What a streamer's step owes the rest of the invariant: it may enter     *)
(* replicas only in a step that leaves its mark in slipped.                *)
LEMMA StreamerKeeps ==
    ASSUME SourceInv, NEW p \in Peers, NEW from, NEW to \in Pcs, Goes(p, from, to),
           ~Freed, UNCHANGED <<acc, stop, stopper, seen>>,
           from \notin InHand, to \notin InHand, pending' \in Int, pending' <= pending,
           slipped => slipped',
           from \in ReplicaPcs \/ to \notin ReplicaPcs \/ (stopper = "reread" => slipped')
    PROVE  OneInHand' /\ StopState' /\ FreedAfterStreams'
<1>1. SourceTypeOK
  BY Zenon DEF SourceInv
<1>2. /\ thread[p] = from /\ thread'[p] = to
      /\ \A q \in Peers : q # p => thread'[q] = thread[q]
  BY Zenon, <1>1, GoesTyped
<1>3. to # "tracked"
  BY Zenon DEF InHand
<1>4. OneInHand'
  <2>1. \A q \in Peers : thread'[q] \in InHand => thread[q] \in InHand /\ thread'[q] = thread[q]
    BY Zenon, <1>2
  <2>2. \A q \in Peers : thread'[q] = "tracked" => thread[q] = "tracked"
    BY Zenon, <1>2, <1>3
  <2>3. pending < MaxPending => pending' < MaxPending
    BY <1>1, ReplicaSourceAssumption DEF SourceTypeOK
  <2> QED
    BY Zenon, <2>1, <2>2, <2>3 DEF SourceInv, OneInHand
<1>5. StopState'
  <2>1. At(ReplicaPcs) = {} /\ to \notin ReplicaPcs => At(ReplicaPcs)' = {}
    BY Zenon, <1>1, Moves
  <2>2. At(ReplicaPcs) = {} => from \notin ReplicaPcs
    BY Zenon, <1>2 DEF At
  <2> QED
    BY Zenon, <2>1, <2>2 DEF SourceInv, StopState
<1>6. FreedAfterStreams'
  BY Zenon DEF FreedAfterStreams, Freed
<1> QED
  BY Zenon, <1>4, <1>5, <1>6

(* The same for the acceptor, whose connections are in no set a stopper    *)
(* past the join looks at.                                                 *)
LEMMA AcceptorKeeps ==
    ASSUME SourceInv, NEW p \in Peers, NEW from, NEW to \in Pcs, Goes(p, from, to),
           UNCHANGED <<stop, stopper, seen, slipped>>,
           acc \in {"free", "busy"}, to \notin ReplicaPcs
    PROVE  StopState' /\ FreedAfterStreams'
<1>1. SourceTypeOK
  BY Zenon DEF SourceInv
<1>2. stopper \notin {"wait", "reread", "freed", "closed"}
  BY Zenon DEF SourceInv, StopState
<1> QED
  BY Zenon, <1>2 DEF SourceInv, StopState, FreedAfterStreams, Freed

-----------------------------------------------------------------------------

(* A connection is accepted: no set that counts changes.                   *)
LEMMA AcceptStep ==
    ASSUME SourceInv, NEW p \in Peers, Accept(p)
    PROVE  SourceInv'
<1>1. SourceTypeOK /\ Goes(p, "none", "accepted") /\ thread[p] = "none"
  BY Zenon DEF SourceInv, Accept, Goes
<1>2. /\ In("none", PendingPcs) = 0 /\ In("accepted", PendingPcs) = 0
      /\ In("none", ReplicaPcs) = 0 /\ In("accepted", ReplicaPcs) = 0
      /\ In("none", SlotPcs) = 0 /\ In("accepted", SlotPcs) = 0
      /\ "none" \notin TrackedPcs /\ "accepted" \notin TrackedPcs
      /\ "none" \notin ReplicaPcs /\ "accepted" \notin ReplicaPcs
      /\ "none" \notin InHand /\ "accepted" \in InHand /\ "accepted" \in Pcs
  BY Zenon DEF In, Pcs, InHand, TrackedPcs, SlotPcs, LivePcs, PendingPcs, ReplicaPcs
<1>3. p \notin conns
  BY Zenon, <1>1, <1>2 DEF SourceInv, RegistryExact, At
<1>4. /\ pending' = pending /\ replicas' = replicas /\ conns' = conns \ {p}
      /\ UNCHANGED <<stop, stopper, seen>>
  BY Zenon, <1>1, <1>3 DEF Accept, Goes
<1>5. acc' \in {"free", "busy", "ended"} /\ slipped' \in BOOLEAN
  BY Zenon, <1>1 DEF Accept, SourceTypeOK
<1>6. SourceTypeOK' /\ CountersCountThreads' /\ RegistryExact' /\ StreamsBounded'
  BY SMTT(30), <1>1, <1>2, <1>4, <1>5, MoveKeeps DEF SourceTypeOK
<1>7. acc \in {"free", "busy"}
  BY Zenon, <1>1, <1>2 DEF SourceInv, Accept, OneInHand
<1>8. StopState' /\ FreedAfterStreams'
  BY Zenon, <1>1, <1>2, <1>4, <1>7, AcceptorKeeps DEF Accept
<1>9. OneInHand'
  <2>1. /\ thread'[p] = "accepted"
        /\ \A q \in Peers : q # p => thread'[q] = thread[q]
    BY Zenon, <1>1, <1>2, GoesTyped
  <2> QED
    BY Zenon, <1>1, <1>2, <1>4, <2>1, ReplicaSourceAssumption
       DEF SourceInv, Accept, OneInHand, MayHandshake, SourceTypeOK
<1> QED
  BY Zenon, <1>6, <1>8, <1>9 DEF SourceInv

(* A refused connection leaves the acceptor free.                          *)
LEMMA AdmitRefusedStep ==
    ASSUME SourceInv, NEW p \in Peers, AdmitRefused(p)
    PROVE  SourceInv'
<1>1. SourceTypeOK /\ Goes(p, "accepted", "gone") /\ thread[p] = "accepted"
  BY Zenon DEF SourceInv, AdmitRefused, Goes
<1>2. /\ In("accepted", PendingPcs) = 0 /\ In("gone", PendingPcs) = 0
      /\ In("accepted", ReplicaPcs) = 0 /\ In("gone", ReplicaPcs) = 0
      /\ In("accepted", SlotPcs) = 0 /\ In("gone", SlotPcs) = 0
      /\ "accepted" \notin TrackedPcs /\ "gone" \notin TrackedPcs
      /\ "accepted" \notin ReplicaPcs /\ "gone" \notin ReplicaPcs
      /\ "accepted" \in InHand /\ "gone" \notin InHand /\ "gone" \in Pcs
  BY Zenon DEF In, Pcs, InHand, TrackedPcs, SlotPcs, LivePcs, PendingPcs, ReplicaPcs
<1>3. p \notin conns
  BY Zenon, <1>1, <1>2 DEF SourceInv, RegistryExact, At
<1>4. /\ pending' = pending /\ replicas' = replicas /\ conns' = conns \ {p}
      /\ UNCHANGED <<stop, stopper, seen>>
  BY Zenon, <1>1, <1>3 DEF AdmitRefused, Goes
<1>5. acc' \in {"free", "busy", "ended"} /\ slipped' \in BOOLEAN
  BY Zenon, <1>1 DEF AdmitRefused, SourceTypeOK
<1>6. SourceTypeOK' /\ CountersCountThreads' /\ RegistryExact' /\ StreamsBounded'
  BY SMTT(30), <1>1, <1>2, <1>4, <1>5, MoveKeeps DEF SourceTypeOK
<1>7. acc \in {"free", "busy"}
  BY Zenon, <1>1, <1>2 DEF SourceInv, AdmitRefused, OneInHand
<1>8. StopState' /\ FreedAfterStreams'
  BY Zenon, <1>1, <1>2, <1>4, <1>7, AcceptorKeeps DEF AdmitRefused
<1>9. OneInHand'
  <2>1. /\ thread'[p] = "gone"
        /\ \A q \in Peers : q # p => thread'[q] = thread[q]
    BY Zenon, <1>1, <1>2, GoesTyped
  <2> QED
    BY Zenon, <1>1, <1>2, <1>4, <2>1, ReplicaSourceAssumption
       DEF SourceInv, AdmitRefused, OneInHand, MayHandshake, SourceTypeOK
<1> QED
  BY Zenon, <1>6, <1>8, <1>9 DEF SourceInv

(* The socket is registered while the room for its handshake is there.     *)
LEMMA TrackStep ==
    ASSUME SourceInv, NEW p \in Peers, Track(p)
    PROVE  SourceInv'
<1>1. SourceTypeOK /\ Goes(p, "accepted", "tracked") /\ thread[p] = "accepted"
  BY Zenon DEF SourceInv, Track, Goes
<1>2. /\ In("accepted", PendingPcs) = 0 /\ In("tracked", PendingPcs) = 0
      /\ In("accepted", ReplicaPcs) = 0 /\ In("tracked", ReplicaPcs) = 0
      /\ In("accepted", SlotPcs) = 0 /\ In("tracked", SlotPcs) = 0
      /\ "accepted" \notin TrackedPcs /\ "tracked" \in TrackedPcs
      /\ "accepted" \notin ReplicaPcs /\ "tracked" \notin ReplicaPcs
      /\ "accepted" \in InHand /\ "tracked" \in InHand /\ "tracked" \in Pcs
  BY Zenon DEF In, Pcs, InHand, TrackedPcs, SlotPcs, LivePcs, PendingPcs, ReplicaPcs
<1>3. p \notin conns
  BY Zenon, <1>1, <1>2 DEF SourceInv, RegistryExact, At
<1>4. /\ pending' = pending /\ replicas' = replicas /\ conns' = conns \cup {p}
      /\ UNCHANGED <<stop, stopper, seen>>
  BY Zenon, <1>1, <1>3 DEF Track, Goes
<1>5. acc' \in {"free", "busy", "ended"} /\ slipped' \in BOOLEAN
  BY Zenon, <1>1 DEF Track, SourceTypeOK
<1>6. SourceTypeOK' /\ CountersCountThreads' /\ RegistryExact' /\ StreamsBounded'
  BY SMTT(30), <1>1, <1>2, <1>4, <1>5, MoveKeeps DEF SourceTypeOK
<1>7. acc \in {"free", "busy"}
  BY Zenon, <1>1, <1>2 DEF SourceInv, Track, OneInHand
<1>8. StopState' /\ FreedAfterStreams'
  BY Zenon, <1>1, <1>2, <1>4, <1>7, AcceptorKeeps DEF Track
<1>9. OneInHand'
  <2>1. /\ thread'[p] = "tracked"
        /\ \A q \in Peers : q # p => thread'[q] = thread[q]
    BY Zenon, <1>1, <1>2, GoesTyped
  <2> QED
    BY Zenon, <1>1, <1>2, <1>4, <2>1, ReplicaSourceAssumption
       DEF SourceInv, Track, OneInHand, MayHandshake, SourceTypeOK
<1> QED
  BY Zenon, <1>6, <1>8, <1>9 DEF SourceInv

(* The connection is counted, in the room that was found.                  *)
LEMMA CountPendingStep ==
    ASSUME SourceInv, NEW p \in Peers, CountPending(p)
    PROVE  SourceInv'
<1>1. SourceTypeOK /\ Goes(p, "tracked", "counted") /\ thread[p] = "tracked"
  BY Zenon DEF SourceInv, CountPending, Goes
<1>2. /\ In("tracked", PendingPcs) = 0 /\ In("counted", PendingPcs) = 1
      /\ In("tracked", ReplicaPcs) = 0 /\ In("counted", ReplicaPcs) = 0
      /\ In("tracked", SlotPcs) = 0 /\ In("counted", SlotPcs) = 0
      /\ "tracked" \in TrackedPcs /\ "counted" \in TrackedPcs
      /\ "tracked" \notin ReplicaPcs /\ "counted" \notin ReplicaPcs
      /\ "tracked" \in InHand /\ "counted" \in InHand /\ "counted" \in Pcs
  BY Zenon DEF In, Pcs, InHand, TrackedPcs, SlotPcs, LivePcs, PendingPcs, ReplicaPcs
<1>3. p \in conns
  BY Zenon, <1>1, <1>2 DEF SourceInv, RegistryExact, At
<1>4. /\ pending' = pending + 1 /\ replicas' = replicas /\ conns' = conns \cup {p}
      /\ UNCHANGED <<stop, stopper, seen>>
  BY Zenon, <1>1, <1>3 DEF CountPending, Goes
<1>5. acc' \in {"free", "busy", "ended"} /\ slipped' \in BOOLEAN
  BY Zenon, <1>1 DEF CountPending, SourceTypeOK
<1>6. SourceTypeOK' /\ CountersCountThreads' /\ RegistryExact' /\ StreamsBounded'
  BY SMTT(30), <1>1, <1>2, <1>4, <1>5, MoveKeeps DEF SourceTypeOK
<1>7. acc \in {"free", "busy"}
  BY Zenon, <1>1, <1>2 DEF SourceInv, CountPending, OneInHand
<1>8. StopState' /\ FreedAfterStreams'
  BY Zenon, <1>1, <1>2, <1>4, <1>7, AcceptorKeeps DEF CountPending
<1>9. OneInHand'
  <2>1. /\ thread'[p] = "counted"
        /\ \A q \in Peers : q # p => thread'[q] = thread[q]
    BY <1>1, <1>2, GoesTyped
  <2> QED
    BY Zenon, <1>1, <1>2, <1>4, <2>1, ReplicaSourceAssumption
       DEF SourceInv, CountPending, OneInHand, MayHandshake, SourceTypeOK
<1> QED
  BY Zenon, <1>6, <1>8, <1>9 DEF SourceInv

(* The counted connection gets its thread.                                 *)
LEMMA SpawnStep ==
    ASSUME SourceInv, NEW p \in Peers, Spawn(p)
    PROVE  SourceInv'
<1>1. SourceTypeOK /\ Goes(p, "counted", "handshake") /\ thread[p] = "counted"
  BY Zenon DEF SourceInv, Spawn, Goes
<1>2. /\ In("counted", PendingPcs) = 1 /\ In("handshake", PendingPcs) = 1
      /\ In("counted", ReplicaPcs) = 0 /\ In("handshake", ReplicaPcs) = 0
      /\ In("counted", SlotPcs) = 0 /\ In("handshake", SlotPcs) = 0
      /\ "counted" \in TrackedPcs /\ "handshake" \in TrackedPcs
      /\ "counted" \notin ReplicaPcs /\ "handshake" \notin ReplicaPcs
      /\ "counted" \in InHand /\ "handshake" \notin InHand /\ "handshake" \in Pcs
  BY Zenon DEF In, Pcs, InHand, TrackedPcs, SlotPcs, LivePcs, PendingPcs, ReplicaPcs
<1>3. p \in conns
  BY Zenon, <1>1, <1>2 DEF SourceInv, RegistryExact, At
<1>4. /\ pending' = pending /\ replicas' = replicas /\ conns' = conns \cup {p}
      /\ UNCHANGED <<stop, stopper, seen>>
  BY Zenon, <1>1, <1>3 DEF Spawn, Goes
<1>5. acc' \in {"free", "busy", "ended"} /\ slipped' \in BOOLEAN
  BY Zenon, <1>1 DEF Spawn, SourceTypeOK
<1>6. SourceTypeOK' /\ CountersCountThreads' /\ RegistryExact' /\ StreamsBounded'
  BY SMTT(30), <1>1, <1>2, <1>4, <1>5, MoveKeeps DEF SourceTypeOK
<1>7. acc \in {"free", "busy"}
  BY Zenon, <1>1, <1>2 DEF SourceInv, Spawn, OneInHand
<1>8. StopState' /\ FreedAfterStreams'
  BY Zenon, <1>1, <1>2, <1>4, <1>7, AcceptorKeeps DEF Spawn
<1>9. OneInHand'
  <2>1. /\ thread'[p] = "handshake"
        /\ \A q \in Peers : q # p => thread'[q] = thread[q]
    BY <1>1, <1>2, GoesTyped
  <2> QED
    BY Zenon, <1>1, <1>2, <1>4, <2>1, ReplicaSourceAssumption
       DEF SourceInv, Spawn, OneInHand, MayHandshake, SourceTypeOK
<1> QED
  BY Zenon, <1>6, <1>8, <1>9 DEF SourceInv

(* A thread that does not start is taken out of registry and counter.      *)
LEMMA SpawnFailsStep ==
    ASSUME SourceInv, NEW p \in Peers, SpawnFails(p)
    PROVE  SourceInv'
<1>1. SourceTypeOK /\ Goes(p, "counted", "gone") /\ thread[p] = "counted"
  BY Zenon DEF SourceInv, SpawnFails, Goes
<1>2. /\ In("counted", PendingPcs) = 1 /\ In("gone", PendingPcs) = 0
      /\ In("counted", ReplicaPcs) = 0 /\ In("gone", ReplicaPcs) = 0
      /\ In("counted", SlotPcs) = 0 /\ In("gone", SlotPcs) = 0
      /\ "counted" \in TrackedPcs /\ "gone" \notin TrackedPcs
      /\ "counted" \notin ReplicaPcs /\ "gone" \notin ReplicaPcs
      /\ "counted" \in InHand /\ "gone" \notin InHand /\ "gone" \in Pcs
  BY Zenon DEF In, Pcs, InHand, TrackedPcs, SlotPcs, LivePcs, PendingPcs, ReplicaPcs
<1>3. p \in conns
  BY Zenon, <1>1, <1>2 DEF SourceInv, RegistryExact, At
<1>4. /\ pending' = pending - 1 /\ replicas' = replicas /\ conns' = conns \ {p}
      /\ UNCHANGED <<stop, stopper, seen>>
  BY Zenon, <1>1, <1>3 DEF SpawnFails, Goes
<1>5. acc' \in {"free", "busy", "ended"} /\ slipped' \in BOOLEAN
  BY Zenon, <1>1 DEF SpawnFails, SourceTypeOK
<1>6. SourceTypeOK' /\ CountersCountThreads' /\ RegistryExact' /\ StreamsBounded'
  BY SMTT(30), <1>1, <1>2, <1>4, <1>5, MoveKeeps DEF SourceTypeOK
<1>7. acc \in {"free", "busy"}
  BY Zenon, <1>1, <1>2 DEF SourceInv, SpawnFails, OneInHand
<1>8. StopState' /\ FreedAfterStreams'
  BY Zenon, <1>1, <1>2, <1>4, <1>7, AcceptorKeeps DEF SpawnFails
<1>9. OneInHand'
  <2>1. /\ thread'[p] = "gone"
        /\ \A q \in Peers : q # p => thread'[q] = thread[q]
    BY <1>1, <1>2, GoesTyped
  <2> QED
    BY SMTT(30), <1>1, <1>2, <1>4, <2>1, ReplicaSourceAssumption
       DEF SourceInv, SpawnFails, OneInHand, MayHandshake, SourceTypeOK
<1> QED
  BY Zenon, <1>6, <1>8, <1>9 DEF SourceInv

(* A rejected handshake keeps its place in pending.                        *)
LEMMA HandshakeFailsStep ==
    ASSUME SourceInv, NEW p \in Peers, HandshakeFails(p)
    PROVE  SourceInv'
<1>1. SourceTypeOK /\ Goes(p, "handshake", "closing") /\ thread[p] = "handshake"
  BY Zenon DEF SourceInv, HandshakeFails, Goes
<1>2. /\ In("handshake", PendingPcs) = 1 /\ In("closing", PendingPcs) = 1
      /\ In("handshake", ReplicaPcs) = 0 /\ In("closing", ReplicaPcs) = 0
      /\ In("handshake", SlotPcs) = 0 /\ In("closing", SlotPcs) = 0
      /\ "handshake" \in TrackedPcs /\ "closing" \in TrackedPcs
      /\ "handshake" \notin ReplicaPcs /\ "closing" \notin ReplicaPcs
      /\ "handshake" \notin InHand /\ "closing" \notin InHand /\ "closing" \in Pcs
  BY Zenon DEF In, Pcs, InHand, TrackedPcs, SlotPcs, LivePcs, PendingPcs, ReplicaPcs
<1>3. p \in conns
  BY Zenon, <1>1, <1>2 DEF SourceInv, RegistryExact, At
<1>4. /\ pending' = pending /\ replicas' = replicas /\ conns' = conns \cup {p}
      /\ UNCHANGED <<stop, stopper, seen>>
  BY Zenon, <1>1, <1>3 DEF HandshakeFails, Goes
<1>5. acc' \in {"free", "busy", "ended"} /\ slipped' \in BOOLEAN
  BY Zenon, <1>1 DEF HandshakeFails, SourceTypeOK
<1>6. SourceTypeOK' /\ CountersCountThreads' /\ RegistryExact' /\ StreamsBounded'
  BY SMTT(30), <1>1, <1>2, <1>4, <1>5, MoveKeeps DEF SourceTypeOK
<1>7. pending' \in Int /\ pending' <= pending
  BY <1>1, <1>4 DEF SourceTypeOK
<1>8. ~Freed /\ UNCHANGED acc /\ (slipped => slipped')
  BY Zenon DEF HandshakeFails
<1>9. OneInHand' /\ StopState' /\ FreedAfterStreams'
  BY Zenon, <1>1, <1>2, <1>4, <1>7, <1>8, StreamerKeeps
<1> QED
  BY Zenon, <1>6, <1>9 DEF SourceInv

(* A claim below the cap: counted twice until pending is dropped.          *)
LEMMA ClaimSlotToClaimedStep ==
    ASSUME SourceInv, NEW p \in Peers, ClaimSlot(p), Goes(p, "handshake", "claimed")
    PROVE  SourceInv'
<1>1. SourceTypeOK /\ Goes(p, "handshake", "claimed") /\ thread[p] = "handshake"
  BY Zenon DEF SourceInv, ClaimSlot, Goes
<1>2. /\ In("handshake", PendingPcs) = 1 /\ In("claimed", PendingPcs) = 1
      /\ In("handshake", ReplicaPcs) = 0 /\ In("claimed", ReplicaPcs) = 1
      /\ In("handshake", SlotPcs) = 0 /\ In("claimed", SlotPcs) = 1
      /\ "handshake" \in TrackedPcs /\ "claimed" \in TrackedPcs
      /\ "handshake" \notin ReplicaPcs /\ "claimed" \in ReplicaPcs
      /\ "handshake" \notin InHand /\ "claimed" \notin InHand /\ "claimed" \in Pcs
  BY Zenon DEF In, Pcs, InHand, TrackedPcs, SlotPcs, LivePcs, PendingPcs, ReplicaPcs
<1>3. p \in conns
  BY Zenon, <1>1, <1>2 DEF SourceInv, RegistryExact, At
<1>4. /\ pending' = pending /\ replicas' = replicas + 1 /\ conns' = conns \cup {p}
      /\ UNCHANGED <<stop, stopper, seen>> /\ SlotFree
  <2>1. SlotFree
    BY Zenon, <1>1 DEF ClaimSlot, Goes, SourceTypeOK
  <2> QED
    BY Zenon, <1>1, <1>3, <2>1 DEF ClaimSlot, Goes
<1>5. acc' \in {"free", "busy", "ended"} /\ slipped' \in BOOLEAN
  BY Zenon, <1>1 DEF ClaimSlot, SourceTypeOK
<1>6. SourceTypeOK' /\ CountersCountThreads' /\ RegistryExact' /\ StreamsBounded'
  BY SMTT(30), <1>1, <1>2, <1>4, <1>5, MoveKeeps DEF SourceTypeOK
<1>7. pending' \in Int /\ pending' <= pending
  BY <1>1, <1>4 DEF SourceTypeOK
<1>8. ~Freed /\ UNCHANGED acc /\ (slipped => slipped')
  BY Zenon DEF ClaimSlot
<1>9. OneInHand' /\ StopState' /\ FreedAfterStreams'
  BY Zenon, <1>1, <1>2, <1>4, <1>7, <1>8, StreamerKeeps DEF ClaimSlot
<1> QED
  BY Zenon, <1>6, <1>9 DEF SourceInv

(* A claim at the cap: replicas runs over by a thread without a slot.      *)
LEMMA ClaimSlotToOverflowStep ==
    ASSUME SourceInv, NEW p \in Peers, ClaimSlot(p), Goes(p, "handshake", "overflow")
    PROVE  SourceInv'
<1>1. SourceTypeOK /\ Goes(p, "handshake", "overflow") /\ thread[p] = "handshake"
  BY Zenon DEF SourceInv, ClaimSlot, Goes
<1>2. /\ In("handshake", PendingPcs) = 1 /\ In("overflow", PendingPcs) = 1
      /\ In("handshake", ReplicaPcs) = 0 /\ In("overflow", ReplicaPcs) = 1
      /\ In("handshake", SlotPcs) = 0 /\ In("overflow", SlotPcs) = 0
      /\ "handshake" \in TrackedPcs /\ "overflow" \in TrackedPcs
      /\ "handshake" \notin ReplicaPcs /\ "overflow" \in ReplicaPcs
      /\ "handshake" \notin InHand /\ "overflow" \notin InHand /\ "overflow" \in Pcs
  BY Zenon DEF In, Pcs, InHand, TrackedPcs, SlotPcs, LivePcs, PendingPcs, ReplicaPcs
<1>3. p \in conns
  BY Zenon, <1>1, <1>2 DEF SourceInv, RegistryExact, At
<1>4. /\ pending' = pending /\ replicas' = replicas + 1 /\ conns' = conns \cup {p}
      /\ UNCHANGED <<stop, stopper, seen>>
  BY Zenon, <1>1, <1>3 DEF ClaimSlot, Goes
<1>5. acc' \in {"free", "busy", "ended"} /\ slipped' \in BOOLEAN
  BY Zenon, <1>1 DEF ClaimSlot, SourceTypeOK
<1>6. SourceTypeOK' /\ CountersCountThreads' /\ RegistryExact' /\ StreamsBounded'
  BY SMTT(30), <1>1, <1>2, <1>4, <1>5, MoveKeeps DEF SourceTypeOK
<1>7. pending' \in Int /\ pending' <= pending
  BY <1>1, <1>4 DEF SourceTypeOK
<1>8. ~Freed /\ UNCHANGED acc /\ (slipped => slipped')
  BY Zenon DEF ClaimSlot
<1>9. OneInHand' /\ StopState' /\ FreedAfterStreams'
  BY Zenon, <1>1, <1>2, <1>4, <1>7, <1>8, StreamerKeeps DEF ClaimSlot
<1> QED
  BY Zenon, <1>6, <1>9 DEF SourceInv

(* The rejected claim is given back.                                       *)
LEMMA GiveBackStep ==
    ASSUME SourceInv, NEW p \in Peers, GiveBack(p)
    PROVE  SourceInv'
<1>1. SourceTypeOK /\ Goes(p, "overflow", "closing") /\ thread[p] = "overflow"
  BY Zenon DEF SourceInv, GiveBack, Goes
<1>2. /\ In("overflow", PendingPcs) = 1 /\ In("closing", PendingPcs) = 1
      /\ In("overflow", ReplicaPcs) = 1 /\ In("closing", ReplicaPcs) = 0
      /\ In("overflow", SlotPcs) = 0 /\ In("closing", SlotPcs) = 0
      /\ "overflow" \in TrackedPcs /\ "closing" \in TrackedPcs
      /\ "overflow" \in ReplicaPcs /\ "closing" \notin ReplicaPcs
      /\ "overflow" \notin InHand /\ "closing" \notin InHand /\ "closing" \in Pcs
  BY Zenon DEF In, Pcs, InHand, TrackedPcs, SlotPcs, LivePcs, PendingPcs, ReplicaPcs
<1>3. p \in conns
  BY Zenon, <1>1, <1>2 DEF SourceInv, RegistryExact, At
<1>4. /\ pending' = pending /\ replicas' = replicas - 1 /\ conns' = conns \cup {p}
      /\ UNCHANGED <<stop, stopper, seen>>
  BY Zenon, <1>1, <1>3 DEF GiveBack, Goes
<1>5. acc' \in {"free", "busy", "ended"} /\ slipped' \in BOOLEAN
  BY Zenon, <1>1 DEF GiveBack, SourceTypeOK
<1>6. SourceTypeOK' /\ CountersCountThreads' /\ RegistryExact' /\ StreamsBounded'
  BY SMTT(30), <1>1, <1>2, <1>4, <1>5, MoveKeeps DEF SourceTypeOK
<1>7. pending' \in Int /\ pending' <= pending
  BY <1>1, <1>4 DEF SourceTypeOK
<1>8. ~Freed /\ UNCHANGED acc /\ (slipped => slipped')
  BY Zenon DEF GiveBack
<1>9. OneInHand' /\ StopState' /\ FreedAfterStreams'
  BY Zenon, <1>1, <1>2, <1>4, <1>7, <1>8, StreamerKeeps
<1> QED
  BY Zenon, <1>6, <1>9 DEF SourceInv

(* The change-over is complete.                                            *)
LEMMA DropPendingStep ==
    ASSUME SourceInv, NEW p \in Peers, DropPending(p)
    PROVE  SourceInv'
<1>1. SourceTypeOK /\ Goes(p, "claimed", "streaming") /\ thread[p] = "claimed"
  BY Zenon DEF SourceInv, DropPending, Goes
<1>2. /\ In("claimed", PendingPcs) = 1 /\ In("streaming", PendingPcs) = 0
      /\ In("claimed", ReplicaPcs) = 1 /\ In("streaming", ReplicaPcs) = 1
      /\ In("claimed", SlotPcs) = 1 /\ In("streaming", SlotPcs) = 1
      /\ "claimed" \in TrackedPcs /\ "streaming" \in TrackedPcs
      /\ "claimed" \in ReplicaPcs /\ "streaming" \in ReplicaPcs
      /\ "claimed" \notin InHand /\ "streaming" \notin InHand /\ "streaming" \in Pcs
  BY Zenon DEF In, Pcs, InHand, TrackedPcs, SlotPcs, LivePcs, PendingPcs, ReplicaPcs
<1>3. p \in conns
  BY Zenon, <1>1, <1>2 DEF SourceInv, RegistryExact, At
<1>4. /\ pending' = pending - 1 /\ replicas' = replicas /\ conns' = conns \cup {p}
      /\ UNCHANGED <<stop, stopper, seen>>
  BY Zenon, <1>1, <1>3 DEF DropPending, Goes
<1>5. acc' \in {"free", "busy", "ended"} /\ slipped' \in BOOLEAN
  BY Zenon, <1>1 DEF DropPending, SourceTypeOK
<1>6. SourceTypeOK' /\ CountersCountThreads' /\ RegistryExact' /\ StreamsBounded'
  BY SMTT(30), <1>1, <1>2, <1>4, <1>5, MoveKeeps DEF SourceTypeOK
<1>7. pending' \in Int /\ pending' <= pending
  BY <1>1, <1>4 DEF SourceTypeOK
<1>8. ~Freed /\ UNCHANGED acc /\ (slipped => slipped')
  BY Zenon DEF DropPending
<1>9. OneInHand' /\ StopState' /\ FreedAfterStreams'
  BY Zenon, <1>1, <1>2, <1>4, <1>7, <1>8, StreamerKeeps
<1> QED
  BY Zenon, <1>6, <1>9 DEF SourceInv

(* A stream that ends keeps its slot until it is released.                 *)
LEMMA StreamEndsStep ==
    ASSUME SourceInv, NEW p \in Peers, StreamEnds(p)
    PROVE  SourceInv'
<1>1. SourceTypeOK /\ Goes(p, "streaming", "closingAuthed") /\ thread[p] = "streaming"
  BY Zenon DEF SourceInv, StreamEnds, Goes
<1>2. /\ In("streaming", PendingPcs) = 0 /\ In("closingAuthed", PendingPcs) = 0
      /\ In("streaming", ReplicaPcs) = 1 /\ In("closingAuthed", ReplicaPcs) = 1
      /\ In("streaming", SlotPcs) = 1 /\ In("closingAuthed", SlotPcs) = 1
      /\ "streaming" \in TrackedPcs /\ "closingAuthed" \in TrackedPcs
      /\ "streaming" \in ReplicaPcs /\ "closingAuthed" \in ReplicaPcs
      /\ "streaming" \notin InHand /\ "closingAuthed" \notin InHand /\ "closingAuthed" \in Pcs
  BY Zenon DEF In, Pcs, InHand, TrackedPcs, SlotPcs, LivePcs, PendingPcs, ReplicaPcs
<1>3. p \in conns
  BY Zenon, <1>1, <1>2 DEF SourceInv, RegistryExact, At
<1>4. /\ pending' = pending /\ replicas' = replicas /\ conns' = conns \cup {p}
      /\ UNCHANGED <<stop, stopper, seen>>
  BY Zenon, <1>1, <1>3 DEF StreamEnds, Goes
<1>5. acc' \in {"free", "busy", "ended"} /\ slipped' \in BOOLEAN
  BY Zenon, <1>1 DEF StreamEnds, SourceTypeOK
<1>6. SourceTypeOK' /\ CountersCountThreads' /\ RegistryExact' /\ StreamsBounded'
  BY <1>1, <1>2, <1>4, <1>5, MoveKeeps DEF SourceTypeOK
<1>7. pending' \in Int /\ pending' <= pending
  BY <1>1, <1>4 DEF SourceTypeOK
<1>8. ~Freed /\ UNCHANGED acc /\ (slipped => slipped')
  BY Zenon DEF StreamEnds
<1>9. OneInHand' /\ StopState' /\ FreedAfterStreams'
  BY Zenon, <1>1, <1>2, <1>4, <1>7, <1>8, StreamerKeeps
<1> QED
  BY Zenon, <1>6, <1>9 DEF SourceInv

(* A handshake that failed leaves the registry.                            *)
LEMMA UntrackStep ==
    ASSUME SourceInv, NEW p \in Peers, Untrack(p), Goes(p, "closing", "untracked")
    PROVE  SourceInv'
<1>1. SourceTypeOK /\ Goes(p, "closing", "untracked") /\ thread[p] = "closing"
  BY Zenon DEF SourceInv, Untrack, Goes
<1>2. /\ In("closing", PendingPcs) = 1 /\ In("untracked", PendingPcs) = 1
      /\ In("closing", ReplicaPcs) = 0 /\ In("untracked", ReplicaPcs) = 0
      /\ In("closing", SlotPcs) = 0 /\ In("untracked", SlotPcs) = 0
      /\ "closing" \in TrackedPcs /\ "untracked" \notin TrackedPcs
      /\ "closing" \notin ReplicaPcs /\ "untracked" \notin ReplicaPcs
      /\ "closing" \notin InHand /\ "untracked" \notin InHand /\ "untracked" \in Pcs
  BY Zenon DEF In, Pcs, InHand, TrackedPcs, SlotPcs, LivePcs, PendingPcs, ReplicaPcs
<1>3. p \in conns
  BY Zenon, <1>1, <1>2 DEF SourceInv, RegistryExact, At
<1>4. /\ pending' = pending /\ replicas' = replicas /\ conns' = conns \ {p}
      /\ UNCHANGED <<stop, stopper, seen>>
  BY Zenon, <1>1, <1>3 DEF Untrack, Goes
<1>5. acc' \in {"free", "busy", "ended"} /\ slipped' \in BOOLEAN
  BY Zenon, <1>1 DEF Untrack, SourceTypeOK
<1>6. SourceTypeOK' /\ CountersCountThreads' /\ RegistryExact' /\ StreamsBounded'
  BY <1>1, <1>2, <1>4, <1>5, MoveKeeps DEF SourceTypeOK
<1>7. pending' \in Int /\ pending' <= pending
  BY <1>1, <1>4 DEF SourceTypeOK
<1>8. ~Freed /\ UNCHANGED acc /\ (slipped => slipped')
  BY Zenon DEF Untrack
<1>9. OneInHand' /\ StopState' /\ FreedAfterStreams'
  BY Zenon, <1>1, <1>2, <1>4, <1>7, <1>8, StreamerKeeps
<1> QED
  BY Zenon, <1>6, <1>9 DEF SourceInv

(* A stream that ended leaves the registry.                                *)
LEMMA UntrackAuthedStep ==
    ASSUME SourceInv, NEW p \in Peers, Untrack(p), Goes(p, "closingAuthed", "untrackedAuthed")
    PROVE  SourceInv'
<1>1. SourceTypeOK /\ Goes(p, "closingAuthed", "untrackedAuthed") /\ thread[p] = "closingAuthed"
  BY Zenon DEF SourceInv, Untrack, Goes
<1>2. /\ In("closingAuthed", PendingPcs) = 0 /\ In("untrackedAuthed", PendingPcs) = 0
      /\ In("closingAuthed", ReplicaPcs) = 1 /\ In("untrackedAuthed", ReplicaPcs) = 1
      /\ In("closingAuthed", SlotPcs) = 1 /\ In("untrackedAuthed", SlotPcs) = 1
      /\ "closingAuthed" \in TrackedPcs /\ "untrackedAuthed" \notin TrackedPcs
      /\ "closingAuthed" \in ReplicaPcs /\ "untrackedAuthed" \in ReplicaPcs
      /\ "closingAuthed" \notin InHand /\ "untrackedAuthed" \notin InHand /\ "untrackedAuthed" \in Pcs
  BY Zenon DEF In, Pcs, InHand, TrackedPcs, SlotPcs, LivePcs, PendingPcs, ReplicaPcs
<1>3. p \in conns
  BY Zenon, <1>1, <1>2 DEF SourceInv, RegistryExact, At
<1>4. /\ pending' = pending /\ replicas' = replicas /\ conns' = conns \ {p}
      /\ UNCHANGED <<stop, stopper, seen>>
  BY Zenon, <1>1, <1>3 DEF Untrack, Goes
<1>5. acc' \in {"free", "busy", "ended"} /\ slipped' \in BOOLEAN
  BY Zenon, <1>1 DEF Untrack, SourceTypeOK
<1>6. SourceTypeOK' /\ CountersCountThreads' /\ RegistryExact' /\ StreamsBounded'
  BY <1>1, <1>2, <1>4, <1>5, MoveKeeps DEF SourceTypeOK
<1>7. pending' \in Int /\ pending' <= pending
  BY <1>1, <1>4 DEF SourceTypeOK
<1>8. ~Freed /\ UNCHANGED acc /\ (slipped => slipped')
  BY Zenon DEF Untrack
<1>9. OneInHand' /\ StopState' /\ FreedAfterStreams'
  BY Zenon, <1>1, <1>2, <1>4, <1>7, <1>8, StreamerKeeps
<1> QED
  BY Zenon, <1>6, <1>9 DEF SourceInv

(* The last decrement of a handshake that failed.                          *)
LEMMA ReleaseStep ==
    ASSUME SourceInv, NEW p \in Peers, Release(p), Goes(p, "untracked", "gone")
    PROVE  SourceInv'
<1>1. SourceTypeOK /\ Goes(p, "untracked", "gone") /\ thread[p] = "untracked"
  BY Zenon DEF SourceInv, Release, Goes
<1>2. /\ In("untracked", PendingPcs) = 1 /\ In("gone", PendingPcs) = 0
      /\ In("untracked", ReplicaPcs) = 0 /\ In("gone", ReplicaPcs) = 0
      /\ In("untracked", SlotPcs) = 0 /\ In("gone", SlotPcs) = 0
      /\ "untracked" \notin TrackedPcs /\ "gone" \notin TrackedPcs
      /\ "untracked" \notin ReplicaPcs /\ "gone" \notin ReplicaPcs
      /\ "untracked" \notin InHand /\ "gone" \notin InHand /\ "gone" \in Pcs
  BY Zenon DEF In, Pcs, InHand, TrackedPcs, SlotPcs, LivePcs, PendingPcs, ReplicaPcs
<1>3. p \notin conns
  BY Zenon, <1>1, <1>2 DEF SourceInv, RegistryExact, At
<1>4. /\ pending' = pending - 1 /\ replicas' = replicas /\ conns' = conns \ {p}
      /\ UNCHANGED <<stop, stopper, seen>>
  BY Zenon, <1>1, <1>3 DEF Release, Goes
<1>5. acc' \in {"free", "busy", "ended"} /\ slipped' \in BOOLEAN
  BY Zenon, <1>1 DEF Release, SourceTypeOK
<1>6. SourceTypeOK' /\ CountersCountThreads' /\ RegistryExact' /\ StreamsBounded'
  BY <1>1, <1>2, <1>4, <1>5, MoveKeeps DEF SourceTypeOK
<1>7. pending' \in Int /\ pending' <= pending
  BY <1>1, <1>4 DEF SourceTypeOK
<1>8. ~Freed /\ UNCHANGED acc /\ (slipped => slipped')
  BY Zenon DEF Release
<1>9. OneInHand' /\ StopState' /\ FreedAfterStreams'
  BY Zenon, <1>1, <1>2, <1>4, <1>7, <1>8, StreamerKeeps
<1> QED
  BY Zenon, <1>6, <1>9 DEF SourceInv

(* The last decrement of a stream.                                         *)
LEMMA ReleaseAuthedStep ==
    ASSUME SourceInv, NEW p \in Peers, Release(p), Goes(p, "untrackedAuthed", "gone")
    PROVE  SourceInv'
<1>1. SourceTypeOK /\ Goes(p, "untrackedAuthed", "gone") /\ thread[p] = "untrackedAuthed"
  BY Zenon DEF SourceInv, Release, Goes
<1>2. /\ In("untrackedAuthed", PendingPcs) = 0 /\ In("gone", PendingPcs) = 0
      /\ In("untrackedAuthed", ReplicaPcs) = 1 /\ In("gone", ReplicaPcs) = 0
      /\ In("untrackedAuthed", SlotPcs) = 1 /\ In("gone", SlotPcs) = 0
      /\ "untrackedAuthed" \notin TrackedPcs /\ "gone" \notin TrackedPcs
      /\ "untrackedAuthed" \in ReplicaPcs /\ "gone" \notin ReplicaPcs
      /\ "untrackedAuthed" \notin InHand /\ "gone" \notin InHand /\ "gone" \in Pcs
  BY Zenon DEF In, Pcs, InHand, TrackedPcs, SlotPcs, LivePcs, PendingPcs, ReplicaPcs
<1>3. p \notin conns
  BY Zenon, <1>1, <1>2 DEF SourceInv, RegistryExact, At
<1>4. /\ pending' = pending /\ replicas' = replicas - 1 /\ conns' = conns \ {p}
      /\ UNCHANGED <<stop, stopper, seen>>
  BY Zenon, <1>1, <1>3 DEF Release, Goes
<1>5. acc' \in {"free", "busy", "ended"} /\ slipped' \in BOOLEAN
  BY Zenon, <1>1 DEF Release, SourceTypeOK
<1>6. SourceTypeOK' /\ CountersCountThreads' /\ RegistryExact' /\ StreamsBounded'
  BY <1>1, <1>2, <1>4, <1>5, MoveKeeps DEF SourceTypeOK
<1>7. pending' \in Int /\ pending' <= pending
  BY <1>1, <1>4 DEF SourceTypeOK
<1>8. ~Freed /\ UNCHANGED acc /\ (slipped => slipped')
  BY Zenon DEF Release
<1>9. OneInHand' /\ StopState' /\ FreedAfterStreams'
  BY Zenon, <1>1, <1>2, <1>4, <1>7, <1>8, StreamerKeeps
<1> QED
  BY Zenon, <1>6, <1>9 DEF SourceInv

(* The acceptor ends with at most an uncounted connection to close.        *)
LEMMA AcceptorEndsStep ==
    ASSUME SourceInv, AcceptorEnds
    PROVE  SourceInv'
<1>1. /\ SourceTypeOK
      /\ UNCHANGED <<conns, pending, replicas, stop, stopper, seen, slipped>>
      /\ acc' = "ended" /\ At({"tracked", "counted"}) = {}
      /\ thread' = [p \in Peers |-> IF thread[p] = "accepted" THEN "gone" ELSE thread[p]]
  BY Zenon DEF SourceInv, AcceptorEnds
<1>2. \A p \in Peers : thread[p] # "tracked" /\ thread[p] # "counted"
  BY Zenon, <1>1 DEF At
<1>3. thread' \in [Peers -> Pcs]
  BY Zenon, <1>1 DEF SourceTypeOK, Pcs
<1>4. \A S : ("accepted" \notin S /\ "gone" \notin S) => At(S)' = At(S)
  BY Zenon, <1>1 DEF At
<1>5. /\ At(PendingPcs)' = At(PendingPcs) /\ At(ReplicaPcs)' = At(ReplicaPcs)
      /\ At(SlotPcs)' = At(SlotPcs) /\ At(TrackedPcs)' = At(TrackedPcs)
      /\ At(LivePcs)' = At(LivePcs)
  <2>1. \A S \in {PendingPcs, ReplicaPcs, SlotPcs, TrackedPcs, LivePcs} :
            "accepted" \notin S /\ "gone" \notin S
    BY Zenon DEF PendingPcs, ReplicaPcs, SlotPcs, TrackedPcs, LivePcs
  <2> QED
    BY Zenon, <1>4, <2>1
<1>6. SourceTypeOK'
  <2>1. stop' \in BOOLEAN /\ slipped' \in BOOLEAN
    BY Zenon, <1>1 DEF SourceTypeOK
  <2> QED
    BY Zenon, <1>1, <1>3, <2>1 DEF SourceTypeOK, Pcs
<1>7. CountersCountThreads' /\ RegistryExact'
  BY Zenon, <1>1, <1>5 DEF SourceInv, CountersCountThreads, RegistryExact
<1>8. StreamsBounded'
  BY Zenon, <1>5 DEF SourceInv, StreamsBounded, SlotPcs
<1>9. OneInHand'
  <2>1. \A p \in Peers : thread'[p] \notin InHand
    BY Zenon, <1>1, <1>2 DEF InHand
  <2>2. \A p \in Peers : thread'[p] # "tracked"
    BY Zenon, <2>1 DEF InHand
  <2> QED
    BY Zenon, <2>1, <2>2 DEF OneInHand
<1>10. StopState' /\ FreedAfterStreams'
  BY Zenon, <1>1, <1>5 DEF SourceInv, StopState, FreedAfterStreams, Freed
<1> QED
  BY Zenon, <1>6, <1>7, <1>8, <1>9, <1>10 DEF SourceInv

(* The stopper moves no thread.  Its first read makes the zero of StopState *)
(* true, its second turns it into FreedAfterStreams.                       *)
LEMMA StopperStep ==
    ASSUME SourceInv, Stopper
    PROVE  SourceInv'
<1>1. SourceTypeOK /\ UNCHANGED <<thread, acc, conns, pending, replicas>>
  BY Zenon DEF SourceInv, Stopper, SetStop, JoinAcceptor, ReadReplicas, ReadPending,
     DbClose
<1>2. \A S : At(S)' = At(S)
  BY Zenon, <1>1 DEF At
<1>3. /\ pending \in Nat /\ pending = Cardinality(At(PendingPcs))
      /\ replicas \in Nat /\ replicas = Cardinality(At(ReplicaPcs))
  BY Zenon, AtFinite DEF SourceInv, CountersCountThreads
<1>4. SourceTypeOK'
  <2>1. stop' \in BOOLEAN /\ slipped' \in BOOLEAN
    BY Zenon, <1>1 DEF SourceTypeOK, Stopper, SetStop, JoinAcceptor,
       ReadReplicas, ReadPending, DbClose
  <2>2. seen' \in Int /\ stopper' \in {"run", "join", "wait", "reread", "freed", "closed"}
    BY Zenon, <1>1 DEF SourceTypeOK, Stopper, SetStop, JoinAcceptor, ReadReplicas,
       ReadPending, DbClose
  <2> QED
    BY Zenon, <1>1, <2>1, <2>2 DEF SourceTypeOK
<1>5. CountersCountThreads' /\ RegistryExact'
  BY Zenon, <1>1, <1>2 DEF SourceInv, CountersCountThreads, RegistryExact
<1>6. StreamsBounded'
  BY Zenon, <1>2 DEF SourceInv, StreamsBounded
<1>7. OneInHand'
  BY Zenon, <1>1 DEF SourceInv, OneInHand
<1>8. StopState'
  <2>1. stopper' \in {"wait", "reread", "freed", "closed"} => acc' = "ended"
    BY Zenon, <1>1 DEF SourceInv, StopState, Stopper, SetStop, JoinAcceptor,
       ReadReplicas, ReadPending, DbClose
  <2>2. seen' >= 0
    BY <1>3 DEF SourceInv, StopState, Stopper, SetStop, JoinAcceptor,
       ReadReplicas, ReadPending, DbClose
  <2>3. stopper' = "reread" => ReadReplicas
    BY Zenon DEF Stopper, SetStop, JoinAcceptor, ReadPending, DbClose
  <2>4. ReadReplicas /\ seen' = 0 => At(ReplicaPcs) = {}
    BY Zenon, <1>3, CountZero DEF ReadReplicas
  <2> QED
    BY Zenon, <1>2, <2>1, <2>2, <2>3, <2>4 DEF StopState
<1>9. FreedAfterStreams'
  <2>1. CASE ReadPending
    <3>1. SUFFICES ASSUME stopper' = "freed", ~slipped PROVE At(LivePcs) = {}
      BY Zenon, <1>2, <2>1 DEF ReadPending, FreedAfterStreams, Freed
    <3>2. seen = 0 /\ pending = 0 /\ stopper = "reread"
      BY <1>1, <1>3, <2>1, <3>1 DEF SourceInv, StopState, ReadPending, SourceTypeOK
    <3>3. At(ReplicaPcs) = {} /\ At(PendingPcs) = {}
      BY Zenon, <1>3, <3>1, <3>2, CountZero DEF SourceInv, StopState
    <3> QED
      BY Zenon, <3>3 DEF At, LivePcs
  <2>2. CASE SetStop \/ JoinAcceptor \/ ReadReplicas \/ DbClose
    BY Zenon, <1>2, <2>2
       DEF SourceInv, FreedAfterStreams, Freed, SetStop, JoinAcceptor,
       ReadReplicas, DbClose
  <2> QED
    BY Zenon, <2>1, <2>2 DEF Stopper
<1> QED
  BY Zenon, <1>4, <1>5, <1>6, <1>7, <1>8, <1>9 DEF SourceInv

(* Every step of the source keeps the invariant.                           *)
LEMMA NextSource == SourceInv /\ [SourceNext]_rvars => SourceInv'
<1> SUFFICES ASSUME SourceInv, [SourceNext]_rvars PROVE SourceInv'
  BY Zenon
<1>1. CASE Acceptor
  BY Zenon, <1>1, AcceptorEndsStep, AcceptStep, AdmitRefusedStep, TrackStep,
     CountPendingStep,
     SpawnStep, SpawnFailsStep DEF Acceptor
<1>2. CASE Stopper
  BY Zenon, <1>2, StopperStep
<1>3. ASSUME NEW p \in Peers, Streamer(p) PROVE SourceInv'
  <2>1. CASE ClaimSlot(p)
    <3>1. Goes(p, "handshake", "claimed") \/ Goes(p, "handshake", "overflow")
      BY Zenon, <2>1 DEF ClaimSlot
    <3> QED
      BY Zenon, <2>1, <3>1, ClaimSlotToClaimedStep, ClaimSlotToOverflowStep
  <2>2. CASE Untrack(p)
    <3>1. Goes(p, "closing", "untracked") \/ Goes(p, "closingAuthed", "untrackedAuthed")
      BY Zenon, <2>2 DEF Untrack
    <3> QED
      BY Zenon, <2>2, <3>1, UntrackStep, UntrackAuthedStep
  <2>3. CASE Release(p)
    <3>1. Goes(p, "untracked", "gone") \/ Goes(p, "untrackedAuthed", "gone")
      BY Zenon, <2>3 DEF Release
    <3> QED
      BY Zenon, <2>3, <3>1, ReleaseStep, ReleaseAuthedStep
  <2>4. CASE HandshakeFails(p) \/ GiveBack(p) \/ DropPending(p) \/ StreamEnds(p)
    BY Zenon, <2>4, HandshakeFailsStep, GiveBackStep, DropPendingStep,
       StreamEndsStep
  <2> QED
    BY Zenon, <1>3, <2>1, <2>2, <2>3, <2>4 DEF Streamer
<1>4. CASE UNCHANGED rvars
  <2>1. \A S : At(S)' = At(S)
    BY Zenon, <1>4 DEF rvars, At
  <2> QED
    BY Zenon, <1>4, <2>1
       DEF rvars, SourceInv, SourceTypeOK, CountersCountThreads, RegistryExact,
       StreamsBounded, OneInHand, StopState, FreedAfterStreams, Freed
<1> QED
  BY Zenon, <1>1, <1>2, <1>3, <1>4 DEF SourceNext

(* Along every behaviour the counters of replication.c count its threads,  *)
(* conn_fds is the set of their sockets and both caps hold.                *)
THEOREM CountersAlwaysExact ==
    SourceSpec => [](CountersCountThreads /\ RegistryExact /\ StreamsBounded)
<1>1. SourceInv => CountersCountThreads /\ RegistryExact /\ StreamsBounded
  BY Zenon DEF SourceInv
<1> QED
  BY <1>1, InitSource, NextSource, PTL DEF SourceSpec

(* replication_source_stop frees the source, and main closes the store,    *)
(* after the last streamer, unless a slot was claimed between the two      *)
(* reads: the one interleaving the comment on the increment overlooks is   *)
(* the only one.                                                           *)
THEOREM StopWaitsForStreams == SourceSpec => []FreedAfterStreams
<1>1. SourceInv => FreedAfterStreams
  BY Zenon DEF SourceInv
<1> QED
  BY <1>1, InitSource, NextSource, PTL DEF SourceSpec

-----------------------------------------------------------------------------
(* Admission.                                                              *)

(* One tenant: its bucket b, the sv requests let through since f.          *)
Bucket == [level : Int, last : Int, since : Int]

InBounds(b, sv, f) ==
    /\ b \in Bucket /\ sv \in Nat /\ f \in Int /\ f <= clock
    /\ 0 <= b.level /\ b.level <= Burst
    /\ 0 <= b.last /\ b.last <= clock /\ b.since <= b.last /\ 0 <= b.since

(* What has been let through and what is left is paid for.                 *)
Paid(b, sv, f) ==
    sv > 0 => /\ b.last >= f - Delay /\ b.last # 0
              /\ sv * Unit + b.level <= Burst + (b.last - f + Delay) * qps

(* A bucket without a whole request holds all that came since the last     *)
(* admission.                                                              *)
Growing(b) == b.last # 0 => b.level >= Unit \/ b.level >= (b.last - b.since) * qps

Good(b, sv, f) == InBounds(b, sv, f) /\ Paid(b, sv, f) /\ Growing(b)

(* The inductive invariant.  RateBound and NeverLockedOut speak of now;    *)
(* Paid and Growing say the same of the bucket's own time, which is what a *)
(* request changes.                                                        *)
RatesInv ==
    /\ qps \in Nat \ {0} /\ clock \in Nat \ {0}
    /\ bucket \in [Names -> Bucket] /\ served \in [Names -> Nat] /\ first \in [Names -> Int]
    /\ \A n \in Names : Good(bucket[n], served[n], first[n])

-----------------------------------------------------------------------------
(* The products the rate brings in.                                        *)
LEMMA Products ==
    ASSUME NEW x \in Int, NEW y \in Int, NEW q \in Nat
    PROVE  /\ (x + y) * q = x * q + y * q
           /\ x * q \in Int /\ y * q \in Int
           /\ x >= 0 => x * q >= 0
           /\ x >= y => x * q >= y * q
OBVIOUS

(* A burst is at least one request.                                        *)
LEMMA BurstFits ==
    ASSUME qps \in Nat \ {0}
    PROVE  Burst \in Nat /\ Burst >= Unit /\ Unit \in Nat \ {0}
BY AdmissionAssumption DEF Burst

(* The refill keeps every bound, and moves the bucket's time to now.       *)
LEMMA RefillGood ==
    ASSUME qps \in Nat \ {0}, clock \in Nat, NEW b, NEW sv, NEW f, Good(b, sv, f),
           NEW now \in 1 .. clock, now >= clock - Delay
    PROVE  /\ Good(Refilled(b, now), sv, f)
           /\ Refilled(b, now).last >= now
<1> DEFINE r == Refilled(b, now)
<1>1. /\ Burst \in Nat /\ Burst >= Unit /\ Unit \in Nat \ {0} /\ Delay \in Nat /\ now \in Int
      /\ b \in Bucket /\ sv \in Nat /\ f \in Int
  BY BurstFits, AdmissionAssumption DEF Good, InBounds
<1>2. /\ b.level \in Int /\ b.last \in Int /\ b.since \in Int
      /\ 0 <= b.level /\ b.level <= Burst /\ 0 <= b.last /\ b.last <= clock
      /\ b.since <= b.last /\ 0 <= b.since /\ f <= clock
  BY Zenon, <1>1 DEF Good, InBounds, Bucket
<1>3. CASE b.last = 0
  <2>1. r = [level |-> Burst, last |-> now, since |-> now]
    BY Zenon, <1>1, <1>3 DEF Refilled, Bucket
  <2>2. InBounds(r, sv, f)
    BY <1>1, <1>2, <2>1 DEF InBounds, Bucket
  <2>3. sv = 0
    BY <1>1, <1>3 DEF Good, Paid
  <2>4. Paid(r, sv, f)
    BY <2>3 DEF Paid
  <2>5. Growing(r)
    BY <1>1, <2>1 DEF Growing
  <2> QED
    BY <1>1, <2>1, <2>2, <2>4, <2>5 DEF Good
<1>4. CASE b.last # 0 /\ now > b.last
  <2> DEFINE gain == (now - b.last) * qps
  <2>1. gain \in Int /\ gain >= 0
    BY <1>1, <1>2, <1>4, Products
  <2>2. r = [level |-> IF b.level + gain > Burst THEN Burst ELSE b.level + gain,
             last |-> now, since |-> b.since]
    BY Zenon, <1>1, <1>4 DEF Refilled, Bucket
  <2>3. /\ r \in Bucket /\ r.last = now /\ r.since = b.since
        /\ r.level <= Burst /\ r.level <= b.level + gain /\ r.level >= 0
        /\ r.level = Burst \/ r.level = b.level + gain
    BY <1>1, <1>2, <2>1, <2>2 DEF Bucket
  <2> HIDE DEF r, gain
  <2>4. InBounds(r, sv, f)
    BY <1>1, <1>2, <1>4, <2>3 DEF InBounds, Bucket
  <2>5. Paid(r, sv, f)
    <3>1. SUFFICES ASSUME sv > 0
                   PROVE  sv * Unit + r.level <= Burst + (now - f + Delay) * qps /\ now >= f - Delay
      BY <1>1, <2>3 DEF Paid
    <3>2. sv * Unit + b.level <= Burst + (b.last - f + Delay) * qps
      BY Zenon, <3>1 DEF Good, Paid
    <3>3. (now - f + Delay) * qps = (b.last - f + Delay) * qps + (now - b.last) * qps
      <4>1. now - f + Delay = (b.last - f + Delay) + (now - b.last)
        BY <1>1, <1>2
      <4> QED
        BY <4>1, <1>1, <1>2, Products
    <3>4. sv * Unit \in Int /\ (b.last - f + Delay) * qps \in Int
      BY <1>1, <1>2, Products
    <3>5. (now - f + Delay) * qps = (b.last - f + Delay) * qps + gain
      BY Zenon, <3>3 DEF gain
    <3> QED
      BY <1>1, <1>2, <2>1, <2>3, <3>2, <3>4, <3>5
  <2>6. Growing(r)
    <3>1. b.level >= Unit \/ b.level >= (b.last - b.since) * qps
      BY Zenon, <1>4 DEF Good, Growing
    <3>2. (now - b.since) * qps = (b.last - b.since) * qps + (now - b.last) * qps
      <4>1. now - b.since = (b.last - b.since) + (now - b.last)
        BY <1>1, <1>2
      <4> QED
        BY <4>1, <1>1, <1>2, Products
    <3>3. (b.last - b.since) * qps \in Int
      BY <1>1, <1>2, Products
    <3>4. (now - b.since) * qps = (b.last - b.since) * qps + gain
      BY Zenon, <3>2 DEF gain
    <3> QED
      BY <1>1, <1>2, <2>1, <2>3, <3>1, <3>3, <3>4 DEF Growing
  <2>7. Good(r, sv, f) /\ r.last >= now
    BY <1>1, <2>3, <2>4, <2>5, <2>6 DEF Good
  <2> QED
    BY Zenon, <2>7 DEF r
<1>5. CASE b.last # 0 /\ ~(now > b.last)
  <2>1. r = b
    BY Zenon, <1>5 DEF Refilled
  <2> QED
    BY <1>1, <1>2, <1>5, <2>1
<1> QED
  BY Zenon, <1>3, <1>4, <1>5

(* Spending one request keeps what was let through paid for, and starts    *)
(* the bucket's wait.                                                      *)
LEMMA SpentGood ==
    ASSUME qps \in Nat \ {0}, clock \in Nat, NEW b, NEW sv, NEW f, Good(b, sv, f), Spends(b),
           b.last # 0, b.last >= f - Delay
    PROVE  Good(Spent(b), sv + 1, f)
<1> DEFINE s == Spent(b)
<1>1. /\ Burst \in Nat /\ Burst >= Unit /\ Unit \in Nat \ {0} /\ Delay \in Nat
      /\ b \in Bucket /\ sv \in Nat /\ f \in Int
  BY Zenon, BurstFits, AdmissionAssumption DEF Good, InBounds
<1>2. /\ b.level \in Int /\ b.last \in Int /\ b.since \in Int
      /\ b.level >= Unit /\ b.level <= Burst /\ 0 <= b.last /\ b.last <= clock /\ f <= clock
  BY Zenon, <1>1 DEF Good, InBounds, Bucket, Spends
<1>3. s \in Bucket /\ s.level = b.level - Unit /\ s.last = b.last /\ s.since = b.last
  <2>1. b.level - Unit \in Int
    BY <1>1, <1>2
  <2>2. s = [level |-> b.level - Unit, last |-> b.last, since |-> b.last]
    BY Zenon DEF Spent
  <2> QED
    BY <1>2, <2>1, <2>2 DEF Bucket
<1> HIDE DEF s
<1>4. InBounds(s, sv + 1, f)
  BY <1>1, <1>2, <1>3 DEF InBounds
<1>5. Paid(s, sv + 1, f)
  <2>1. (sv + 1) * Unit = sv * Unit + Unit /\ sv * Unit \in Int
    BY <1>1
  <2>2. (b.last - f + Delay) * qps \in Int /\ (b.last - f + Delay) * qps >= 0
    BY <1>1, <1>2, Products
  <2>3. sv * Unit + b.level <= Burst + (b.last - f + Delay) * qps
    <3>1. CASE sv = 0
      BY <3>1, <1>1, <1>2, <2>2
    <3>2. CASE sv > 0
      BY Zenon, <3>2 DEF Good, Paid
    <3> QED
      BY <3>1, <3>2, <1>1
  <2> QED
    BY <1>1, <1>2, <1>3, <2>1, <2>2, <2>3 DEF Paid
<1>6. Growing(s)
  <2>1. (b.last - b.last) * qps = 0
    BY <1>2
  <2> QED
    BY <1>1, <1>2, <1>3, <2>1 DEF Growing
<1>7. Good(s, sv + 1, f)
  BY Zenon, <1>4, <1>5, <1>6 DEF Good
<1> QED
  BY Zenon, <1>7 DEF s

(* A server just started owes and holds nothing.                           *)
LEMMA UnseenGood ==
    ASSUME qps \in Nat \ {0}, clock \in Nat, NEW f \in Int, f <= clock
    PROVE  Good(Unseen, 0, f) /\ Unseen \in Bucket
BY BurstFits DEF Good, InBounds, Paid, Growing, Unseen, Bucket

-----------------------------------------------------------------------------
(* The invariant holds when the server starts.                             *)
LEMMA InitRates == AdmissionInit => RatesInv
<1> SUFFICES ASSUME AdmissionInit PROVE RatesInv
  BY Zenon
<1>1. /\ qps \in Nat \ {0} /\ clock = 1
      /\ bucket = [n \in Names |-> Unseen]
      /\ served = [n \in Names |-> 0] /\ first = [n \in Names |-> 1]
  BY Zenon, AdmissionAssumption DEF AdmissionInit, Started
<1>2. Good(Unseen, 0, 1) /\ Unseen \in Bucket
  BY <1>1, UnseenGood
<1> QED
  BY <1>1, <1>2 DEF RatesInv

(* Time passes, and windows open.                                          *)
LEMMA TickStep == RatesInv /\ Tick => RatesInv'
<1> SUFFICES ASSUME RatesInv, Tick PROVE RatesInv'
  BY Zenon
<1>1. qps' = qps /\ bucket' = bucket /\ clock' = clock + 1 /\ clock \in Nat \ {0} /\ qps \in Nat \ {0}
  BY Zenon DEF RatesInv, Tick
<1>2. PICK w \in SUBSET Names :
          /\ served' = [n \in Names |-> IF n \in w THEN 0 ELSE served[n]]
          /\ first' = [n \in Names |-> IF n \in w THEN clock + 1 ELSE first[n]]
  BY Zenon DEF Tick
<1>3. served' \in [Names -> Nat] /\ first' \in [Names -> Int]
  BY <1>1, <1>2 DEF RatesInv
<1>4. ASSUME NEW n \in Names PROVE Good(bucket[n], served[n], first[n])'
  <2>1. InBounds(bucket[n], served[n], first[n]) /\ Paid(bucket[n], served[n], first[n]) /\ Growing(bucket[n])
    BY Zenon DEF RatesInv, Good
  <2>2. \/ served'[n] = served[n] /\ first'[n] = first[n]
        \/ served'[n] = 0 /\ first'[n] = clock + 1
    BY Zenon, <1>2
  <2>3. InBounds(bucket[n], served[n], first[n])'
    <3>1. Burst' = Burst
      BY Zenon, <1>1 DEF Burst
    <3>2. /\ bucket[n].level \in Int /\ bucket[n].last \in Int /\ bucket[n].since \in Int
          /\ first[n] \in Int /\ served[n] \in Nat
      BY Zenon, <2>1 DEF InBounds, Bucket
    <3> QED
      BY <1>1, <2>1, <2>2, <3>1, <3>2 DEF InBounds
  <2>4. Paid(bucket[n], served[n], first[n])'
    <3>1. CASE served'[n] = 0
      BY <3>1 DEF Paid
    <3>2. CASE served'[n] = served[n] /\ first'[n] = first[n]
      BY Zenon, <1>1, <2>1, <3>2 DEF Paid, Burst
    <3> QED
      BY Zenon, <2>2, <3>1, <3>2
  <2>5. Growing(bucket[n])'
    BY Zenon, <1>1, <2>1 DEF Growing
  <2> QED
    BY Zenon, <2>3, <2>4, <2>5 DEF Good
<1> QED
  BY <1>1, <1>3, <1>4 DEF RatesInv

(* A restart forgets every bucket and opens every window.                  *)
LEMMA RestartStep == RatesInv /\ Restart => RatesInv'
<1> SUFFICES ASSUME RatesInv, Restart PROVE RatesInv'
  BY Zenon
<1>1. /\ qps' = qps /\ clock' = clock /\ clock \in Nat \ {0} /\ qps \in Nat \ {0}
      /\ bucket' = [n \in Names |-> Unseen]
      /\ served' = [n \in Names |-> 0] /\ first' = [n \in Names |-> clock]
  BY Zenon DEF RatesInv, Restart
<1>2. Good(Unseen, 0, clock) /\ Unseen \in Bucket
  BY <1>1, UnseenGood
<1>3. /\ bucket' \in [Names -> Bucket] /\ served' \in [Names -> Nat] /\ first' \in [Names -> Int]
  BY <1>1, <1>2
<1>4. ASSUME NEW n \in Names PROVE Good(bucket[n], served[n], first[n])'
  <2>1. bucket'[n] = Unseen /\ served'[n] = 0 /\ first'[n] = clock
    BY Zenon, <1>1
  <2> QED
    BY Zenon, <1>1, <1>2, <2>1 DEF Good, InBounds, Paid, Growing, Burst
<1> QED
  BY Zenon, <1>1, <1>3, <1>4 DEF RatesInv

(* A request refills its tenant's bucket and spends from it.               *)
LEMMA RequestStep ==
    ASSUME RatesInv, NEW op, NEW d, NEW now \in 1 .. clock, now >= clock - Delay, Request(op, d, now)
    PROVE  RatesInv'
<1> DEFINE t == Identity(d).ns
           b == Refilled(bucket[t], now)
<1>1. /\ bucket' = [bucket EXCEPT ![t] = IF Spends(b) THEN Spent(b) ELSE b]
      /\ served' = [served EXCEPT ![t] = IF Spends(b) THEN served[t] + 1 ELSE served[t]]
      /\ first' = first /\ qps' = qps /\ clock' = clock
  BY Zenon DEF Request
<1>2. /\ qps \in Nat \ {0} /\ clock \in Nat \ {0} /\ bucket \in [Names -> Bucket]
      /\ served \in [Names -> Nat] /\ first \in [Names -> Int]
      /\ \A n \in Names : Good(bucket[n], served[n], first[n])
  BY Zenon DEF RatesInv
<1> HIDE DEF t, b
<1>3. t \in Names => LET c == IF Spends(b) THEN Spent(b) ELSE b
                         k == IF Spends(b) THEN served[t] + 1 ELSE served[t]
                     IN  Good(c, k, first[t]) /\ c \in Bucket /\ k \in Nat
  <2> SUFFICES ASSUME t \in Names
               PROVE  IF Spends(b)
                      THEN Good(Spent(b), served[t] + 1, first[t]) /\ Spent(b) \in Bucket /\ served[t] + 1 \in Nat
                      ELSE Good(b, served[t], first[t]) /\ b \in Bucket /\ served[t] \in Nat
    BY Zenon
  <2>1. Good(b, served[t], first[t]) /\ b.last >= now
    BY Zenon, <1>2, RefillGood DEF b
  <2>2. /\ b \in Bucket /\ served[t] \in Nat /\ first[t] \in Int /\ b.last \in Int
        /\ first[t] <= clock /\ Delay \in Nat
    BY Zenon, <2>1, AdmissionAssumption DEF Good, InBounds, Bucket
  <2>3. b.last # 0 /\ b.last >= first[t] - Delay
    BY <1>2, <2>1, <2>2
  <2>4. Spends(b) => Good(Spent(b), served[t] + 1, first[t])
    BY Zenon, <1>2, <2>1, <2>3, SpentGood
  <2>5. Spends(b) => Spent(b) \in Bucket
    BY Zenon, <2>4 DEF Good, InBounds
  <2> QED
    BY <2>1, <2>2, <2>4, <2>5
<1>4. bucket' \in [Names -> Bucket] /\ served' \in [Names -> Nat]
  BY Zenon, <1>1, <1>2, <1>3
<1>5. ASSUME NEW n \in Names PROVE Good(bucket'[n], served'[n], first[n])
  BY Zenon, <1>1, <1>2, <1>3
<1>6. ASSUME NEW n \in Names PROVE Good(bucket[n], served[n], first[n])'
  <2>1. Good(bucket'[n], served'[n], first[n])
    BY Zenon, <1>5
  <2> QED
    BY Zenon, <1>1, <2>1 DEF Good, InBounds, Paid, Growing, Burst
<1> QED
  BY Zenon, <1>1, <1>2, <1>4, <1>6 DEF RatesInv

(* Steps that touch neither the clock, the rate nor the buckets.           *)
LEMMA QuietStep == RatesInv /\ UNCHANGED <<qps, clock, bucket, served, first>> => RatesInv'
BY Zenon DEF RatesInv, Good, InBounds, Paid, Growing, Burst

(* Every step keeps the invariant.                                         *)
LEMMA NextRates == RatesInv /\ [AdmissionNext]_avars => RatesInv'
<1> SUFFICES ASSUME RatesInv, [AdmissionNext]_avars PROVE RatesInv'
  BY Zenon
<1>1. CASE Tick
  BY Zenon, <1>1, TickStep
<1>2. CASE Restart
  BY Zenon, <1>2, RestartStep
<1>3. ASSUME NEW op \in Asked, NEW d \in Secrets, NEW now \in 1 .. clock,
             now >= clock - Delay, Request(op, d, now)
      PROVE  RatesInv'
  BY Zenon, <1>3, RequestStep
<1>4. ASSUME NEW c \in Secrets, NEW d \in Secrets, TokenRevoke(c, d) PROVE RatesInv'
  BY Zenon, <1>4, QuietStep DEF TokenRevoke
<1>5. ASSUME NEW c \in Secrets, NEW d \in Secrets, NEW ns \in Names \cup {NoNs},
             NEW scope \in {"ro", "rw", "admin"}, TokenAdd(c, d, ns, scope)
      PROVE  RatesInv'
  BY Zenon, <1>5, QuietStep DEF TokenAdd
<1>6. CASE UNCHANGED avars
  BY Zenon, <1>6, QuietStep DEF avars
<1> QED
  BY Zenon, <1>1, <1>2, <1>3, <1>4, <1>5, <1>6 DEF AdmissionNext

(* The invariant bounds what a window lets through.                        *)
LEMMA BoundedNow == RatesInv => RateBound
<1> SUFFICES ASSUME RatesInv, NEW n \in Names
             PROVE  served[n] * Unit <= Burst + (clock - first[n] + Delay) * qps
  BY Zenon DEF RateBound
<1> DEFINE b == bucket[n]
<1>1. /\ qps \in Nat \ {0} /\ clock \in Nat /\ Good(b, served[n], first[n])
  BY Zenon DEF RatesInv
<1>2. /\ Burst \in Nat /\ Unit \in Nat /\ Delay \in Nat
      /\ served[n] \in Nat /\ first[n] \in Int /\ first[n] <= clock
      /\ b.level \in Int /\ b.last \in Int /\ 0 <= b.level /\ b.last <= clock
  BY Zenon, <1>1, BurstFits, AdmissionAssumption DEF Good, InBounds, Bucket
<1> HIDE DEF b
<1>3. /\ (clock - first[n] + Delay) * qps \in Int /\ (clock - first[n] + Delay) * qps >= 0
      /\ (b.last - first[n] + Delay) * qps \in Int
      /\ (clock - first[n] + Delay) * qps >= (b.last - first[n] + Delay) * qps
  <2>1. /\ clock - first[n] + Delay \in Int /\ clock - first[n] + Delay >= 0
        /\ b.last - first[n] + Delay \in Int /\ qps \in Nat
        /\ clock - first[n] + Delay >= b.last - first[n] + Delay
    BY <1>1, <1>2
  <2> QED
    BY Zenon, <2>1, Products
<1>4. CASE served[n] = 0
  BY <1>2, <1>3, <1>4
<1>5. CASE served[n] > 0
  <2>1. served[n] * Unit + b.level <= Burst + (b.last - first[n] + Delay) * qps
    BY Zenon, <1>1, <1>5 DEF Good, Paid
  <2>2. served[n] * Unit \in Int
    BY <1>2
  <2> QED
    BY <1>2, <1>3, <2>1, <2>2
<1> QED
  BY <1>2, <1>4, <1>5

(* The invariant serves whoever waited long enough.                        *)
LEMMA ServedAfterWait == RatesInv => NeverLockedOut
<1> SUFFICES ASSUME RatesInv, NEW n \in Names, bucket[n].last # 0, NEW w \in 1 .. Unit, w * qps >= Unit
             PROVE  Spends(Refilled(bucket[n], bucket[n].since + w))
  BY Zenon DEF NeverLockedOut
<1> DEFINE b == bucket[n]
           now == b.since + w
<1>1. qps \in Nat \ {0} /\ Good(b, served[n], first[n])
  BY Zenon DEF RatesInv
<1>2. /\ Burst \in Nat /\ Unit \in Nat \ {0} /\ Burst >= Unit /\ w \in Nat
      /\ b \in Bucket /\ b.level \in Int /\ b.last \in Int /\ b.since \in Int
      /\ 0 <= b.level /\ b.since <= b.last
  BY <1>1, BurstFits DEF Good, InBounds, Bucket
<1>3. b.level >= Unit \/ b.level >= (b.last - b.since) * qps
  BY Zenon, <1>1 DEF Good, Growing
<1>4. /\ (b.last - b.since) * qps \in Int /\ (now - b.last) * qps \in Int /\ w * qps \in Int
      /\ w * qps = (b.last - b.since) * qps + (now - b.last) * qps
      /\ now > b.last => (now - b.last) * qps >= 0
  <2>1. /\ w = (b.last - b.since) + (now - b.last) /\ w \in Int /\ qps \in Nat
        /\ b.last - b.since \in Int /\ now - b.last \in Int
        /\ now > b.last => now - b.last >= 0
    BY <1>1, <1>2
  <2> HIDE DEF now
  <2>2. (now - b.last) * qps \in Int /\ w * qps \in Int /\ (b.last - b.since) * qps \in Int
    BY ZenonT(30), <2>1, Products
  <2>3. w * qps = (b.last - b.since) * qps + (now - b.last) * qps
    BY Zenon, <2>1, Products
  <2>4. now > b.last => (now - b.last) * qps >= 0
    BY Zenon, <2>1, Products
  <2> QED
    BY Zenon, <2>2, <2>3, <2>4
<1>5. CASE now > b.last
  <2>1. Refilled(b, now).level = IF b.level + (now - b.last) * qps > Burst THEN Burst
                                 ELSE b.level + (now - b.last) * qps
    BY Zenon, <1>2, <1>5 DEF Refilled, Bucket
  <2>2. b.level + (now - b.last) * qps >= Unit
    BY <1>2, <1>3, <1>4, <1>5
  <2> QED
    BY Zenon, <1>2, <2>1, <2>2 DEF Spends
<1>6. CASE ~(now > b.last)
  <2>1. Refilled(b, now) = b
    BY Zenon, <1>6 DEF Refilled
  <2>2. (b.last - b.since) * qps >= w * qps
    <3>1. /\ b.last - b.since \in Int /\ w \in Int /\ qps \in Nat
          /\ b.last - b.since >= w
      BY <1>1, <1>2, <1>6
    <3> QED
      BY Zenon, <3>1, Products
  <2>3. b.level >= Unit
    BY <1>2, <1>3, <1>4, <2>2
  <2> QED
    BY Zenon, <2>1, <2>3 DEF Spends
<1> QED
  BY Zenon, <1>5, <1>6

(* The rate limit holds: tenant_rate_allow lets through, in any window, no *)
(* more than a burst and the rate's share, for every rate, whatever the    *)
(* delays between reading the time and taking the lock.                    *)
THEOREM RateLimitHolds == AdmissionSpec => []RateBound
BY InitRates, NextRates, BoundedNow, PTL DEF AdmissionSpec

(* The rate limit never shuts a tenant out: after the wait its rate asks   *)
(* for, tenant_rate_allow says yes, for every rate however low.            *)
THEOREM RateLimitOpens == AdmissionSpec => []NeverLockedOut
BY InitRates, NextRates, ServedAfterWait, PTL DEF AdmissionSpec
=============================================================================
