--------------------------- MODULE WorkingBuffer ---------------------------
(***************************************************************************)
(* Working memory: one ring of record slots per session, filled by the     *)
(* insert of a working record, emptied by promote, by the eviction of the  *)
(* oldest record and by expiry (found on access, or by the maintenance     *)
(* sweep).                                                                 *)
(*                                                                         *)
(* A store-wide mutex makes every entry point atomic.  A request may make  *)
(* two calls with the mutex free in between: insert adds and then gets,    *)
(* promote takes and then inserts into the log.  The time an operation     *)
(* uses is read before the mutex is taken, so it may be any earlier one.   *)
(* A session that does not exist behaves as one that is empty.             *)
(***************************************************************************)
EXTENDS Naturals

CONSTANTS
    Workers,        \* the io threads
    Sessions,
    Namespaces,     \* the tenants of the auth tokens
    NoNs,           \* a caller, or a record, without a namespace
    Capacity,       \* --working-capacity
    Ttls,           \* the ttl_ms of the requests, 0 for none given
    DefaultTtl,     \* --default-ttl-ms
    MaxTime,        \* UINT64_MAX, in the model's clock
    MaxAdds         \* bound: records added to a session

ASSUME WorkingAssumption ==
    /\ Capacity \in Nat \ {0}
    /\ Ttls \subseteq Nat
    /\ DefaultTtl \in Nat \ {0}
    /\ MaxTime \in Nat \ {0}
    /\ MaxAdds \in Nat

Ids == 1 .. MaxAdds
Slots == 0 .. Capacity - 1
Times == 0 .. MaxTime - 1
Owners == Namespaces \cup {NoNs}

Record == [id : Ids, exp : 1 .. MaxTime, owner : Owners]
Empty == [id |-> 0, exp |-> 0, owner |-> NoNs]

Free == [pc |-> "free"]
Job == [pc : {"added", "taken"}, s : Sessions, id : Ids, now : Times]

VARIABLES
    slots,      \* Session.slots
    head,       \* Session.head
    nextId,     \* Session.next_id
    job,        \* what each worker has in hand between two calls
    clock,      \* db_now_ms()
    due,        \* history: when each record added is due to expire
    taken,      \* history: the records working_store_take handed out
    persisted,  \* the promoted records that reached the log
    lost        \* the taken records whose insert into the log failed

vars == <<slots, head, nextId, job, clock, due, taken, persisted, lost>>

Init ==
    /\ slots = [s \in Sessions |-> [k \in Slots |-> Empty]]
    /\ head = [s \in Sessions |-> 0]
    /\ nextId = [s \in Sessions |-> 1]
    /\ job = [w \in Workers |-> Free]
    /\ clock = 0
    /\ due = [s \in Sessions |-> [i \in Ids |-> 0]]
    /\ taken = {}
    /\ persisted = {}
    /\ lost = {}

-----------------------------------------------------------------------------
Tick ==
    /\ clock + 1 \in Times
    /\ clock' = clock + 1
    /\ UNCHANGED <<slots, head, nextId, job, due, taken, persisted, lost>>

Ttl(t) == IF t = 0 THEN DefaultTtl ELSE t

(* Mutant: the sum wraps at the width of the clock.                        *)
ExpiresAt_Wraps(now, t) == (now + Ttl(t)) % MaxTime

(* A time to live that would overflow the clock saturates.                 *)
ExpiresAt(now, t) ==
    IF Ttl(t) > MaxTime - now THEN MaxTime ELSE now + Ttl(t)

(* Mutant: the ring wraps one slot early.                                  *)
Advance_Early(h) == IF h + 2 >= Capacity THEN 0 ELSE h + 1

(* The next write position.                                                *)
Advance(h) == (h + 1) % Capacity

(* working_store_add, the first half of the insert of a working record:    *)
(* the slot at head is overwritten, whatever it holds.                     *)
Add(w, s, t, o, now) ==
    /\ job[w] = Free
    /\ nextId[s] \in Ids
    /\ slots' = [slots EXCEPT ![s][head[s]] =
                   [id |-> nextId[s], exp |-> ExpiresAt(now, t), owner |-> o]]
    /\ head' = [head EXCEPT ![s] = Advance(head[s])]
    /\ nextId' = [nextId EXCEPT ![s] = @ + 1]
    /\ job' = [job EXCEPT ![w] =
                 [pc |-> "added", s |-> s, id |-> nextId[s], now |-> now]]
    /\ due' = [due EXCEPT ![s][nextId[s]] = now + Ttl(t)]
    /\ UNCHANGED <<clock, taken, persisted, lost>>

(* Mutant: a record is expired one tick early.                             *)
Expired_Early(r, now) == r.id # 0 /\ now + 1 >= r.exp

(* The test of find_slot and of the sweep.                                 *)
Expired(r, now) == r.id # 0 /\ now >= r.exp

(* find_slot returns slot k ...                                            *)
Finds(s, i, now, k) == slots[s][k].id = i /\ ~Expired(slots[s][k], now)

(* ... after freeing every expired record it passed.                       *)
Passed(s, i, now) ==
    [k \in Slots |->
       IF Expired(slots[s][k], now) /\ ~\E j \in Slots : j < k /\ Finds(s, i, now, j)
       THEN Empty ELSE slots[s][k]]

(* working_store_get, the second half of the insert.  The reply is the     *)
(* record, or INTERNAL when it is gone again.                              *)
Get(w) ==
    /\ job[w] # Free
    /\ job[w].pc = "added"
    /\ slots' = [slots EXCEPT ![job[w].s] =
                   Passed(job[w].s, job[w].id, job[w].now)]
    /\ job' = [job EXCEPT ![w] = Free]
    /\ UNCHANGED <<head, nextId, clock, due, taken, persisted, lost>>

(* A caller without a namespace may take any record.                       *)
MayTake(ns, r) == ns = NoNs \/ r.owner = ns

(* Mutant: the record is copied out and its slot keeps it.                 *)
TakeSlot_Copies(s, i, now, k) == Passed(s, i, now)

(* The slot the record is moved out of is empty.                           *)
TakeSlot(s, i, now, k) == [Passed(s, i, now) EXCEPT ![k] = Empty]

(* working_store_take, the first half of promote.                          *)
Take(w, s, i, ns, now) ==
    /\ job[w] = Free
    /\ \E k \in Slots :
         /\ Finds(s, i, now, k)
         /\ MayTake(ns, slots[s][k])
         /\ slots' = [slots EXCEPT ![s] = TakeSlot(s, i, now, k)]
    /\ taken' = taken \cup {<<s, i>>}
    /\ job' = [job EXCEPT ![w] = [pc |-> "taken", s |-> s, id |-> i, now |-> 0]]
    /\ UNCHANGED <<head, nextId, clock, due, persisted, lost>>

(* working_store_take finds nothing, or a record of another tenant.        *)
TakeMisses(w, s, i, ns, now) ==
    /\ job[w] = Free
    /\ \A k \in Slots : Finds(s, i, now, k) => ~MayTake(ns, slots[s][k])
    /\ slots' = [slots EXCEPT ![s] = Passed(s, i, now)]
    /\ UNCHANGED <<head, nextId, job, clock, due, taken, persisted, lost>>

(* qe_insert of the taken record, and its failures: the in-RAM index is    *)
(* full, the tenant's quota is reached, the log cannot be written.         *)
PromoteInsert(w) ==
    /\ job[w] # Free
    /\ job[w].pc = "taken"
    /\ persisted' = persisted \cup {<<job[w].s, job[w].id>>}
    /\ job' = [job EXCEPT ![w] = Free]
    /\ UNCHANGED <<slots, head, nextId, clock, due, taken, lost>>

PromoteFails(w) ==
    /\ job[w] # Free
    /\ job[w].pc = "taken"
    /\ lost' = lost \cup {<<job[w].s, job[w].id>>}
    /\ job' = [job EXCEPT ![w] = Free]
    /\ UNCHANGED <<slots, head, nextId, clock, due, taken, persisted>>

(* Mutant: the sweep starts at slot 1.                                     *)
Sweep_SkipsFirst(now) ==
    /\ slots' = [s \in Sessions |-> [k \in Slots |->
                   IF k > 0 /\ Expired(slots[s][k], now) THEN Empty ELSE slots[s][k]]]
    /\ UNCHANGED <<head, nextId, job, clock, due, taken, persisted, lost>>

(* working_store_sweep, by the maintenance thread.                         *)
Sweep(now) ==
    /\ slots' = [s \in Sessions |-> [k \in Slots |->
                   IF Expired(slots[s][k], now) THEN Empty ELSE slots[s][k]]]
    /\ UNCHANGED <<head, nextId, job, clock, due, taken, persisted, lost>>

-----------------------------------------------------------------------------
Next ==
    \/ Tick
    \/ \E now \in 0 .. clock : Sweep(now)
    \/ \E w \in Workers, s \in Sessions, now \in 0 .. clock :
         \/ \E t \in Ttls, o \in Owners : Add(w, s, t, o, now)
         \/ \E i \in Ids, ns \in Owners :
              Take(w, s, i, ns, now) \/ TakeMisses(w, s, i, ns, now)
    \/ \E w \in Workers : Get(w) \/ PromoteInsert(w) \/ PromoteFails(w)

Spec == Init /\ [][Next]_vars

(* The maintenance loop keeps sweeping, each time at the current time.     *)
FairSpec == Spec /\ WF_vars(Sweep(clock))

-----------------------------------------------------------------------------
(* The type invariant.                                                     *)
TypeOK ==
    /\ slots \in [Sessions -> [Slots -> Record \cup {Empty}]]
    /\ head \in [Sessions -> Slots]
    /\ nextId \in [Sessions -> 1 .. MaxAdds + 1]
    /\ job \in [Workers -> Job \cup {Free}]
    /\ clock \in Times
    /\ due \in [Sessions -> [Ids -> Nat]]
    /\ taken \subseteq Sessions \X Ids
    /\ persisted \subseteq Sessions \X Ids
    /\ lost \subseteq Sessions \X Ids

(* How many records ago slot k was written, if it was.                     *)
Age(s, k) == IF k < head[s] THEN head[s] - k ELSE head[s] + Capacity - k

(* The ring is in order: slot k holds the record added Age(k) adds ago, or *)
(* none.  So what working_store_add overwrites at head is always the       *)
(* oldest record, whatever gets, takes and sweeps have emptied.            *)
RingOrder ==
    \A s \in Sessions, k \in Slots :
        slots[s][k].id # 0 => slots[s][k].id + Age(s, k) = nextId[s]

(* A record stays until it is evicted by Capacity later adds of its        *)
(* session, taken by a promote or due: no expiry arithmetic, stale time or *)
(* scan of find_slot and the sweep frees it earlier.                       *)
Retained ==
    \A s \in Sessions, i \in Ids :
        /\ i < nextId[s] /\ nextId[s] - i <= Capacity
        /\ <<s, i>> \notin taken
        /\ clock < due[s][i]
        => \E k \in Slots : slots[s][k].id = i

InHand(w) == IF job[w] = Free \/ job[w].pc # "taken" THEN {} ELSE {<<job[w].s, job[w].id>>}

(* working_store_take hands a record out once: what a promote has in hand, *)
(* what has reached the log, what was lost and what is still in the ring   *)
(* are different records.                                                  *)
PromotedOnce ==
    /\ \A s \in Sessions, k \in Slots : <<s, slots[s][k].id>> \notin taken
    /\ \A w \in Workers : InHand(w) \cap (persisted \cup lost) = {}
    /\ \A v, w \in Workers : v # w => InHand(v) \cap InHand(w) = {}
    /\ persisted \cap lost = {}

(* A record past its time to live is removed even if nobody asks for it:   *)
(* "removed lazily on access and by working_store_sweep()".                *)
EventuallySwept ==
    \A s \in Sessions, k \in Slots :
        Expired(slots[s][k], clock) ~> ~Expired(slots[s][k], clock)
=============================================================================
