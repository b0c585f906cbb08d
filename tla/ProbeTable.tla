----------------------------- MODULE ProbeTable -----------------------------
(***************************************************************************)
(* The open-addressed tables of src/src/storage: linear probing from       *)
(* mix64(key) over a power of two of slots.  Six tables stand in the code, *)
(* each with its own copy of the algorithm:                                *)
(*   usage, docs, targets, facts  leave a tombstone where a key was, and   *)
(*            claim the first tombstone of a probe for a new key;          *)
(*   rc       slides the rest of the probe chain back over a deleted key   *)
(*            (also the maps of the dense array and of the graph);         *)
(*   hash     never gives a slot back: a deleted id keeps its entry.       *)
(* An allocation that fails leaves a table as it was, and is left out.     *)
(***************************************************************************)
EXTENDS Integers, Sequences, FiniteSets, FiniteSetsExt

CONSTANTS
    TKeys, TVals,
    Hash,       \* key |-> mix64 of it
    FirstCap,   \* bound: slots of a new table (64, 256 and 1024 in the code)
    MaxCap,     \* bound: slots a table grows to
    Tables      \* the tables looked at

ASSUME ProbeTableAssumption ==
    /\ Hash \in [TKeys -> Nat] /\ 0 \notin TVals
    /\ FirstCap \in Nat \ {0, 1} /\ MaxCap \in Nat
    /\ Tables \subseteq {"usage", "docs", "targets", "facts", "rc", "hash"}

VARIABLES
    table,      \* which of the six
    tab,        \* its cap, slots, live and used
    call        \* the last call

tvars == <<table, tab, call>>

EmptySlot == [st |-> "empty", key |-> 0, val |-> 0]
DeadSlot == [st |-> "dead", key |-> 0, val |-> 0]
LiveSlot(k, v) == [st |-> "live", key |-> k, val |-> v]
Blank(cap) == [cap |-> cap, slots |-> [i \in 0 .. cap - 1 |-> EmptySlot],
               live |-> 0, used |-> 0]

Home(k, t) == Hash[k] % t.cap
Place(k, p, t) == (Home(k, t) + p) % t.cap
At(k, p, t) == t.slots[Place(k, p, t)]

(* The positions of k's probe where it is found: a slot never used ends it.*)
Found(t, k) ==
    {p \in 0 .. t.cap - 1 : /\ At(k, p, t).st = "live" /\ At(k, p, t).key = k
                            /\ \A q \in 0 .. p - 1 : At(k, q, t).st # "empty"}
Has(t, k) == t.cap > 0 /\ Found(t, k) # {}
SlotOf(t, k) == Place(k, Min(Found(t, k)), t)

(* grow: the live slots, in array order, into a table twice the size.      *)
Rehash(acc, s) ==
    LET p == Min({q \in 0 .. acc.cap - 1 : At(s.key, q, acc).st # "live"})
    IN IF s.st # "live" THEN acc ELSE [acc EXCEPT !.slots[Place(s.key, p, acc)] = s]
GrowTo(t, cap) ==
    LET Filled[n \in 0 .. t.cap] ==
            IF n = 0 THEN Blank(cap)
            ELSE LET before == Filled[n - 1] IN Rehash(before, t.slots[n - 1])
    IN [Filled[t.cap] EXCEPT !.live = t.live, !.used = t.live]
Grow(t) == GrowTo(t, IF t.cap = 0 THEN FirstCap ELSE 2 * t.cap)

(* Mutant: the load factor looks at the live slots only.                   *)
RoomForLive(t) == IF t.cap = 0 \/ (t.live + 1) * 4 >= t.cap * 3 THEN Grow(t) ELSE t
Room(t) == IF t.cap = 0 \/ (t.used + 1) * 4 >= t.cap * 3 THEN Grow(t) ELSE t

(* A new key takes the first tombstone before the end of its probe; a      *)
(* probe without an end finds the table full.                              *)
Claim(t, k, v) ==
    LET ends == {p \in 0 .. t.cap - 1 : At(k, p, t).st = "empty"}
        dead == {p \in 0 .. t.cap - 1 : At(k, p, t).st = "dead" /\ p < Min(ends)}
    IN IF ends = {} THEN t
       ELSE [t EXCEPT !.slots[Place(k, IF dead # {} THEN Min(dead) ELSE Min(ends), t)]
                          = LiveSlot(k, v),
                      !.live = @ + 1, !.used = IF dead # {} THEN @ ELSE @ + 1]

(* usage_index_track looks the key up before it makes room.                *)
UsagePut(t, k, v) == IF Has(t, k) THEN t ELSE Claim(Room(t), k, v)

(* doc_put makes room first, and keeps a key that is there.                *)
DocPut(t, k, v) == LET r == Room(t) IN IF Has(r, k) THEN r ELSE Claim(r, k, v)

(* Mutant: the first free slot is taken before the rest of the probe is    *)
(* looked at.                                                              *)
TgtPutEager(t, k, v) ==
    LET r == Room(t)
        free == {p \in 0 .. r.cap - 1 : At(k, p, r).st # "live"}
    IN IF Has(r, k) /\ Min(Found(r, k)) < Min(free)
       THEN [r EXCEPT !.slots[SlotOf(r, k)].val = v] ELSE Claim(r, k, v)

(* tgt_put and tbl_put return the slot, which the caller then fills.       *)
TgtPut(t, k, v) ==
    LET r == Room(t)
        c == IF Has(r, k) THEN r ELSE Claim(r, k, v)
    IN IF Has(c, k) THEN [c EXCEPT !.slots[SlotOf(c, k)].val = v] ELSE c
TblPut(t, k, v) ==
    LET r == Room(t)
    IN IF Has(r, k) THEN [r EXCEPT !.slots[SlotOf(r, k)].val = v] ELSE Claim(r, k, v)

Retire(t, k) ==
    IF Has(t, k) THEN [t EXCEPT !.slots[SlotOf(t, k)] = DeadSlot, !.live = @ - 1] ELSE t

-----------------------------------------------------------------------------
(* rc_set and rc_del.                                                      *)

RcPut(t, k, v) ==
    LET made == IF t.cap = 0 THEN Grow(t) ELSE t
        r == IF ~Has(made, k) /\ (made.live + 1) * 10 > made.cap * 7 THEN Grow(made) ELSE made
    IN IF Has(r, k) THEN [r EXCEPT !.slots[SlotOf(r, k)].val = v] ELSE Claim(r, k, v)

(* k's home lies cyclically in (i, j]: the entry at j stays where it is.   *)
StaysAtNoWrap(i, home, j) == i < home /\ home <= j
StaysAt(i, home, j) == IF i <= j THEN i < home /\ home <= j ELSE i < home \/ home <= j

(* The entry d slots behind the deleted key, up to the end of the chain.   *)
Slide(t, from, d, acc) ==
    LET j == (from + d) % t.cap
        s == acc.slots[j]
    IN IF acc.done \/ s.st = "empty" THEN [acc EXCEPT !.done = TRUE]
       ELSE IF StaysAt(acc.hole, Home(s.key, t), j) THEN acc
       ELSE [acc EXCEPT !.slots[acc.hole] = s, !.slots[j] = EmptySlot, !.hole = j]
RcDelete(t, k) ==
    LET from == SlotOf(t, k)
        Slid[d \in 0 .. t.cap - 1] ==
            IF d = 0 THEN [slots |-> [t.slots EXCEPT ![from] = EmptySlot],
                           hole |-> from, done |-> FALSE]
            ELSE LET before == Slid[d - 1] IN Slide(t, from, d, before)
    IN IF ~Has(t, k) THEN t
       ELSE [t EXCEPT !.slots = Slid[t.cap - 1].slots, !.live = @ - 1, !.used = @ - 1]

-----------------------------------------------------------------------------
(* hash_index_put, which also writes tombstones: value 0 is a deleted id.  *)

HashPut(t, k, v) ==
    LET r == IF 10 * (t.live + 1) > 7 * t.cap THEN Grow(t) ELSE t
    IN IF Has(r, k) THEN [r EXCEPT !.slots[SlotOf(r, k)].val = v] ELSE Claim(r, k, v)

HashGet(t, k) == Has(t, k) /\ t.slots[SlotOf(t, k)].val # 0

-----------------------------------------------------------------------------

Keeps == {"usage", "docs"}   \* a put keeps the value of a key that is there

PutIn(t, k, v) ==
    CASE table = "usage" -> UsagePut(t, k, v)
      [] table = "docs" -> DocPut(t, k, v)
      [] table = "targets" -> TgtPut(t, k, v)
      [] table = "facts" -> TblPut(t, k, v)
      [] table = "rc" -> RcPut(t, k, v)
      [] table = "hash" -> HashPut(t, k, v)

DeleteFrom(t, k) ==
    CASE table = "rc" -> RcDelete(t, k)
      [] table = "hash" -> HashPut(t, k, 0)
      [] OTHER -> Retire(t, k)

TablePut(k, v) ==
    /\ tab' = PutIn(tab, k, v)
    /\ tab'.cap <= MaxCap
    /\ call' = <<IF table \in Keeps THEN "track" ELSE "put", k, v>>
    /\ UNCHANGED table

TableDelete(k) ==
    /\ tab' = DeleteFrom(tab, k)
    /\ tab'.cap <= MaxCap
    /\ call' = <<"delete", k, 0>>
    /\ UNCHANGED table

TableInit ==
    /\ table \in Tables
    /\ tab = IF table = "hash" THEN Blank(FirstCap) ELSE Blank(0)
    /\ call = <<"none", 0, 0>>

TableNext == \E k \in TKeys : TableDelete(k) \/ \E v \in TVals : TablePut(k, v)

TableSpec == TableInit /\ [][TableNext]_tvars

-----------------------------------------------------------------------------
(* Properties.                                                             *)

Present(t, k) == IF table = "hash" THEN HashGet(t, k) ELSE Has(t, k)

(* The map a table stands for: what its lookup finds.                      *)
Promise ==
    INSTANCE KeyMap WITH Keys <- TKeys, Vals <- TVals,
        m <- [k \in {j \in TKeys : Present(tab, j)} |-> tab.slots[SlotOf(tab, k)].val]

(* Every table is a map: what the lookups answer after any sequence of     *)
(* calls changes at the key of the call and nowhere else, whatever the     *)
(* collisions, tombstones, slides and rehashes behind it.                  *)
IsKeyMap == Promise!Spec

(* A probe ends: once a table has slots, one of them was never used.       *)
(* find_slot, map_probe and rc_probe loop without a bound.                 *)
ProbesEnd == tab.cap > 0 => \E i \in DOMAIN tab.slots : tab.slots[i].st = "empty"

(* No key holds two live slots, and the counters that drive growth count   *)
(* the live slots and those in use.                                        *)
SlotsCounted ==
    LET of(st) == {i \in DOMAIN tab.slots : tab.slots[i].st = st}
    IN /\ \A i, j \in of("live") : tab.slots[i].key = tab.slots[j].key => i = j
       /\ tab.live = Cardinality(of("live"))
       /\ tab.used = Cardinality(of("live")) + Cardinality(of("dead"))
=============================================================================
