-------------------------- MODULE ProbeTableProofs --------------------------
(***************************************************************************)
(* Every hash table of the server is a map, for any keys and values, any   *)
(* hash function and any size: no collision, tombstone, slide or rehash    *)
(* loses an entry, brings one back or gives a key another's value.         *)
(***************************************************************************)
EXTENDS ProbeTable, FiniteSetTheorems, TLAPS

(* What a slot may hold.  0 is the value of an id the hash index keeps as  *)
(* deleted.                                                                *)
LiveSlots == [st : {"live"}, key : TKeys, val : TVals \cup {0}]
Slots == {EmptySlot, DeadSlot} \cup LiveSlots

(* Arrays of slots, and tables.                                            *)
Arrays(c) == [0 .. c - 1 -> Slots]
Typed(t) ==
    /\ t = [cap |-> t.cap, slots |-> t.slots, live |-> t.live, used |-> t.used]
    /\ t.cap \in Nat /\ t.live \in Nat /\ t.used \in Nat
    /\ t.slots \in Arrays(t.cap)

(* The slots that hold a key, and those that were ever used.               *)
LiveAt(S) == {i \in DOMAIN S : S[i].st = "live"}
Taken(S) == {i \in DOMAIN S : S[i].st # "empty"}

(* The slots a probe passes on its way from h to i.                        *)
Path(h, i, c) == IF h <= i THEN h .. i - 1 ELSE (h .. c - 1) \cup (0 .. i - 1)

(* Every live slot is reached from the home of its key.                    *)
Reached(S, c) == \A i \in LiveAt(S) : Path(Hash[S[i].key] % c, i, c) \subseteq Taken(S)

(* No key is in two slots.                                                 *)
Distinct(S) == \A i, j \in LiveAt(S) : S[i].key = S[j].key => i = j

(* S with e in slot i.                                                     *)
With(S, i, e) == [S EXCEPT ![i] = e]
WithVal(S, i, v) == [S EXCEPT ![i].val = v]

(* What an array says of key k.                                            *)
Maps(S, k, v) == \E i \in LiveAt(S) : S[i].key = k /\ S[i].val = v

(* A lookup finds what is there.                                           *)
Sound(S, c) == S \in Arrays(c) /\ Reached(S, c) /\ Distinct(S)

(* A table whose lookups and counters are right.                           *)
Good(t) ==
    /\ Typed(t) /\ Sound(t.slots, t.cap)
    /\ t.live = Cardinality(LiveAt(t.slots)) /\ t.used = Cardinality(Taken(t.slots))

-----------------------------------------------------------------------------
(* The state of a slot.                                                    *)
LEMMA SlotFacts ==
    /\ EmptySlot \in Slots /\ DeadSlot \in Slots
    /\ EmptySlot.st = "empty" /\ DeadSlot.st = "dead"
    /\ \A s \in Slots : /\ s.st = "live" <=> s \in LiveSlots
                        /\ s.st = "live" => s.key \in TKeys /\ s.val \in TVals \cup {0}
    /\ \A k \in TKeys, v \in TVals \cup {0} :
         /\ LiveSlot(k, v) \in LiveSlots /\ LiveSlot(k, v).st = "live"
         /\ LiveSlot(k, v).key = k /\ LiveSlot(k, v).val = v
BY DEF Slots, LiveSlots, EmptySlot, DeadSlot, LiveSlot

(* A table's fields.                                                       *)
LEMMA TableFacts ==
    ASSUME NEW t, Typed(t)
    PROVE  /\ t.cap \in Nat /\ t.live \in Nat /\ t.used \in Nat
           /\ t.slots \in Arrays(t.cap) /\ DOMAIN t.slots = 0 .. t.cap - 1
           /\ \A i \in 0 .. t.cap - 1 : t.slots[i] \in Slots
           /\ LiveAt(t.slots) \subseteq Taken(t.slots)
           /\ Taken(t.slots) \subseteq 0 .. t.cap - 1
BY DEF Typed, Arrays, LiveAt, Taken

(* x is p steps along a circle of c slots from h.                          *)
Ahead(h, p, c, x) == (h + p < c => x = h + p) /\ (~(h + p < c) => x = h + p - c)

(* Taking a remainder.                                                     *)
LEMMA Wraps ==
    ASSUME NEW c \in Nat \ {0}
    PROVE  /\ \A x \in Nat : x % c \in 0 .. c - 1
           /\ \A h, p \in 0 .. c - 1 : Ahead(h, p, c, (h + p) % c) /\ (h + p) % c \in 0 .. c - 1
BY DEF Ahead

(* A probe from h comes to every slot, and what it has passed by then.     *)
LEMMA Circle ==
    ASSUME NEW c \in Nat \ {0}, NEW h \in 0 .. c - 1
    PROVE  /\ \A x \in 0 .. c - 1 : \E p \in 0 .. c - 1 : Ahead(h, p, c, x)
           /\ \A p, x, y : p \in 0 .. c - 1 /\ Ahead(h, p, c, x) /\ Ahead(h, p, c, y) => x = y
           /\ \A p, q, x, y : /\ p \in 0 .. c - 1 /\ q \in 0 .. c - 1
                              /\ Ahead(h, p, c, x) /\ Ahead(h, q, c, y)
                  => (q < p <=> y \in Path(h, x, c)) /\ (y = x => q = p)
<1>1. ASSUME NEW x \in 0 .. c - 1 PROVE \E p \in 0 .. c - 1 : Ahead(h, p, c, x)
  <2>1. CASE h <= x
    <3>1. x - h \in 0 .. c - 1 /\ Ahead(h, x - h, c, x)
      BY <2>1 DEF Ahead
    <3> QED
      BY Zenon, <3>1
  <2>2. CASE ~(h <= x)
    <3>1. x - h + c \in 0 .. c - 1 /\ Ahead(h, x - h + c, c, x)
      BY <2>2 DEF Ahead
    <3> QED
      BY Zenon, <3>1
  <2> QED
    BY <2>1, <2>2
<1> QED
  BY <1>1 DEF Ahead, Path

(* The probe of a key.                                                     *)
LEMMA ProbePath ==
    ASSUME NEW t, t.cap \in Nat \ {0}, NEW k \in TKeys
    PROVE  /\ Home(k, t) \in 0 .. t.cap - 1
           /\ \A p \in 0 .. t.cap - 1 :
                Ahead(Home(k, t), p, t.cap, Place(k, p, t)) /\ Place(k, p, t) \in 0 .. t.cap - 1
           /\ \A i \in 0 .. t.cap - 1 : \E p \in 0 .. t.cap - 1 : Place(k, p, t) = i
           /\ \A p, q \in 0 .. t.cap - 1 :
                q < p <=> Place(k, q, t) \in Path(Home(k, t), Place(k, p, t), t.cap)
<1>1. PICK c \in Nat \ {0} : c = t.cap
  OBVIOUS
<1>2. Hash[k] \in Nat
  BY ProbeTableAssumption
<1>3. PICK h \in 0 .. c - 1 : h = Home(k, t)
  BY Zenon, <1>1, <1>2, Wraps DEF Home
<1>4. \A p \in 0 .. c - 1 : Ahead(h, p, c, Place(k, p, t)) /\ Place(k, p, t) \in 0 .. c - 1
  <2>1. \A p : Place(k, p, t) = (h + p) % c
    BY <1>1, <1>3 DEF Place
  <2> QED
    BY Zenon, <2>1, Wraps
<1>5. ASSUME NEW i \in 0 .. c - 1 PROVE \E p \in 0 .. c - 1 : Place(k, p, t) = i
  <2>1. PICK p \in 0 .. c - 1 : Ahead(h, p, c, i)
    BY Zenon, Circle
  <2> QED
    BY Zenon, <1>4, <2>1, Circle
<1>6. \A p, q \in 0 .. c - 1 : q < p <=> Place(k, q, t) \in Path(h, Place(k, p, t), c)
  BY Zenon, <1>4, Circle
<1> QED
  BY Zenon, <1>1, <1>3, <1>4, <1>5, <1>6

(* The least of a set of natural numbers.                                  *)
LEMMA LeastNatural ==
    ASSUME NEW T \in SUBSET Nat, T # {}
    PROVE  /\ Min(T) \in T /\ \A y \in T : Min(T) <= y
<1> DEFINE R == OpToRel(<, Nat)
<1>1. IsWellFoundedOn(R, Nat)
  BY Zenon, NatLessThanWellFounded
<1>2. \A a, b \in Nat : a < b => <<a, b>> \in R
  BY DEF OpToRel
<1> HIDE DEF R
<1>3. PICK x \in T : \A y \in T : ~ (<<y, x>> \in R)
  BY Zenon, <1>1, WFMin
<1>4. \A y \in T : ~ (y < x)
  BY Zenon, <1>2, <1>3
<1>5. \A y \in T : x <= y
  BY <1>4
<1> QED
  BY Zenon, <1>5 DEF Min

(* Induction, for a set instead of a predicate.                            *)
LEMMA Induction ==
    ASSUME NEW S, 0 \in S, \A n \in Nat : n \in S => n + 1 \in S
    PROVE  Nat \subseteq S
<1> SUFFICES ASSUME Nat \ S # {} PROVE FALSE
  OBVIOUS
<1>1. PICK m \in Nat \ S : \A y \in Nat \ S : m <= y
  BY Zenon, LeastNatural
<1>2. m - 1 \in Nat /\ ~ (m <= m - 1) /\ (m - 1) + 1 = m
  BY <1>1
<1> QED
  BY Zenon, <1>1, <1>2

-----------------------------------------------------------------------------
(* A lookup finds a key where it is, and nothing where it is not.          *)
LEMMA Lookup ==
    ASSUME NEW t, Typed(t), Sound(t.slots, t.cap), t.cap # 0, NEW k \in TKeys
    PROVE  /\ \A i \in LiveAt(t.slots) : t.slots[i].key = k => Has(t, k) /\ SlotOf(t, k) = i
           /\ Has(t, k) => SlotOf(t, k) \in LiveAt(t.slots) /\ t.slots[SlotOf(t, k)].key = k
<1> DEFINE c == t.cap
           S == t.slots
           F == Found(t, k)
<1>1. /\ Typed(t) /\ c \in Nat \ {0} /\ DOMAIN S = 0 .. c - 1
      /\ Reached(S, c) /\ Distinct(S)
  BY TableFacts DEF Sound
<1>2. ASSUME NEW p \in F
      PROVE  p \in 0 .. c - 1 /\ Place(k, p, t) \in LiveAt(S) /\ S[Place(k, p, t)].key = k
  BY Zenon, <1>1, <1>2, ProbePath DEF Found, At, LiveAt
<1>3. ASSUME Has(t, k)
      PROVE  SlotOf(t, k) \in LiveAt(S) /\ S[SlotOf(t, k)].key = k
  <2>1. F \in SUBSET Nat /\ F # {}
    BY <1>1, <1>3 DEF Has, Found
  <2>2. Min(F) \in F
    BY Zenon, <2>1, LeastNatural
  <2> QED
    BY Zenon, <2>2, <1>2 DEF SlotOf
<1>4. ASSUME NEW i \in LiveAt(S), S[i].key = k
      PROVE  Has(t, k) /\ SlotOf(t, k) = i
  <2>1. i \in 0 .. c - 1
    BY <1>1 DEF LiveAt
  <2>2. PICK p \in 0 .. c - 1 : Place(k, p, t) = i
    BY Zenon, <1>1, <2>1, ProbePath
  <2>3. Path(Home(k, t), i, c) \subseteq Taken(S)
    BY Zenon, <1>1, <1>4 DEF Reached, Home
  <2>4. ASSUME NEW q \in 0 .. p - 1 PROVE At(k, q, t).st # "empty"
    <3>1. q \in 0 .. c - 1 /\ q < p
      BY <1>1
    <3>2. Place(k, q, t) \in Taken(S)
      BY Zenon, <1>1, <2>2, <2>3, <3>1, ProbePath
    <3> QED
      BY Zenon, <3>2 DEF Taken, At
  <2>5. p \in F
    BY Zenon, <1>4, <2>2, <2>4 DEF Found, At, LiveAt
  <2>6. Has(t, k)
    BY <1>1, <2>5 DEF Has
  <2> QED
    BY Zenon, <1>1, <1>3, <1>4, <2>6 DEF Distinct
<1> QED
  BY Zenon, <1>3, <1>4

-----------------------------------------------------------------------------
(* Entry e may be put into slot i: its key is new, and its probe comes     *)
(* there.                                                                  *)
Fits(S, c, i, e) ==
    /\ i \in 0 .. c - 1 /\ i \notin LiveAt(S)
    /\ e \in LiveSlots /\ Path(Hash[e.key] % c, i, c) \subseteq Taken(S)
    /\ \A j \in LiveAt(S) : S[j].key # e.key

(* T is S with entry e added in slot i.                                    *)
Adds(S, T, c, i, e) ==
    /\ Sound(T, c)
    /\ LiveAt(T) = LiveAt(S) \cup {i} /\ Taken(T) = Taken(S) \cup {i}
    /\ \A k, v : Maps(T, k, v) <=> Maps(S, k, v) \/ (k = e.key /\ v = e.val)

(* A new key in a slot its probe comes to.                                 *)
LEMMA Filled ==
    ASSUME NEW c \in Nat \ {0}, NEW S, Sound(S, c), NEW i, NEW e, Fits(S, c, i, e)
    PROVE  Adds(S, With(S, i, e), c, i, e)
<1> USE DEF Fits
<1>0. PICK T : T = With(S, i, e)
  OBVIOUS
<1>1. /\ e \in Slots /\ e.st = "live" /\ S \in Arrays(c) /\ Reached(S, c) /\ Distinct(S)
  BY Zenon, SlotFacts DEF Sound, Slots
<1>2. /\ T \in Arrays(c) /\ DOMAIN T = 0 .. c - 1 /\ DOMAIN S = 0 .. c - 1
      /\ T[i] = e /\ \A j \in 0 .. c - 1 : j # i => T[j] = S[j]
  BY <1>0, <1>1 DEF Arrays, With
<1>3. LiveAt(T) = LiveAt(S) \cup {i} /\ Taken(T) = Taken(S) \cup {i}
  BY <1>1, <1>2 DEF LiveAt, Taken
<1>4. \A j \in LiveAt(S) : j \in 0 .. c - 1 /\ j # i /\ T[j] = S[j]
  BY Zenon, <1>2 DEF LiveAt
<1>5. Reached(T, c)
  BY Zenon, <1>1, <1>2, <1>3, <1>4 DEF Reached
<1>6. Distinct(T)
  BY <1>1, <1>2, <1>3, <1>4 DEF Distinct
<1>7. \A k, v : Maps(T, k, v) <=> Maps(S, k, v) \/ (k = e.key /\ v = e.val)
  BY Zenon, <1>2, <1>3, <1>4 DEF Maps
<1> QED
  BY Zenon, <1>0, <1>2, <1>3, <1>5, <1>6, <1>7 DEF Sound, Adds

(* T is S without the entry of slot i.                                     *)
Drops(S, T, c, i) ==
    /\ Sound(T, c) /\ LiveAt(T) = LiveAt(S) \ {i} /\ Taken(T) = Taken(S)
    /\ \A k, v : Maps(T, k, v) <=> Maps(S, k, v) /\ k # S[i].key

(* A tombstone keeps every chain that runs through its slot.               *)
LEMMA Buried ==
    ASSUME NEW c \in Nat \ {0}, NEW S, Sound(S, c), NEW i \in LiveAt(S)
    PROVE  Drops(S, With(S, i, DeadSlot), c, i)
<1>0. PICK T : T = With(S, i, DeadSlot)
  OBVIOUS
<1>1. /\ DeadSlot \in Slots /\ DeadSlot.st = "dead"
      /\ S \in Arrays(c) /\ Reached(S, c) /\ Distinct(S)
  BY Zenon, SlotFacts DEF Sound
<1>2. /\ T \in Arrays(c) /\ DOMAIN T = 0 .. c - 1 /\ DOMAIN S = 0 .. c - 1
      /\ T[i] = DeadSlot /\ \A j \in 0 .. c - 1 : j # i => T[j] = S[j]
  BY <1>0, <1>1 DEF Arrays, LiveAt, With
<1>3. LiveAt(T) = LiveAt(S) \ {i} /\ Taken(T) = Taken(S)
  BY <1>1, <1>2 DEF LiveAt, Taken
<1>4. \A j \in LiveAt(T) : j \in LiveAt(S) /\ j # i /\ T[j] = S[j]
  BY Zenon, <1>2, <1>3 DEF LiveAt
<1>5. Reached(T, c)
  BY Zenon, <1>1, <1>3, <1>4 DEF Reached
<1>6. Distinct(T)
  BY <1>1, <1>4 DEF Distinct
<1>7. \A k, v : Maps(T, k, v) <=> Maps(S, k, v) /\ k # S[i].key
  BY Zenon, <1>1, <1>3, <1>4 DEF Maps, Distinct
<1> QED
  BY Zenon, <1>0, <1>2, <1>3, <1>5, <1>6, <1>7 DEF Sound, Drops

(* T is S with value v in slot i.                                          *)
Sets(S, T, c, i, v) ==
    /\ Sound(T, c) /\ LiveAt(T) = LiveAt(S) /\ Taken(T) = Taken(S)
    /\ \A k, w : k # S[i].key => (Maps(T, k, w) <=> Maps(S, k, w))
    /\ \A w : Maps(T, S[i].key, w) <=> w = v

(* A new value keeps every chain.                                          *)
LEMMA Revalued ==
    ASSUME NEW c \in Nat \ {0}, NEW S, Sound(S, c), NEW i \in LiveAt(S),
           NEW v \in TVals \cup {0}
    PROVE  Sets(S, WithVal(S, i, v), c, i, v)
<1>0. PICK T : T = WithVal(S, i, v)
  OBVIOUS
<1>1. /\ S \in Arrays(c) /\ Reached(S, c) /\ Distinct(S) /\ S[i] \in Slots /\ i \in 0 .. c - 1
      /\ DOMAIN S = 0 .. c - 1 /\ S[i].st = "live"
  BY DEF Sound, Arrays, LiveAt
<1>2. S[i] \in LiveSlots
  BY Zenon, <1>1, SlotFacts
<1>3. PICK e \in LiveSlots : e = [S[i] EXCEPT !.val = v] /\ e.key = S[i].key /\ e.val = v
  <2>1. /\ [S[i] EXCEPT !.val = v] \in LiveSlots
        /\ [S[i] EXCEPT !.val = v].key = S[i].key /\ [S[i] EXCEPT !.val = v].val = v
    BY <1>2 DEF LiveSlots
  <2> QED
    BY Zenon, <2>1
<1>4. e \in Slots /\ e.st = "live"
  BY Zenon, SlotFacts DEF Slots
<1>5. T = [S EXCEPT ![i] = e]
  BY <1>0, <1>3 DEF WithVal
<1>6. /\ T \in Arrays(c) /\ DOMAIN T = 0 .. c - 1
      /\ T[i] = e /\ \A j \in 0 .. c - 1 : j # i => T[j] = S[j]
  BY <1>1, <1>4, <1>5 DEF Arrays
<1>7. LiveAt(T) = LiveAt(S) /\ Taken(T) = Taken(S)
  BY <1>1, <1>4, <1>6 DEF LiveAt, Taken
<1>8. \A j \in LiveAt(S) : j \in 0 .. c - 1 /\ T[j].key = S[j].key /\ (j # i => T[j] = S[j])
  BY Zenon, <1>1, <1>3, <1>6 DEF LiveAt
<1>9. Reached(T, c)
  BY Zenon, <1>1, <1>7, <1>8 DEF Reached
<1>10. Distinct(T)
  BY Zenon, <1>1, <1>7, <1>8 DEF Distinct
<1>11. \A k, w : k # S[i].key => (Maps(T, k, w) <=> Maps(S, k, w))
  BY Zenon, <1>1, <1>7, <1>8 DEF Maps
<1>12. \A w : Maps(T, S[i].key, w) <=> w = v
  BY Zenon, <1>1, <1>3, <1>6, <1>7, <1>8 DEF Maps, Distinct
<1> QED
  BY Zenon, <1>0, <1>6, <1>7, <1>9, <1>10, <1>11, <1>12 DEF Sound, Sets

-----------------------------------------------------------------------------
(* Counting slots: a table that is not full has one that was never used.   *)
LEMMA Counting ==
    ASSUME NEW c \in Nat, NEW S \in Arrays(c)
    PROVE  /\ IsFiniteSet(LiveAt(S)) /\ IsFiniteSet(Taken(S))
           /\ Cardinality(LiveAt(S)) \in Nat /\ Cardinality(Taken(S)) \in Nat
           /\ Cardinality(LiveAt(S)) <= Cardinality(Taken(S))
           /\ Cardinality(Taken(S)) < c => \E i \in 0 .. c - 1 : i \notin Taken(S)
           /\ Cardinality(LiveAt(S)) < c => \E i \in 0 .. c - 1 : i \notin LiveAt(S)
<1>1. LiveAt(S) \subseteq Taken(S) /\ Taken(S) \subseteq 0 .. c - 1
  BY DEF Arrays, LiveAt, Taken
<1>2. IsFiniteSet(0 .. c - 1) /\ Cardinality(0 .. c - 1) = c
  BY FS_Interval
<1>3. IsFiniteSet(Taken(S))
  BY Zenon, <1>1, <1>2, FS_Subset
<1>4. IsFiniteSet(LiveAt(S)) /\ Cardinality(LiveAt(S)) <= Cardinality(Taken(S))
  BY Zenon, <1>1, <1>3, FS_Subset
<1>5. Cardinality(LiveAt(S)) \in Nat /\ Cardinality(Taken(S)) \in Nat
  BY Zenon, <1>3, <1>4, FS_CardinalityType
<1>6. ASSUME Cardinality(Taken(S)) < c PROVE \E i \in 0 .. c - 1 : i \notin Taken(S)
  <2>1. Taken(S) # 0 .. c - 1
    BY <1>2, <1>5, <1>6
  <2> QED
    BY Zenon, <1>1, <2>1
<1>7. ASSUME Cardinality(LiveAt(S)) < c PROVE \E i \in 0 .. c - 1 : i \notin LiveAt(S)
  <2>1. LiveAt(S) # 0 .. c - 1
    BY <1>2, <1>5, <1>7
  <2> QED
    BY Zenon, <1>1, <2>1
<1> QED
  BY Zenon, <1>3, <1>4, <1>5, <1>6, <1>7

(* Counting one more, or one less.                                         *)
LEMMA OneMore ==
    ASSUME NEW S, IsFiniteSet(S), NEW x
    PROVE  /\ x \in S => Cardinality(S \cup {x}) = Cardinality(S)
           /\ x \notin S => Cardinality(S \cup {x}) = Cardinality(S) + 1
           /\ x \in S => Cardinality(S \ {x}) = Cardinality(S) - 1
           /\ IsFiniteSet(S \cup {x}) /\ IsFiniteSet(S \ {x})
BY FS_AddElement, FS_RemoveElement

(* A probe has passed every slot on the path to where it is.               *)
LEMMA Passed ==
    ASSUME NEW t, Typed(t), t.cap # 0, NEW k \in TKeys, NEW p \in 0 .. t.cap - 1,
           \A q \in 0 .. p - 1 : At(k, q, t).st # "empty"
    PROVE  Path(Home(k, t), Place(k, p, t), t.cap) \subseteq Taken(t.slots)
<1>1. t.cap \in Nat \ {0} /\ DOMAIN t.slots = 0 .. t.cap - 1
  BY TableFacts
<1>2. Place(k, p, t) \in 0 .. t.cap - 1 /\ Home(k, t) \in 0 .. t.cap - 1
  BY Zenon, <1>1, ProbePath
<1> SUFFICES ASSUME NEW j \in Path(Home(k, t), Place(k, p, t), t.cap)
             PROVE  j \in Taken(t.slots)
  OBVIOUS
<1>3. j \in 0 .. t.cap - 1
  BY <1>1, <1>2 DEF Path
<1>4. PICK q \in 0 .. t.cap - 1 : Place(k, q, t) = j
  BY Zenon, <1>1, <1>3, ProbePath
<1>5. q < p
  BY Zenon, <1>1, <1>4, ProbePath
<1>6. q \in 0 .. p - 1
  BY <1>1, <1>5
<1> QED
  BY Zenon, <1>1, <1>3, <1>4, <1>6 DEF At, Taken

(* u is t with a new key.                                                  *)
Claimed(t, u, k, v) ==
    /\ Good(u) /\ u.cap = t.cap /\ u.live = t.live + 1 /\ u.used <= t.used + 1
    /\ \A a, b : Maps(u.slots, a, b) <=> Maps(t.slots, a, b) \/ (a = k /\ b = v)

(* The first tombstone before the end of a probe, or its end, is where a   *)
(* new key goes.                                                           *)
LEMMA ClaimKeeps ==
    ASSUME NEW t, Good(t), t.cap # 0, t.used < t.cap, NEW k \in TKeys, ~Has(t, k),
           NEW v \in TVals \cup {0}
    PROVE  Claimed(t, Claim(t, k, v), k, v)
<1> DEFINE ends == {p \in 0 .. t.cap - 1 : At(k, p, t).st = "empty"}
           dead == {p \in 0 .. t.cap - 1 : At(k, p, t).st = "dead" /\ p < Min(ends)}
           pos == IF dead # {} THEN Min(dead) ELSE Min(ends)
           used == IF dead # {} THEN t.used ELSE t.used + 1
<1>1. /\ Typed(t) /\ Sound(t.slots, t.cap) /\ t.cap \in Nat \ {0} /\ t.slots \in Arrays(t.cap)
      /\ DOMAIN t.slots = 0 .. t.cap - 1 /\ t.live \in Nat /\ t.used \in Nat
      /\ t.live = Cardinality(LiveAt(t.slots)) /\ t.used = Cardinality(Taken(t.slots))
  BY TableFacts DEF Good
<1>2. ends # {}
  <2>1. PICK j \in 0 .. t.cap - 1 : j \notin Taken(t.slots)
    BY Zenon, <1>1, Counting
  <2>2. PICK p \in 0 .. t.cap - 1 : Place(k, p, t) = j
    BY Zenon, <1>1, ProbePath
  <2>3. At(k, p, t).st = "empty"
    BY Zenon, <1>1, <2>1, <2>2 DEF At, Taken
  <2> QED
    BY <1>1, <2>3
<1>3. ends \in SUBSET Nat /\ \A q \in ends : q \in 0 .. t.cap - 1 /\ At(k, q, t).st = "empty"
  BY <1>1
<1>4. \A q \in 0 .. t.cap - 1 : q \notin ends => At(k, q, t).st # "empty"
  BY Zenon
<1>5. dead \in SUBSET Nat /\ \A q \in dead : /\ q \in 0 .. t.cap - 1 /\ At(k, q, t).st = "dead"
                                            /\ q < Min(ends)
  BY <1>1
<1>6. Claim(t, k, v) = [t EXCEPT !.slots[Place(k, pos, t)] = LiveSlot(k, v), !.live = @ + 1,
                                 !.used = IF dead # {} THEN @ ELSE @ + 1]
  BY Zenon, <1>2 DEF Claim
<1> HIDE DEF ends, dead
<1>7. Min(ends) \in ends /\ \A q \in ends : Min(ends) <= q
  BY Zenon, <1>2, <1>3, LeastNatural
<1>8. dead # {} => Min(dead) \in dead
  BY Zenon, <1>5, LeastNatural
<1>9. /\ pos \in 0 .. t.cap - 1 /\ pos <= Min(ends) /\ At(k, pos, t).st # "live"
      /\ dead # {} => At(k, pos, t).st # "empty"
      /\ dead = {} => At(k, pos, t).st = "empty"
  <2>1. PICK m \in 0 .. t.cap - 1 : m = Min(ends) /\ At(k, m, t).st = "empty"
    BY Zenon, <1>3, <1>7
  <2>2. CASE dead # {}
    <3>1. PICK d \in 0 .. t.cap - 1 : d = Min(dead) /\ At(k, d, t).st = "dead" /\ d < m
      BY Zenon, <1>5, <1>8, <2>1, <2>2
    <3> QED
      BY <1>1, <2>1, <2>2, <3>1
  <2>3. CASE dead = {}
    BY <1>1, <2>1, <2>3
  <2> QED
    BY <2>2, <2>3
<1> HIDE DEF pos
<1>10. ASSUME NEW q \in 0 .. pos - 1 PROVE At(k, q, t).st # "empty"
  <2> PICK m \in 0 .. t.cap - 1 : m = Min(ends)
    BY Zenon, <1>3, <1>7
  <2>1. q \in 0 .. t.cap - 1 /\ ~(Min(ends) <= q)
    BY <1>1, <1>9
  <2> QED
    BY Zenon, <2>1, <1>4, <1>7
<1>11. PICK i \in 0 .. t.cap - 1 : i = Place(k, pos, t)
  BY Zenon, <1>1, <1>9, ProbePath
<1>12. Path(Hash[k] % t.cap, i, t.cap) \subseteq Taken(t.slots)
  BY Zenon, <1>1, <1>9, <1>10, <1>11, Passed DEF Home
<1>13. PICK e : e = LiveSlot(k, v) /\ e \in LiveSlots /\ e.key = k /\ e.val = v
  BY SlotFacts
<1>14. /\ i \notin LiveAt(t.slots)
       /\ dead # {} => i \in Taken(t.slots)
       /\ dead = {} => i \notin Taken(t.slots)
  BY Zenon, <1>1, <1>9, <1>11 DEF LiveAt, Taken, At
<1>15. \A j \in LiveAt(t.slots) : t.slots[j].key # e.key
  BY Zenon, <1>1, <1>13, Lookup
<1> DEFINE T == With(t.slots, i, e)
<1>16. Fits(t.slots, t.cap, i, e)
  <2>1. Path(Hash[e.key] % t.cap, i, t.cap) \subseteq Taken(t.slots)
    BY Zenon, <1>12, <1>13
  <2> QED
    BY Zenon, <1>13, <1>14, <1>15, <2>1 DEF Fits
<1>17. Adds(t.slots, T, t.cap, i, e)
  BY Zenon, <1>1, <1>16, Filled
<1> HIDE DEF T
<1>18. Cardinality(LiveAt(T)) = t.live + 1 /\ Cardinality(Taken(T)) = used
  <2>1. IsFiniteSet(LiveAt(t.slots)) /\ IsFiniteSet(Taken(t.slots))
    BY Zenon, <1>1, Counting
  <2>2. Cardinality(LiveAt(t.slots) \cup {i}) = t.live + 1
    BY Zenon, <1>1, <1>14, <2>1, OneMore
  <2>3. CASE dead # {}
    <3>1. Cardinality(Taken(t.slots) \cup {i}) = t.used
      BY Zenon, <1>1, <1>14, <2>1, <2>3, OneMore
    <3> QED
      BY Zenon, <1>17, <2>2, <2>3, <3>1 DEF Adds
  <2>4. CASE dead = {}
    <3>1. Cardinality(Taken(t.slots) \cup {i}) = t.used + 1
      BY Zenon, <1>1, <1>14, <2>1, <2>4, OneMore
    <3> QED
      BY Zenon, <1>17, <2>2, <2>4, <3>1 DEF Adds
  <2> QED
    BY Zenon, <2>3, <2>4
<1>19. used \in Nat /\ used <= t.used + 1
  BY <1>1
<1>20. /\ Claim(t, k, v).cap = t.cap /\ Claim(t, k, v).slots = T
       /\ Claim(t, k, v).live = t.live + 1 /\ Claim(t, k, v).used = used
       /\ Typed(Claim(t, k, v))
  <2>1. T \in Arrays(t.cap)
    BY Zenon, <1>17 DEF Sound, Adds
  <2>2. Claim(t, k, v) = [t EXCEPT !.slots[i] = e, !.live = @ + 1,
                                   !.used = IF dead # {} THEN @ ELSE @ + 1]
    BY Zenon, <1>6, <1>11, <1>13
  <2>3. Claim(t, k, v) = [cap |-> t.cap, slots |-> T, live |-> t.live + 1, used |-> used]
    BY Zenon, <1>1, <2>2 DEF Typed, With, T
  <2> QED
    BY <1>1, <1>19, <2>1, <2>3 DEF Typed
<1> HIDE DEF used
<1> QED
  BY Zenon, <1>13, <1>17, <1>18, <1>19, <1>20 DEF Good, Adds, Claimed

(* What a lookup says of a table, also of one without slots.               *)
LEMMA Looked ==
    ASSUME NEW t, Good(t), NEW k \in TKeys
    PROVE  /\ Has(t, k) <=> \E v : Maps(t.slots, k, v)
           /\ Has(t, k) => /\ t.cap \in Nat \ {0} /\ SlotOf(t, k) \in LiveAt(t.slots)
                           /\ t.slots[SlotOf(t, k)].key = k
                           /\ \A v : Maps(t.slots, k, v) <=> v = t.slots[SlotOf(t, k)].val
<1>1. Typed(t) /\ Sound(t.slots, t.cap) /\ t.cap \in Nat /\ Distinct(t.slots)
  BY Zenon, TableFacts DEF Good, Sound
<1>2. CASE t.cap = 0
  <2>1. ~Has(t, k)
    BY <1>2 DEF Has
  <2>2. LiveAt(t.slots) = {}
    BY <1>1, <1>2 DEF Typed, Arrays, LiveAt
  <2> QED
    BY Zenon, <2>1, <2>2 DEF Maps
<1>3. CASE t.cap # 0
  <2>1. \A i \in LiveAt(t.slots) : t.slots[i].key = k => Has(t, k) /\ SlotOf(t, k) = i
    BY Zenon, <1>1, <1>3, Lookup
  <2>2. Has(t, k) => SlotOf(t, k) \in LiveAt(t.slots) /\ t.slots[SlotOf(t, k)].key = k
    BY Zenon, <1>1, <1>3, Lookup
  <2>3. t.cap \in Nat \ {0}
    BY <1>1, <1>3
  <2> QED
    BY Zenon, <2>1, <2>2, <2>3 DEF Maps
<1> QED
  BY <1>2, <1>3

(* Tombstones: a deleted key is gone, every other one is still found.      *)
LEMMA RetireKeeps ==
    ASSUME NEW t, Good(t), NEW k \in TKeys
    PROVE  /\ Good(Retire(t, k))
           /\ Retire(t, k).cap = t.cap /\ Retire(t, k).used = t.used
           /\ \A a, b : Maps(Retire(t, k).slots, a, b) <=> Maps(t.slots, a, b) /\ a # k
<1>1. CASE ~Has(t, k)
  <2>1. Retire(t, k) = t
    BY Zenon, <1>1 DEF Retire
  <2>3. \A b : ~Maps(t.slots, k, b)
    BY Zenon, <1>1, Looked
  <2>2. \A a, b : Maps(t.slots, a, b) => a # k
    BY Zenon, <2>3
  <2> QED
    BY Zenon, <2>1, <2>2
<1>2. CASE Has(t, k)
  <2>1. PICK i : i = SlotOf(t, k)
    OBVIOUS
  <2>2. t.cap \in Nat \ {0} /\ i \in LiveAt(t.slots) /\ t.slots[i].key = k
    BY Zenon, <1>2, <2>1, Looked
  <2>3. /\ Typed(t) /\ Sound(t.slots, t.cap) /\ t.live \in Nat /\ t.slots \in Arrays(t.cap)
        /\ t.live = Cardinality(LiveAt(t.slots)) /\ t.used = Cardinality(Taken(t.slots))
    BY Zenon, TableFacts DEF Good
  <2>4. PICK T : T = With(t.slots, i, DeadSlot)
    OBVIOUS
  <2>5. Drops(t.slots, T, t.cap, i)
    BY Zenon, <2>2, <2>3, <2>4, Buried
  <2>6. /\ IsFiniteSet(LiveAt(t.slots)) /\ Cardinality(LiveAt(t.slots)) \in Nat
        /\ Cardinality(LiveAt(T)) \in Nat
    <3>1. T \in Arrays(t.cap)
      BY Zenon, <2>5 DEF Drops, Sound
    <3> QED
      BY Zenon, <2>2, <2>3, <3>1, Counting
  <2>7. Cardinality(LiveAt(T)) = t.live - 1 /\ Cardinality(Taken(T)) = t.used
    <3>1. Cardinality(LiveAt(t.slots) \ {i}) = t.live - 1
      BY Zenon, <2>2, <2>3, <2>6, OneMore
    <3> QED
      BY Zenon, <2>3, <2>5, <3>1 DEF Drops
  <2>8. Retire(t, k) = [cap |-> t.cap, slots |-> T, live |-> t.live - 1, used |-> t.used]
    BY Zenon, <1>2, <2>1, <2>3, <2>4 DEF Retire, Typed, With
  <2>9. /\ Typed(Retire(t, k)) /\ Retire(t, k).cap = t.cap /\ Retire(t, k).slots = T
        /\ Retire(t, k).live = t.live - 1 /\ Retire(t, k).used = t.used
    <3>1. T \in Arrays(t.cap) /\ t.live - 1 \in Nat
      BY Zenon, <2>5, <2>6, <2>7 DEF Drops, Sound
    <3> QED
      BY <2>3, <2>8, <3>1 DEF Typed
  <2> QED
    BY Zenon, <2>2, <2>5, <2>7, <2>9 DEF Good, Drops
<1> QED
  BY <1>1, <1>2

(* u is t with another value for a key.                                    *)
Revalues(t, u, k, v) ==
    /\ Good(u) /\ u.cap = t.cap /\ u.used = t.used /\ u.live = t.live
    /\ \A a, b : a # k => (Maps(u.slots, a, b) <=> Maps(t.slots, a, b))
    /\ \A b : Maps(u.slots, k, b) <=> b = v

(* A new value for a key that is there.                                    *)
LEMMA RevalueKeeps ==
    ASSUME NEW t, Good(t), NEW k \in TKeys, Has(t, k), NEW v \in TVals \cup {0},
           NEW r, r = [t EXCEPT !.slots[SlotOf(t, k)].val = v]
    PROVE  Revalues(t, r, k, v)
<1>1. PICK i : i = SlotOf(t, k)
  OBVIOUS
<1>2. t.cap \in Nat \ {0} /\ i \in LiveAt(t.slots) /\ t.slots[i].key = k
  BY Zenon, <1>1, Looked
<1>3. /\ Typed(t) /\ Sound(t.slots, t.cap) /\ t.slots \in Arrays(t.cap)
      /\ t.live \in Nat /\ t.used \in Nat
      /\ t.live = Cardinality(LiveAt(t.slots)) /\ t.used = Cardinality(Taken(t.slots))
  BY Zenon, TableFacts DEF Good
<1>4. PICK T : T = WithVal(t.slots, i, v)
  OBVIOUS
<1>5. Sets(t.slots, T, t.cap, i, v)
  BY Zenon, <1>2, <1>3, <1>4, Revalued
<1>6. r = [cap |-> t.cap, slots |-> T, live |-> t.live, used |-> t.used]
  BY <1>1, <1>3, <1>4 DEF Typed, WithVal
<1>7. /\ Typed(r) /\ r.cap = t.cap /\ r.slots = T /\ r.live = t.live /\ r.used = t.used
  <2>1. T \in Arrays(t.cap)
    BY Zenon, <1>5 DEF Sets, Sound
  <2> QED
    BY <1>3, <1>6, <2>1 DEF Typed
<1> QED
  BY Zenon, <1>2, <1>3, <1>5, <1>7 DEF Good, Sets, Revalues

-----------------------------------------------------------------------------
(* An array on its way into a bigger table.                                *)
Rehashing(a, c) ==
    /\ Typed(a) /\ a.cap = c /\ Sound(a.slots, c) /\ LiveAt(a.slots) = Taken(a.slots)

(* One entry moves: the probe of its key stops at the first free slot.     *)
LEMMA RehashKeeps ==
    ASSUME NEW c \in Nat \ {0}, NEW a, Rehashing(a, c), Cardinality(LiveAt(a.slots)) < c,
           NEW s \in LiveSlots, \A j \in LiveAt(a.slots) : a.slots[j].key # s.key
    PROVE  /\ Rehashing(Rehash(a, s), c)
           /\ Cardinality(LiveAt(Rehash(a, s).slots)) = Cardinality(LiveAt(a.slots)) + 1
           /\ \A k, v : Maps(Rehash(a, s).slots, k, v) <=>
                           Maps(a.slots, k, v) \/ (k = s.key /\ v = s.val)
<1> DEFINE free == {q \in 0 .. a.cap - 1 : At(s.key, q, a).st # "live"}
<1>1. /\ Typed(a) /\ a.cap = c /\ Sound(a.slots, c) /\ LiveAt(a.slots) = Taken(a.slots)
      /\ a.slots \in Arrays(c) /\ DOMAIN a.slots = 0 .. c - 1
  BY TableFacts DEF Rehashing
<1>2. /\ s.st = "live" /\ s.key \in TKeys
      /\ IsFiniteSet(LiveAt(a.slots)) /\ Cardinality(LiveAt(a.slots)) \in Nat
  BY Zenon, <1>1, Counting, SlotFacts DEF Slots
<1>3. free # {}
  <2>1. PICK j \in 0 .. c - 1 : j \notin LiveAt(a.slots)
    BY Zenon, <1>1, Counting
  <2>2. PICK p \in 0 .. a.cap - 1 : Place(s.key, p, a) = j
    BY Zenon, <1>1, <1>2, ProbePath
  <2>3. At(s.key, p, a).st # "live"
    BY Zenon, <1>1, <2>1, <2>2 DEF At, LiveAt
  <2> QED
    BY Zenon, <2>3
<1>4. free \in SUBSET Nat /\ \A q \in free : q \in 0 .. a.cap - 1 /\ At(s.key, q, a).st # "live"
  BY <1>1
<1>5. \A q \in 0 .. a.cap - 1 : q \notin free => At(s.key, q, a).st = "live"
  BY Zenon
<1>6. Rehash(a, s) = [a EXCEPT !.slots[Place(s.key, Min(free), a)] = s]
  BY Zenon, <1>2 DEF Rehash
<1> HIDE DEF free
<1>7. PICK p \in 0 .. a.cap - 1 : p = Min(free) /\ p \in free /\ \A q \in free : p <= q
  BY Zenon, <1>3, <1>4, LeastNatural
<1>8. ASSUME NEW q \in 0 .. p - 1 PROVE At(s.key, q, a).st # "empty"
  <2>1. q \in 0 .. a.cap - 1 /\ ~(p <= q)
    BY <1>1
  <2>2. At(s.key, q, a).st = "live"
    BY Zenon, <2>1, <1>5, <1>7
  <2> QED
    BY <2>2
<1>9. PICK i \in 0 .. c - 1 : i = Place(s.key, p, a)
  BY Zenon, <1>1, <1>2, ProbePath
<1>10. Path(Hash[s.key] % c, i, c) \subseteq Taken(a.slots)
  BY Zenon, <1>1, <1>2, <1>8, <1>9, Passed DEF Home
<1>11. i \notin LiveAt(a.slots)
  BY Zenon, <1>4, <1>7, <1>9 DEF LiveAt, At
<1>12. Fits(a.slots, c, i, s)
  BY Zenon, <1>10, <1>11 DEF Fits
<1>13. PICK T : T = With(a.slots, i, s)
  OBVIOUS
<1>14. Adds(a.slots, T, c, i, s)
  BY Zenon, <1>1, <1>12, <1>13, Filled
<1>15. Rehash(a, s) = [cap |-> c, slots |-> T, live |-> a.live, used |-> a.used]
  BY Zenon, <1>1, <1>6, <1>7, <1>9, <1>13 DEF Typed, With
<1>16. T \in Arrays(c)
  BY Zenon, <1>14 DEF Adds, Sound
<1>17. Typed(Rehash(a, s)) /\ Rehash(a, s).cap = c /\ Rehash(a, s).slots = T
  BY <1>1, <1>15, <1>16 DEF Typed
<1>18. Cardinality(LiveAt(a.slots) \cup {i}) = Cardinality(LiveAt(a.slots)) + 1
  BY Zenon, <1>2, <1>11, OneMore
<1> QED
  BY Zenon, <1>1, <1>14, <1>17, <1>18 DEF Adds, Rehashing

(* A new table holds nothing.                                              *)
LEMMA BlankGood ==
    ASSUME NEW c \in Nat
    PROVE  /\ Good(Blank(c)) /\ Blank(c).cap = c /\ Blank(c).live = 0 /\ Blank(c).used = 0
           /\ LiveAt(Blank(c).slots) = {} /\ Taken(Blank(c).slots) = {}
           /\ \A k, v : ~Maps(Blank(c).slots, k, v)
<1>1. PICK S : S = [i \in 0 .. c - 1 |-> EmptySlot]
  BY Zenon
<1>2. Blank(c) = [cap |-> c, slots |-> S, live |-> 0, used |-> 0]
  BY Zenon, <1>1 DEF Blank
<1>3. /\ Blank(c).cap = c /\ Blank(c).slots = S /\ Blank(c).live = 0 /\ Blank(c).used = 0
      /\ S \in Arrays(c) /\ Typed(Blank(c))
  BY <1>1, <1>2, SlotFacts DEF Typed, Arrays
<1>4. LiveAt(S) = {} /\ Taken(S) = {}
  BY <1>1, SlotFacts DEF LiveAt, Taken
<1>5. Sound(S, c) /\ \A k, v : ~Maps(S, k, v)
  BY Zenon, <1>3, <1>4 DEF Sound, Reached, Distinct, Maps
<1>6. Cardinality({}) = 0
  BY Zenon, FS_EmptySet
<1> QED
  BY Zenon, <1>3, <1>4, <1>5, <1>6 DEF Good

(* The rehash of the first n slots.                                        *)
Fills(t, c, n, f) ==
    f = [m \in 0 .. n |-> IF m = 0 THEN Blank(c)
                          ELSE LET before == f[m - 1] IN Rehash(before, t.slots[m - 1])]

LEMMA FillsExist ==
    ASSUME NEW t, NEW c
    PROVE  \A n \in Nat : \E f : Fills(t, c, n, f)
<1> DEFINE S == {n \in Nat : \E f : Fills(t, c, n, f)}
<1>1. 0 \in S
  <2>1. Fills(t, c, 0, [m \in 0 .. 0 |-> Blank(c)])
    BY DEF Fills
  <2> QED
    BY <2>1
<1>2. ASSUME NEW n \in Nat, n \in S PROVE n + 1 \in S
  <2>1. PICK f : Fills(t, c, n, f)
    BY <1>2
  <2> DEFINE g == [m \in 0 .. n + 1 |->
                     IF m = n + 1 THEN Rehash(f[n], t.slots[n]) ELSE f[m]]
  <2>2. \A m \in 0 .. n : f[m] = IF m = 0 THEN Blank(c) ELSE Rehash(f[m - 1], t.slots[m - 1])
    BY <2>1 DEF Fills
  <2>3. ASSUME NEW m \in 0 .. n + 1
        PROVE  g[m] = IF m = 0 THEN Blank(c) ELSE Rehash(g[m - 1], t.slots[m - 1])
    <3>1. CASE m = n + 1
      <4>1. g[m] = Rehash(f[n], t.slots[n]) /\ m # 0 /\ m - 1 = n /\ g[n] = f[n]
        BY <3>1
      <4> QED
        BY Zenon, <4>1
    <3>2. CASE m # n + 1
      <4>1. m \in 0 .. n /\ g[m] = f[m] /\ (m # 0 => g[m - 1] = f[m - 1])
        BY <3>2
      <4> HIDE DEF g
      <4> QED
        BY <4>1, <2>2
    <3> QED
      BY <3>1, <3>2
  <2>4. g = [m \in 0 .. n + 1 |-> g[m]]
    BY Zenon
  <2> HIDE DEF g
  <2>5. Fills(t, c, n + 1, g)
    BY Zenon, <2>3, <2>4 DEF Fills
  <2> QED
    BY <2>5
<1> HIDE DEF S
<1>3. Nat \subseteq S
  BY Zenon, <1>1, <1>2, Induction
<1> QED
  BY Zenon, <1>3 DEF S

LEMMA GrowFills ==
    ASSUME NEW t, t.cap \in Nat, NEW c
    PROVE  \E f : /\ Fills(t, c, t.cap, f)
                  /\ GrowTo(t, c) = [f[t.cap] EXCEPT !.live = t.live, !.used = t.live]
<1> DEFINE F[n \in 0 .. t.cap] ==
               IF n = 0 THEN Blank(c)
               ELSE LET before == F[n - 1] IN Rehash(before, t.slots[n - 1])
<1>1. GrowTo(t, c) = [F[t.cap] EXCEPT !.live = t.live, !.used = t.live]
  BY DEF GrowTo
<1>2. F = CHOOSE f : Fills(t, c, t.cap, f)
  BY DEF Fills
<1> HIDE DEF F
<1>3. \E f : Fills(t, c, t.cap, f)
  BY Zenon, FillsExist
<1>4. Fills(t, c, t.cap, F)
  BY Zenon, <1>2, <1>3
<1> QED
  BY Zenon, <1>1, <1>4

(* What the slots of B say.                                                *)
Says(S, B, k, v) == \E i \in B : S[i].key = k /\ S[i].val = v

(* The array a holds what the slots of B hold.                             *)
Below(S, n) == {i \in LiveAt(S) : i < n}
Holds(a, c, S, B) ==
    /\ Rehashing(a, c) /\ Cardinality(LiveAt(a.slots)) = Cardinality(B)
    /\ \A k, v : Maps(a.slots, k, v) <=> Says(S, B, k, v)

LEMMA HoldsMore ==
    ASSUME NEW t, Good(t), NEW c \in Nat \ {0}, t.cap < c, NEW n \in 0 .. t.cap - 1,
           NEW a, Holds(a, c, t.slots, Below(t.slots, n))
    PROVE  Holds(Rehash(a, t.slots[n]), c, t.slots, Below(t.slots, n + 1))
<1>1. PICK S : S = t.slots
  OBVIOUS
<1>2. /\ S \in Arrays(t.cap) /\ DOMAIN S = 0 .. t.cap - 1 /\ S[n] \in Slots /\ Distinct(S)
      /\ LiveAt(S) \subseteq 0 .. t.cap - 1 /\ t.cap \in Nat
  <2>1. Typed(t) /\ Distinct(t.slots)
    BY Zenon DEF Good, Sound
  <2> QED
    BY Zenon, <1>1, <2>1, TableFacts
<1>3. CASE S[n].st # "live"
  <2>1. Below(S, n + 1) = Below(S, n)
    BY <1>2, <1>3 DEF Below, LiveAt
  <2>2. Rehash(a, S[n]) = a
    BY Zenon, <1>3 DEF Rehash
  <2>3. Holds(a, c, S, Below(S, n + 1))
    BY Zenon, <1>1, <2>1
  <2> QED
    BY Zenon, <1>1, <2>2, <2>3
<1>4. CASE S[n].st = "live"
  <2>1. S[n] \in LiveSlots /\ n \in LiveAt(S) /\ n \notin Below(S, n)
    BY <1>2, <1>4, SlotFacts DEF LiveAt, Below
  <2>2. Below(S, n + 1) = Below(S, n) \cup {n}
    BY <1>2, <2>1 DEF Below
  <2>3. IsFiniteSet(LiveAt(S)) /\ Cardinality(LiveAt(S)) <= t.cap /\ Cardinality(LiveAt(S)) \in Nat
    <3>1. PICK N \in Nat : N = t.cap
      BY Zenon, <1>2
    <3>2. IsFiniteSet(0 .. N - 1) /\ Cardinality(0 .. N - 1) = N
      BY FS_Interval
    <3>3. LiveAt(S) \subseteq 0 .. N - 1
      BY Zenon, <1>2, <3>1
    <3>4. IsFiniteSet(LiveAt(S)) /\ Cardinality(LiveAt(S)) <= Cardinality(0 .. N - 1)
      BY Zenon, <3>2, <3>3, FS_Subset
    <3> QED
      BY Zenon, <3>1, <3>2, <3>4, FS_CardinalityType
  <2>4. /\ IsFiniteSet(Below(S, n)) /\ Cardinality(Below(S, n)) \in Nat
        /\ Cardinality(Below(S, n)) <= Cardinality(LiveAt(S))
    <3>1. Below(S, n) \subseteq LiveAt(S)
      BY Zenon DEF Below
    <3> QED
      BY Zenon, <2>3, <3>1, FS_Subset, FS_CardinalityType
  <2>5. Holds(a, c, S, Below(S, n))
    BY Zenon, <1>1
  <2>6. /\ Rehashing(a, c) /\ Cardinality(LiveAt(a.slots)) = Cardinality(Below(S, n))
        /\ \A k, v : Maps(a.slots, k, v) <=> Says(S, Below(S, n), k, v)
    BY Zenon, <2>5 DEF Holds
  <2>7. Cardinality(LiveAt(a.slots)) < c
    BY <1>2, <2>3, <2>4, <2>6
  <2>8. ASSUME NEW j \in LiveAt(a.slots), a.slots[j].key = S[n].key PROVE FALSE
    <3>1. Maps(a.slots, S[n].key, a.slots[j].val)
      BY Zenon, <2>8 DEF Maps
    <3>2. PICK i \in Below(S, n) : S[i].key = S[n].key
      BY ZenonT(30), <2>6, <3>1 DEF Says
    <3>3. i \in LiveAt(S)
      BY Zenon DEF Below
    <3> QED
      BY Zenon, <1>2, <2>1, <3>2, <3>3 DEF Distinct
  <2>9. \A j \in LiveAt(a.slots) : a.slots[j].key # S[n].key
    BY Zenon, <2>8
  <2>10. PICK r : r = Rehash(a, S[n])
    OBVIOUS
  <2>11. /\ Rehashing(r, c) /\ Cardinality(LiveAt(r.slots)) = Cardinality(LiveAt(a.slots)) + 1
         /\ \A k, v : Maps(r.slots, k, v) <=>
                         Maps(a.slots, k, v) \/ (k = S[n].key /\ v = S[n].val)
    BY Zenon, <2>1, <2>6, <2>7, <2>9, <2>10, RehashKeeps
  <2>12. Cardinality(Below(S, n) \cup {n}) = Cardinality(Below(S, n)) + 1
    BY Zenon, <2>1, <2>4, OneMore
  <2>13. Cardinality(LiveAt(r.slots)) = Cardinality(Below(S, n + 1))
    BY Zenon, <2>2, <2>6, <2>11, <2>12
  <2>14. \A k, v : Says(S, Below(S, n + 1), k, v) <=>
                     Says(S, Below(S, n), k, v) \/ (k = S[n].key /\ v = S[n].val)
    BY Zenon, <2>2 DEF Says
  <2>15. \A k, v : Maps(r.slots, k, v) <=> Says(S, Below(S, n + 1), k, v)
    BY Zenon, <2>6, <2>11, <2>14
  <2>16. Holds(r, c, S, Below(S, n + 1))
    BY Zenon, <2>11, <2>13, <2>15 DEF Holds
  <2> QED
    BY Zenon, <1>1, <2>10, <2>16
<1> QED
  BY <1>3, <1>4

(* Growing: every entry is in the new table, tombstones are not.           *)
LEMMA GrowKeeps ==
    ASSUME NEW t, Good(t), NEW c \in Nat \ {0}, t.cap < c
    PROVE  /\ Good(GrowTo(t, c)) /\ GrowTo(t, c).cap = c
           /\ GrowTo(t, c).live = t.live /\ GrowTo(t, c).used = t.live
           /\ LiveAt(GrowTo(t, c).slots) = Taken(GrowTo(t, c).slots)
           /\ \A k, v : Maps(GrowTo(t, c).slots, k, v) <=> Maps(t.slots, k, v)
<1>1. PICK S : S = t.slots
  OBVIOUS
<1>2. PICK N \in Nat : N = t.cap
  BY Zenon, TableFacts DEF Good
<1>3. PICK f : /\ Fills(t, c, N, f)
               /\ GrowTo(t, c) = [f[N] EXCEPT !.live = t.live, !.used = t.live]
  BY Zenon, <1>2, GrowFills
<1>4. f[0] = Blank(c) /\ \A n \in 0 .. N - 1 : f[n + 1] = Rehash(f[n], S[n])
  BY <1>1, <1>2, <1>3 DEF Fills
<1> DEFINE I == {n \in Nat : n <= N => Holds(f[n], c, S, Below(S, n))}
<1>5. 0 \in I
  <2>1. Below(S, 0) = {}
    <3>1. LiveAt(S) \subseteq Nat
      <4>1. LiveAt(S) \subseteq Taken(S) /\ Taken(S) \subseteq 0 .. N - 1
        BY Zenon, <1>1, <1>2, TableFacts DEF Good
      <4> QED
        BY <4>1
    <3> QED
      BY <3>1 DEF Below
  <2>2. PICK b : b = Blank(c)
    OBVIOUS
  <2>3. /\ Good(b) /\ b.cap = c /\ LiveAt(b.slots) = {} /\ Taken(b.slots) = {}
        /\ \A k, v : ~Maps(b.slots, k, v)
    BY Zenon, <2>2, BlankGood
  <2>4. Holds(b, c, S, Below(S, 0))
    BY Zenon, <2>1, <2>3 DEF Holds, Rehashing, Good, Says
  <2> QED
    BY Zenon, <1>4, <2>2, <2>4
<1>6. ASSUME NEW n \in Nat, n \in I PROVE n + 1 \in I
  <2>1. CASE n + 1 <= N
    <3>1. n <= N /\ n \in 0 .. N - 1 /\ n + 1 \in Nat
      BY <2>1
    <3>2. Holds(f[n], c, S, Below(S, n))
      BY Zenon, <1>6, <3>1
    <3>3. Holds(f[n + 1], c, S, Below(S, n + 1))
      BY Zenon, <1>1, <1>2, <1>4, <3>1, <3>2, HoldsMore
    <3> QED
      BY Zenon, <3>1, <3>3
  <2>2. CASE ~(n + 1 <= N)
    <3>1. n + 1 \in Nat
      OBVIOUS
    <3> QED
      BY Zenon, <2>2, <3>1
  <2> QED
    BY <2>1, <2>2
<1> HIDE DEF I
<1>7. N \in I
  BY Zenon, <1>5, <1>6, Induction
<1>8. PICK a : a = f[N]
  OBVIOUS
<1>9. Holds(a, c, S, Below(S, N))
  <2>1. N <= N
    OBVIOUS
  <2> QED
    BY Zenon, <1>7, <1>8, <2>1 DEF I
<1>10. Below(S, N) = LiveAt(S)
  <2>1. LiveAt(S) \subseteq 0 .. N - 1
    BY Zenon, <1>1, <1>2, TableFacts DEF Good
  <2> QED
    BY <2>1 DEF Below
<1>11. /\ Typed(a) /\ a.cap = c /\ Sound(a.slots, c) /\ LiveAt(a.slots) = Taken(a.slots)
       /\ Cardinality(LiveAt(a.slots)) = t.live
       /\ \A k, v : Maps(a.slots, k, v) <=> Maps(S, k, v)
  <2>1. Holds(a, c, S, LiveAt(S))
    BY Zenon, <1>9, <1>10
  <2>2. /\ Rehashing(a, c) /\ Cardinality(LiveAt(a.slots)) = Cardinality(LiveAt(S))
        /\ \A k, v : Maps(a.slots, k, v) <=> Says(S, LiveAt(S), k, v)
    BY Zenon, <2>1 DEF Holds
  <2>3. \A k, v : Says(S, LiveAt(S), k, v) <=> Maps(S, k, v)
    BY Zenon DEF Says, Maps
  <2>4. Cardinality(LiveAt(a.slots)) = t.live
    BY Zenon, <1>1, <2>2 DEF Good
  <2> QED
    BY Zenon, <2>2, <2>3, <2>4 DEF Rehashing
<1>12. PICK g : g = GrowTo(t, c)
  OBVIOUS
<1>13. g = [cap |-> a.cap, slots |-> a.slots, live |-> t.live, used |-> t.live]
  BY Zenon, <1>3, <1>8, <1>11, <1>12 DEF Typed
<1>14. t.live \in Nat
  BY Zenon, TableFacts DEF Good
<1>15. /\ Typed(g) /\ g.cap = c /\ g.slots = a.slots /\ g.live = t.live /\ g.used = t.live
  BY <1>11, <1>13, <1>14 DEF Typed
<1> QED
  BY Zenon, <1>1, <1>11, <1>12, <1>15 DEF Good

-----------------------------------------------------------------------------
(* The circle of slots, cut open behind an empty one: e comes last.        *)
Pos(x, e, c) == IF x > e THEN x - e - 1 ELSE x - e - 1 + c

(* No path of a probe that ends before e runs across the cut.              *)
LEMMA Unwrapped ==
    ASSUME NEW c \in Nat \ {0}, NEW e \in 0 .. c - 1
    PROVE  /\ \A x \in 0 .. c - 1 : Pos(x, e, c) \in 0 .. c - 1 /\ (x # e <=> Pos(x, e, c) < c - 1)
           /\ \A x, y \in 0 .. c - 1 : Pos(x, e, c) = Pos(y, e, c) => x = y
           /\ \A h, i \in 0 .. c - 1 : i # e /\ e \notin Path(h, i, c)
                                          => Pos(h, e, c) <= Pos(i, e, c)
           /\ \A h, i, x \in 0 .. c - 1 : Pos(h, e, c) <= Pos(i, e, c) =>
                (x \in Path(h, i, c) <=>
                   Pos(h, e, c) <= Pos(x, e, c) /\ Pos(x, e, c) < Pos(i, e, c))
           /\ \A h, i \in 0 .. c - 1 : Path(h, i, c) \subseteq 0 .. c - 1
BY DEF Pos, Path

(* d slots on.                                                             *)
LEMMA Stepped ==
    ASSUME NEW c \in Nat \ {0}, NEW e \in 0 .. c - 1, NEW s \in 0 .. c - 1,
           NEW d \in 0 .. c - 1, Pos(s, e, c) + d <= c - 1
    PROVE  (s + d) % c \in 0 .. c - 1 /\ Pos((s + d) % c, e, c) = Pos(s, e, c) + d
<1>1. PICK x \in 0 .. c - 1 : x = (s + d) % c /\ Ahead(s, d, c, x)
  BY Zenon, Wraps
<1>2. Pos(x, e, c) = Pos(s, e, c) + d
  BY <1>1 DEF Ahead, Pos
<1> QED
  BY Zenon, <1>1, <1>2

(* The entry at j stays exactly when its home lies behind the hole.        *)
LEMMA Staying ==
    ASSUME NEW c \in Nat \ {0}, NEW e \in 0 .. c - 1, NEW i \in 0 .. c - 1,
           NEW j \in 0 .. c - 1, NEW h \in 0 .. c - 1, j # e,
           Pos(i, e, c) < Pos(j, e, c), Pos(h, e, c) <= Pos(j, e, c)
    PROVE  StaysAt(i, h, j) <=> Pos(i, e, c) < Pos(h, e, c)
BY DEF StaysAt, Pos

(* A is S without key k, and has no tombstone.                             *)
Rest(S, k, c, A) ==
    /\ A \in Arrays(c) /\ Distinct(A) /\ LiveAt(A) = Taken(A)
    /\ Cardinality(LiveAt(A)) = Cardinality(LiveAt(S)) - 1
    /\ \A a, b : Maps(A, a, b) <=> Maps(S, a, b) /\ a # k

(* Only the slots after position n may still be cut off, and only by the   *)
(* hole.                                                                   *)
Cut(A, c, e, hole, n) ==
    \A i \in LiveAt(A) : \A x \in Path(Hash[A[i].key] % c, i, c) :
        x \in Taken(A) \/ (x = hole /\ n < Pos(i, e, c))

(* The array d slots behind the deleted key at from.                       *)
Sliding(S, k, c, from, e, d, a) ==
    /\ a = [slots |-> a.slots, hole |-> a.hole, done |-> a.done]
    /\ a.done \in BOOLEAN /\ Rest(S, k, c, a.slots)
    /\ a.done => Reached(a.slots, c)
    /\ ~a.done => /\ a.hole \in 0 .. c - 1 /\ a.hole # e
                  /\ a.hole \notin Taken(a.slots) /\ e \notin Taken(a.slots)
                  /\ Pos(a.hole, e, c) <= Pos(from, e, c) + d /\ Pos(from, e, c) + d < c - 1
                  /\ Cut(a.slots, c, e, a.hole, Pos(from, e, c) + d)

(* The chain of a live slot, in positions.                                 *)
LEMMA Chain ==
    ASSUME NEW c \in Nat \ {0}, NEW e \in 0 .. c - 1, NEW A \in Arrays(c), e \notin Taken(A),
           NEW i \in LiveAt(A), e \notin Path(Hash[A[i].key] % c, i, c)
    PROVE  /\ i \in 0 .. c - 1 /\ i # e /\ Hash[A[i].key] % c \in 0 .. c - 1
           /\ Pos(Hash[A[i].key] % c, e, c) <= Pos(i, e, c)
           /\ \A x \in Path(Hash[A[i].key] % c, i, c) :
                 /\ x \in 0 .. c - 1 /\ Pos(Hash[A[i].key] % c, e, c) <= Pos(x, e, c)
                 /\ Pos(x, e, c) < Pos(i, e, c)
           /\ \A x \in 0 .. c - 1 :
                 Pos(Hash[A[i].key] % c, e, c) <= Pos(x, e, c) /\ Pos(x, e, c) < Pos(i, e, c)
                   => x \in Path(Hash[A[i].key] % c, i, c)
<1>1. i \in 0 .. c - 1 /\ A[i] \in Slots /\ A[i].st = "live" /\ i # e
  BY DEF Arrays, LiveAt, Taken
<1>2. A[i].key \in TKeys
  BY Zenon, <1>1, SlotFacts
<1>3. PICK h \in 0 .. c - 1 : h = Hash[A[i].key] % c
  <2>1. Hash[A[i].key] \in Nat
    BY <1>2, ProbeTableAssumption
  <2> QED
    BY Zenon, <2>1, Wraps
<1>4. Pos(h, e, c) <= Pos(i, e, c)
  BY Zenon, <1>1, <1>3, Unwrapped
<1>5. \A x \in Path(h, i, c) :
        x \in 0 .. c - 1 /\ Pos(h, e, c) <= Pos(x, e, c) /\ Pos(x, e, c) < Pos(i, e, c)
  BY Zenon, <1>1, <1>4, Unwrapped
<1>6. \A x \in 0 .. c - 1 :
        Pos(h, e, c) <= Pos(x, e, c) /\ Pos(x, e, c) < Pos(i, e, c) => x \in Path(h, i, c)
  BY Zenon, <1>1, <1>4, Unwrapped
<1> QED
  BY Zenon, <1>1, <1>3, <1>4, <1>5, <1>6

(* The chain of a live slot that the hole may still cut.                   *)
LEMMA CutChain ==
    ASSUME NEW c \in Nat \ {0}, NEW e \in 0 .. c - 1, NEW A \in Arrays(c), e \notin Taken(A),
           NEW hole, hole # e, NEW n, Cut(A, c, e, hole, n), NEW i \in LiveAt(A)
    PROVE  e \notin Path(Hash[A[i].key] % c, i, c)
BY Zenon DEF Cut

(* The end of the chain: no entry behind it has its home before it.        *)
LEMMA SlideEnds ==
    ASSUME NEW c \in Nat \ {0}, NEW e \in 0 .. c - 1, NEW A \in Arrays(c), e \notin Taken(A),
           NEW hole \in 0 .. c - 1, hole # e, NEW n \in Nat, Cut(A, c, e, hole, n),
           Pos(hole, e, c) <= n, NEW j \in 0 .. c - 1, Pos(j, e, c) = n + 1, j \notin Taken(A)
    PROVE  Reached(A, c)
<1> SUFFICES ASSUME NEW i \in LiveAt(A), NEW x \in Path(Hash[A[i].key] % c, i, c),
                    x \notin Taken(A)
             PROVE  FALSE
  BY Zenon DEF Reached
<1>1. x = hole /\ n < Pos(i, e, c)
  BY Zenon DEF Cut
<1>2. PICK h \in 0 .. c - 1 : h = Hash[A[i].key] % c
  BY Zenon, CutChain, Chain
<1>3. /\ i \in 0 .. c - 1 /\ Pos(h, e, c) <= Pos(hole, e, c)
      /\ Pos(h, e, c) <= Pos(j, e, c) /\ Pos(j, e, c) < Pos(i, e, c) => j \in Path(h, i, c)
  BY Zenon, <1>1, <1>2, CutChain, Chain
<1>4. i # j
  BY DEF LiveAt, Taken
<1>5. /\ Pos(i, e, c) \in 0 .. c - 1 /\ Pos(h, e, c) \in 0 .. c - 1
      /\ Pos(hole, e, c) \in 0 .. c - 1 /\ Pos(i, e, c) # Pos(j, e, c)
  BY Zenon, <1>3, <1>4, Unwrapped
<1>6. Pos(h, e, c) <= Pos(j, e, c) /\ Pos(j, e, c) < Pos(i, e, c) /\ Pos(j, e, c) # Pos(hole, e, c)
  BY <1>1, <1>3, <1>5
<1>7. j \in Path(h, i, c) /\ j # hole
  BY Zenon, <1>3, <1>6
<1> QED
  BY Zenon, <1>2, <1>7 DEF Cut

(* An entry that stays is not cut off.                                     *)
LEMMA SlideStays ==
    ASSUME NEW c \in Nat \ {0}, NEW e \in 0 .. c - 1, NEW A \in Arrays(c), e \notin Taken(A),
           NEW hole \in 0 .. c - 1, hole # e, NEW n \in Nat, Cut(A, c, e, hole, n),
           Pos(hole, e, c) <= n, NEW j \in LiveAt(A), Pos(j, e, c) = n + 1,
           StaysAt(hole, Hash[A[j].key] % c, j)
    PROVE  Cut(A, c, e, hole, n + 1)
<1>1. PICK h \in 0 .. c - 1 : h = Hash[A[j].key] % c
  BY Zenon, CutChain, Chain
<1>2. j \in 0 .. c - 1 /\ j # e /\ Pos(h, e, c) <= Pos(j, e, c)
  BY Zenon, <1>1, CutChain, Chain
<1>3. /\ Pos(h, e, c) \in 0 .. c - 1 /\ Pos(hole, e, c) \in 0 .. c - 1
      /\ Pos(j, e, c) \in 0 .. c - 1
  BY Zenon, <1>2, Unwrapped
<1>4. Pos(hole, e, c) < Pos(j, e, c)
  BY <1>3
<1>5. Pos(hole, e, c) < Pos(h, e, c)
  BY Zenon, <1>1, <1>2, <1>4, Staying
<1>6. hole \notin Path(h, j, c)
  <2>1. ~(Pos(h, e, c) <= Pos(hole, e, c))
    BY <1>3, <1>5
  <2> QED
    BY Zenon, <1>1, <2>1, CutChain, Chain
<1> SUFFICES ASSUME NEW i \in LiveAt(A), NEW x \in Path(Hash[A[i].key] % c, i, c),
                    x \notin Taken(A)
             PROVE  x = hole /\ n + 1 < Pos(i, e, c)
  BY Zenon DEF Cut
<1>7. x = hole /\ n < Pos(i, e, c)
  BY Zenon DEF Cut
<1>8. i # j
  BY Zenon, <1>1, <1>6, <1>7
<1>9. i \in 0 .. c - 1
  BY Zenon, CutChain, Chain
<1>10. Pos(i, e, c) \in 0 .. c - 1 /\ Pos(i, e, c) # Pos(j, e, c)
  BY Zenon, <1>2, <1>8, <1>9, Unwrapped
<1> QED
  BY <1>7, <1>10

(* T is A with the entry of j moved into the hole.                         *)
Moves(A, T, c, hole, j) ==
    /\ Distinct(T) /\ LiveAt(T) = Taken(T) /\ Cardinality(LiveAt(T)) = Cardinality(LiveAt(A))
    /\ \A k, v : Maps(T, k, v) <=> Maps(A, k, v)
    /\ T \in Arrays(c) /\ T[hole] = A[j]
    /\ \A i \in 0 .. c - 1 : i # hole /\ i # j => T[i] = A[i]
    /\ LiveAt(T) = (LiveAt(A) \cup {hole}) \ {j} /\ Taken(T) = (Taken(A) \cup {hole}) \ {j}

(* What moving an entry keeps.                                             *)
LEMMA MoveKeeps ==
    ASSUME NEW c \in Nat \ {0}, NEW A \in Arrays(c), Distinct(A), LiveAt(A) = Taken(A),
           NEW hole \in 0 .. c - 1, hole \notin Taken(A), NEW j \in LiveAt(A), NEW T,
           T = With(With(A, hole, A[j]), j, EmptySlot)
    PROVE  Moves(A, T, c, hole, j)
<1>1. /\ A[j] \in Slots /\ A[j].st = "live" /\ j \in 0 .. c - 1 /\ j # hole
      /\ EmptySlot \in Slots /\ EmptySlot.st = "empty"
      /\ DOMAIN A = 0 .. c - 1 /\ hole \notin LiveAt(A)
  BY SlotFacts DEF Arrays, LiveAt, Taken
<1>2. /\ T \in Arrays(c) /\ DOMAIN T = 0 .. c - 1 /\ T[hole] = A[j] /\ T[j] = EmptySlot
      /\ \A i \in 0 .. c - 1 : i # hole /\ i # j => T[i] = A[i]
  BY <1>1 DEF Arrays, With
<1>3. LiveAt(T) = (LiveAt(A) \cup {hole}) \ {j}
  BY <1>1, <1>2 DEF LiveAt
<1>4. Taken(T) = (Taken(A) \cup {hole}) \ {j}
  BY <1>1, <1>2 DEF Taken
<1>6. \A i \in LiveAt(T) : (i = hole /\ T[i] = A[j]) \/ (i \in LiveAt(A) /\ i # j /\ T[i] = A[i])
  BY Zenon, <1>1, <1>2, <1>3 DEF LiveAt
<1>7. Distinct(T)
  BY <1>6 DEF Distinct
<1>8. \A k, v : Maps(T, k, v) <=> Maps(A, k, v)
  <2>1. ASSUME NEW k, NEW v, Maps(T, k, v) PROVE Maps(A, k, v)
    BY Zenon, <1>6, <2>1 DEF Maps
  <2>2. ASSUME NEW k, NEW v, Maps(A, k, v) PROVE Maps(T, k, v)
    <3>1. PICK i \in LiveAt(A) : A[i].key = k /\ A[i].val = v
      BY Zenon, <2>2 DEF Maps
    <3>2. CASE i = j
      <4>1. hole \in LiveAt(T)
        BY Zenon, <1>1, <1>3
      <4> QED
        BY Zenon, <1>2, <3>1, <3>2, <4>1 DEF Maps
    <3>3. CASE i # j
      <4>1. i \in LiveAt(T) /\ T[i] = A[i]
        BY Zenon, <1>1, <1>2, <1>3, <3>3 DEF LiveAt
      <4> QED
        BY Zenon, <3>1, <4>1 DEF Maps
    <3> QED
      BY <3>2, <3>3
  <2> QED
    BY Zenon, <2>1, <2>2
<1>9. Cardinality(LiveAt(T)) = Cardinality(LiveAt(A))
  <2>1. IsFiniteSet(LiveAt(A)) /\ Cardinality(LiveAt(A)) \in Nat
    BY Zenon, Counting
  <2>2. /\ IsFiniteSet(LiveAt(A) \cup {hole}) /\ j \in LiveAt(A) \cup {hole}
        /\ Cardinality(LiveAt(A) \cup {hole}) = Cardinality(LiveAt(A)) + 1
    BY Zenon, <1>1, <2>1, OneMore
  <2>3. Cardinality((LiveAt(A) \cup {hole}) \ {j}) = Cardinality(LiveAt(A) \cup {hole}) - 1
    BY Zenon, <2>2, OneMore
  <2> QED
    BY <1>3, <2>1, <2>2, <2>3
<1>10. LiveAt(T) = Taken(T)
  BY Zenon, <1>3, <1>4
<1> QED
  BY Zenon, <1>2, <1>3, <1>4, <1>7, <1>8, <1>9, <1>10 DEF Moves

(* The entry moved into the hole is found there, and leaves a new hole.    *)
LEMMA SlideMoves ==
    ASSUME NEW c \in Nat \ {0}, NEW e \in 0 .. c - 1, NEW A \in Arrays(c), e \notin Taken(A),
           LiveAt(A) = Taken(A),
           NEW hole \in 0 .. c - 1, hole # e, NEW n \in Nat, Cut(A, c, e, hole, n),
           hole \notin Taken(A), Pos(hole, e, c) <= n, NEW j \in LiveAt(A), Pos(j, e, c) = n + 1,
           ~StaysAt(hole, Hash[A[j].key] % c, j), NEW T, Moves(A, T, c, hole, j)
    PROVE  Cut(T, c, e, j, n + 1)
<1>1. PICK h \in 0 .. c - 1 : h = Hash[A[j].key] % c
  BY Zenon, CutChain, Chain
<1>2. j \in 0 .. c - 1 /\ j # e /\ Pos(h, e, c) <= Pos(j, e, c)
  BY Zenon, <1>1, CutChain, Chain
<1>3. /\ Pos(h, e, c) \in 0 .. c - 1 /\ Pos(hole, e, c) \in 0 .. c - 1
      /\ Pos(j, e, c) \in 0 .. c - 1
  BY Zenon, <1>2, Unwrapped
<1>4. Pos(hole, e, c) < Pos(j, e, c)
  BY <1>3
<1>5. ~(Pos(hole, e, c) < Pos(h, e, c))
  BY Zenon, <1>1, <1>2, <1>4, Staying
<1>6. Pos(h, e, c) <= Pos(hole, e, c)
  BY <1>3, <1>5
<1> SUFFICES ASSUME NEW i \in LiveAt(T), NEW x \in Path(Hash[T[i].key] % c, i, c),
                    x \notin Taken(T)
             PROVE  x = j /\ n + 1 < Pos(i, e, c)
  BY Zenon DEF Cut
<1>7. CASE i = hole
  <2>1. x \in Path(h, hole, c)
    BY Zenon, <1>1, <1>7 DEF Moves
  <2>2. x \in 0 .. c - 1 /\ Pos(h, e, c) <= Pos(x, e, c) /\ Pos(x, e, c) < Pos(hole, e, c)
    BY Zenon, <1>6, <2>1, Unwrapped
  <2>3. Pos(x, e, c) \in 0 .. c - 1
    BY Zenon, <2>2, Unwrapped
  <2>4. /\ Pos(x, e, c) < Pos(j, e, c) /\ Pos(x, e, c) # Pos(hole, e, c)
        /\ Pos(x, e, c) # Pos(j, e, c)
    BY <1>3, <1>4, <2>2, <2>3
  <2>5. x \in Path(h, j, c)
    BY Zenon, <1>1, <2>2, <2>4, CutChain, Chain
  <2>6. x \in Taken(A)
    BY Zenon, <1>1, <2>4, <2>5 DEF Cut
  <2> QED
    BY Zenon, <2>4, <2>6 DEF Moves
<1>8. CASE i # hole
  <2>1. i \in LiveAt(A) /\ i # j
    BY Zenon, <1>8 DEF Moves
  <2>2. i \in 0 .. c - 1
    BY Zenon, <2>1, CutChain, Chain
  <2>3. T[i] = A[i]
    BY Zenon, <1>8, <2>1, <2>2 DEF Moves
  <2>4. x = j
    <3>0. x \in Path(Hash[A[i].key] % c, i, c)
      BY Zenon, <2>3
    <3>1. x \in Taken(A) \/ x = hole
      BY Zenon, <2>1, <3>0 DEF Cut
    <3> QED
      BY Zenon, <3>1 DEF Moves
  <2>5. Pos(j, e, c) < Pos(i, e, c)
    BY Zenon, <2>1, <2>3, <2>4, CutChain, Chain
  <2> QED
    BY Zenon, <2>4, <2>5
<1> QED
  BY <1>7, <1>8

(* One step of the slide.                                                  *)
LEMMA SlideKeeps ==
    ASSUME NEW t, Typed(t), NEW c \in Nat \ {0}, t.cap = c, NEW S, NEW k, NEW from \in 0 .. c - 1,
           NEW e \in 0 .. c - 1, NEW d \in 0 .. c - 1, d + 1 \in 0 .. c - 1, NEW a,
           Sliding(S, k, c, from, e, d, a)
    PROVE  Sliding(S, k, c, from, e, d + 1, Slide(t, from, d + 1, a))
<1>1. PICK j : j = (from + (d + 1)) % c /\ j = (from + (d + 1)) % t.cap
  BY Zenon
<1>2. PICK A : A = a.slots
  OBVIOUS
<1>3. /\ a = [slots |-> A, hole |-> a.hole, done |-> a.done] /\ a.done \in BOOLEAN
      /\ Rest(S, k, c, A) /\ A \in Arrays(c) /\ Distinct(A) /\ LiveAt(A) = Taken(A)
  BY Zenon, <1>2 DEF Sliding, Rest
<1>6. PICK at, dn : a = [slots |-> A, hole |-> at, done |-> dn]
  BY Zenon, <1>3
<1>4. CASE a.done
  <2>1. Slide(t, from, d + 1, a) = [a EXCEPT !.done = TRUE]
    BY Zenon, <1>4 DEF Slide
  <2>2. [a EXCEPT !.done = TRUE] = a
    BY <1>3, <1>4
  <2> QED
    BY Zenon, <1>4, <2>1, <2>2 DEF Sliding
<1>5. CASE ~a.done
  <2>1. PICK n : n = Pos(from, e, c) + d
    OBVIOUS
  <2>2. PICK hole : hole = a.hole
    OBVIOUS
  <2>3. /\ hole \in 0 .. c - 1 /\ hole # e /\ hole \notin Taken(A) /\ e \notin Taken(A)
        /\ Pos(hole, e, c) <= n /\ n < c - 1 /\ Cut(A, c, e, hole, n)
    BY Zenon, <1>2, <1>5, <2>1, <2>2 DEF Sliding
  <2>4. Pos(from, e, c) \in 0 .. c - 1
    BY Zenon, Unwrapped
  <2>5. /\ n \in Nat /\ Pos(from, e, c) + (d + 1) = n + 1 /\ n + 1 <= c - 1
        /\ Pos(from, e, c) + (d + 1) <= c - 1
    BY <2>1, <2>3, <2>4
  <2>6. j \in 0 .. c - 1 /\ Pos(j, e, c) = n + 1
    <3>1. PICK g \in 0 .. c - 1 : g = d + 1
      BY Zenon
    <3>2. Pos(from, e, c) + g <= c - 1 /\ Pos(from, e, c) + g = n + 1 /\ j = (from + g) % c
      BY Zenon, <1>1, <2>5, <3>1
    <3>3. (from + g) % c \in 0 .. c - 1 /\ Pos((from + g) % c, e, c) = Pos(from, e, c) + g
      BY <3>2, Stepped
    <3> QED
      BY Zenon, <3>2, <3>3
  <2>7. CASE A[j].st = "empty"
    <3>1. j \notin Taken(A)
      BY Zenon, <2>7 DEF Taken
    <3>2. Reached(A, c)
      BY Zenon, <1>3, <2>3, <2>5, <2>6, <3>1, SlideEnds
    <3>3. PICK b : b = Slide(t, from, d + 1, a)
      OBVIOUS
    <3>4. b = [a EXCEPT !.done = TRUE]
      BY <1>1, <1>2, <2>7, <3>3 DEF Slide
    <3>5. b = [slots |-> A, hole |-> a.hole, done |-> TRUE]
      BY Zenon, <1>6, <3>4
    <3>6. b.slots = A /\ b.done = TRUE /\ b = [slots |-> b.slots, hole |-> b.hole, done |-> b.done]
      BY <3>5
    <3> QED
      BY Zenon, <1>3, <3>2, <3>3, <3>6 DEF Sliding
  <2>8. CASE A[j].st # "empty"
    <3>1. j \in LiveAt(A)
      <4>1. j \in Taken(A)
        BY <1>3, <2>6, <2>8 DEF Taken, Arrays
      <4> QED
        BY Zenon, <1>3, <4>1
    <3>2. j # e
      BY Zenon, <1>3, <2>3, <3>1
    <3>3. n + 1 < c - 1
      <4>1. Pos(j, e, c) < c - 1
        BY Zenon, <2>6, <3>2, Unwrapped
      <4> QED
        BY Zenon, <2>6, <4>1
    <3>4. CASE StaysAt(hole, Hash[A[j].key] % c, j)
      <4>1. Slide(t, from, d + 1, a) = a
        BY Zenon, <1>1, <1>2, <1>5, <2>2, <2>8, <3>4 DEF Slide, Home
      <4>2. Cut(A, c, e, hole, n + 1)
        BY Zenon, <1>3, <2>3, <2>5, <2>6, <3>1, <3>4, SlideStays
      <4>3. Pos(hole, e, c) \in 0 .. c - 1
        BY Zenon, <2>3, Unwrapped
      <4>4. Pos(hole, e, c) <= n + 1
        BY <2>3, <2>5, <4>3
      <4> QED
        BY Zenon, <1>2, <1>3, <1>5, <2>2, <2>3, <2>5, <3>3, <4>1, <4>2, <4>4
           DEF Sliding
    <3>5. CASE ~StaysAt(hole, Hash[A[j].key] % c, j)
      <4>1. PICK T : T = With(With(A, hole, A[j]), j, EmptySlot)
        OBVIOUS
      <4>2. Moves(A, T, c, hole, j)
        BY Zenon, <1>3, <2>3, <3>1, <4>1, MoveKeeps
      <4>3. Cut(T, c, e, j, n + 1)
        BY Zenon, <1>3, <2>3, <2>5, <2>6, <3>1, <3>5, <4>2, SlideMoves
      <4>4. Rest(S, k, c, T)
        BY Zenon, <1>3, <4>2 DEF Rest, Moves
      <4>5. j \notin Taken(T) /\ e \notin Taken(T)
        BY Zenon, <2>3, <4>2 DEF Moves
      <4>6. PICK b : b = Slide(t, from, d + 1, a)
        OBVIOUS
      <4>7. b = [a EXCEPT !.slots[hole] = A[j], !.slots[j] = EmptySlot, !.hole = j]
        <5>1. ~StaysAt(a.hole, Home(A[j].key, t), j)
          BY Zenon, <2>2, <3>5 DEF Home
        <5> QED
          BY Zenon, <1>1, <1>2, <1>5, <2>2, <2>8, <4>6, <5>1 DEF Slide
      <4>8. b = [slots |-> T, hole |-> j, done |-> a.done]
        BY Zenon, <1>6, <4>1, <4>7 DEF With
      <4>9. b.slots = T /\ b.hole = j /\ b.done = a.done
        BY <4>8
      <4>10. Pos(j, e, c) <= n + 1
        BY <2>5, <2>6
      <4> QED
        BY Zenon, <1>3, <1>5, <2>5, <2>6, <3>2, <3>3, <4>3, <4>4, <4>5, <4>6,
           <4>8, <4>9, <4>10
           DEF Sliding
    <3> QED
      BY <3>4, <3>5
  <2> QED
    BY <2>7, <2>8
<1> QED
  BY <1>3, <1>4, <1>5

(* The first n steps of the slide.                                         *)
Slides(t, from, n, f) ==
    f = [d \in 0 .. n |-> IF d = 0 THEN [slots |-> [t.slots EXCEPT ![from] = EmptySlot],
                                         hole |-> from, done |-> FALSE]
                          ELSE LET before == f[d - 1] IN Slide(t, from, d, before)]

LEMMA SlidesExist ==
    ASSUME NEW t, NEW from
    PROVE  \A n \in Nat : \E f : Slides(t, from, n, f)
<1> DEFINE first == [slots |-> [t.slots EXCEPT ![from] = EmptySlot], hole |-> from, done |-> FALSE]
           S == {n \in Nat : \E f : Slides(t, from, n, f)}
<1>1. 0 \in S
  <2>1. Slides(t, from, 0, [d \in 0 .. 0 |-> first])
    BY DEF Slides
  <2> QED
    BY <2>1
<1>2. ASSUME NEW n \in Nat, n \in S PROVE n + 1 \in S
  <2>1. PICK f : Slides(t, from, n, f)
    BY <1>2
  <2> DEFINE g == [d \in 0 .. n + 1 |->
                     IF d = n + 1 THEN Slide(t, from, n + 1, f[n]) ELSE f[d]]
  <2>2. \A d \in 0 .. n : f[d] = IF d = 0 THEN first ELSE Slide(t, from, d, f[d - 1])
    BY Zenon, <2>1 DEF Slides
  <2> HIDE DEF first
  <2>3. ASSUME NEW d \in 0 .. n + 1
        PROVE  g[d] = IF d = 0 THEN first ELSE Slide(t, from, d, g[d - 1])
    <3>1. CASE d = n + 1
      <4>1. g[d] = Slide(t, from, d, f[n]) /\ d # 0 /\ d - 1 = n /\ g[n] = f[n]
        BY <3>1
      <4> QED
        BY Zenon, <4>1
    <3>2. CASE d # n + 1
      <4>1. d \in 0 .. n /\ g[d] = f[d] /\ (d # 0 => g[d - 1] = f[d - 1])
        BY <3>2
      <4> HIDE DEF g
      <4> QED
        BY <4>1, <2>2
    <3> QED
      BY <3>1, <3>2
  <2>4. g = [d \in 0 .. n + 1 |-> g[d]]
    BY Zenon
  <2> HIDE DEF g
  <2>5. Slides(t, from, n + 1, g)
    BY Zenon, <2>3, <2>4 DEF Slides, first
  <2> QED
    BY <2>5
<1> HIDE DEF S
<1>3. Nat \subseteq S
  BY Zenon, <1>1, <1>2, Induction
<1> QED
  BY Zenon, <1>3 DEF S

LEMMA DeleteSlides ==
    ASSUME NEW t, t.cap \in Nat \ {0}, NEW k, Has(t, k)
    PROVE  \E f : /\ Slides(t, SlotOf(t, k), t.cap - 1, f)
                  /\ RcDelete(t, k) = [t EXCEPT !.slots = f[t.cap - 1].slots,
                                                !.live = @ - 1, !.used = @ - 1]
<1> DEFINE from == SlotOf(t, k)
           F[d \in 0 .. t.cap - 1] ==
               IF d = 0 THEN [slots |-> [t.slots EXCEPT ![from] = EmptySlot],
                              hole |-> from, done |-> FALSE]
               ELSE LET before == F[d - 1] IN Slide(t, from, d, before)
<1>1. RcDelete(t, k) = [t EXCEPT !.slots = F[t.cap - 1].slots, !.live = @ - 1, !.used = @ - 1]
  BY DEF RcDelete
<1>2. F = CHOOSE f : Slides(t, from, t.cap - 1, f)
  BY DEF Slides
<1> HIDE DEF F
<1>3. t.cap - 1 \in Nat
  OBVIOUS
<1>4. Slides(t, from, t.cap - 1, F)
  BY Zenon, <1>2, <1>3, SlidesExist
<1> QED
  BY Zenon, <1>1, <1>4

(* The slide begins with a hole where the key was.                         *)
LEMMA SlideBegins ==
    ASSUME NEW c \in Nat \ {0}, NEW S, Sound(S, c), LiveAt(S) = Taken(S),
           NEW from \in LiveAt(S), NEW e \in 0 .. c - 1, e \notin Taken(S), NEW a,
           a = [slots |-> With(S, from, EmptySlot), hole |-> from, done |-> FALSE]
    PROVE  Sliding(S, S[from].key, c, from, e, 0, a)
<1>1. PICK A : A = With(S, from, EmptySlot)
  OBVIOUS
<1>2. /\ S \in Arrays(c) /\ Reached(S, c) /\ Distinct(S) /\ from \in 0 .. c - 1
      /\ DOMAIN S = 0 .. c - 1 /\ EmptySlot \in Slots /\ EmptySlot.st = "empty"
      /\ from \in Taken(S) /\ from # e
  BY SlotFacts DEF Sound, Arrays, LiveAt, Taken
<1>3. /\ A \in Arrays(c) /\ DOMAIN A = 0 .. c - 1 /\ A[from] = EmptySlot
      /\ \A i \in 0 .. c - 1 : i # from => A[i] = S[i]
  BY <1>1, <1>2 DEF Arrays, With
<1>4. LiveAt(A) = LiveAt(S) \ {from} /\ Taken(A) = Taken(S) \ {from}
  BY <1>2, <1>3 DEF LiveAt, Taken
<1>5. \A i \in LiveAt(A) : i \in LiveAt(S) /\ i # from /\ A[i] = S[i]
  BY Zenon, <1>2, <1>3, <1>4 DEF LiveAt
<1>6. Distinct(A)
  BY <1>2, <1>5 DEF Distinct
<1>7. \A x, v : Maps(A, x, v) <=> Maps(S, x, v) /\ x # S[from].key
  BY Zenon, <1>2, <1>4, <1>5 DEF Maps, Distinct
<1>8. Cardinality(LiveAt(A)) = Cardinality(LiveAt(S)) - 1
  <2>1. IsFiniteSet(LiveAt(S))
    BY Zenon, <1>2, Counting
  <2>2. Cardinality(LiveAt(S) \ {from}) = Cardinality(LiveAt(S)) - 1
    BY Zenon, <2>1, OneMore
  <2> QED
    BY Zenon, <1>4, <2>2
<1>9. Rest(S, S[from].key, c, A)
  BY Zenon, <1>3, <1>4, <1>6, <1>7, <1>8 DEF Rest
<1>10. Pos(from, e, c) \in 0 .. c - 1 /\ Pos(from, e, c) < c - 1
  BY Zenon, <1>2, Unwrapped
<1>11. Cut(A, c, e, from, Pos(from, e, c))
  <2> SUFFICES ASSUME NEW i \in LiveAt(A), NEW x \in Path(Hash[A[i].key] % c, i, c),
                      x \notin Taken(A)
               PROVE  x = from /\ Pos(from, e, c) < Pos(i, e, c)
    BY Zenon DEF Cut
  <2>1. /\ i \in LiveAt(S) /\ A[i] = S[i]
        /\ Path(Hash[S[i].key] % c, i, c) \subseteq Taken(S)
    BY Zenon, <1>2, <1>5 DEF Reached
  <2>2. x = from
    BY Zenon, <1>4, <2>1
  <2>3. e \notin Path(Hash[S[i].key] % c, i, c)
    BY Zenon, <2>1
  <2>4. Pos(x, e, c) < Pos(i, e, c)
    BY Zenon, <1>2, <2>1, <2>3, Chain
  <2> QED
    BY Zenon, <2>2, <2>4
<1>12. /\ a = [slots |-> a.slots, hole |-> a.hole, done |-> a.done]
       /\ a.slots = A /\ a.hole = from /\ a.done = FALSE
  BY <1>1
<1>13. PICK n : n = Pos(from, e, c) /\ n + 0 = n /\ n <= n + 0
  BY <1>10
<1>14. from \notin Taken(A) /\ e \notin Taken(A)
  BY Zenon, <1>4
<1> QED
  BY Zenon, <1>2, <1>9, <1>10, <1>11, <1>12, <1>13, <1>14 DEF Sliding

(* rc_del: the chain closes over the deleted key, and loses nothing else.  *)
LEMMA RcDeleteKeeps ==
    ASSUME NEW t, Good(t), LiveAt(t.slots) = Taken(t.slots), t.cap # 0 => t.used < t.cap,
           NEW k \in TKeys
    PROVE  /\ Good(RcDelete(t, k)) /\ RcDelete(t, k).cap = t.cap
           /\ RcDelete(t, k).used <= t.used
           /\ LiveAt(RcDelete(t, k).slots) = Taken(RcDelete(t, k).slots)
           /\ \A a, b : Maps(RcDelete(t, k).slots, a, b) <=> Maps(t.slots, a, b) /\ a # k
<1>0. PICK r : r = RcDelete(t, k)
  OBVIOUS
<1>1. /\ Typed(t) /\ t.cap \in Nat /\ t.slots \in Arrays(t.cap) /\ Sound(t.slots, t.cap)
      /\ t.live \in Nat /\ t.used \in Nat
      /\ t.live = Cardinality(LiveAt(t.slots)) /\ t.used = Cardinality(Taken(t.slots))
  BY Zenon, TableFacts DEF Good
<1>2. CASE ~Has(t, k)
  <2>1. r = t /\ t.used <= t.used
    BY <1>0, <1>1, <1>2 DEF RcDelete
  <2>3. \A b : ~Maps(t.slots, k, b)
    BY Zenon, <1>2, Looked
  <2>2. \A a, b : Maps(t.slots, a, b) => a # k
    BY Zenon, <2>3
  <2> QED
    BY Zenon, <1>0, <2>1, <2>2
<1>3. CASE Has(t, k)
  <2>1. PICK c \in Nat \ {0} : c = t.cap
    BY Zenon, <1>3, Looked
  <2>2. PICK S : S = t.slots
    OBVIOUS
  <2>3. PICK from \in LiveAt(S) : from = SlotOf(t, k) /\ S[from].key = k
    <3>1. SlotOf(t, k) \in LiveAt(t.slots) /\ t.slots[SlotOf(t, k)].key = k
      BY Zenon, <1>3, Looked
    <3> QED
      BY Zenon, <2>2, <3>1
  <2>4. PICK e \in 0 .. c - 1 : e \notin Taken(S)
    <3>1. Cardinality(Taken(S)) < c
      BY Zenon, <1>1, <2>1, <2>2
    <3> QED
      BY Zenon, <1>1, <2>1, <2>2, <3>1, Counting
  <2>5. PICK f : /\ Slides(t, from, c - 1, f)
                 /\ r = [t EXCEPT !.slots = f[c - 1].slots, !.live = @ - 1, !.used = @ - 1]
    BY Zenon, <1>0, <1>3, <2>1, <2>3, DeleteSlides
  <2>6. /\ f[0] = [slots |-> With(S, from, EmptySlot), hole |-> from, done |-> FALSE]
        /\ \A d \in 0 .. c - 1 : d + 1 \in 0 .. c - 1 => f[d + 1] = Slide(t, from, d + 1, f[d])
    <3>1. \A d \in 0 .. c - 1 :
            f[d] = IF d = 0 THEN [slots |-> With(S, from, EmptySlot), hole |-> from, done |-> FALSE]
                   ELSE Slide(t, from, d, f[d - 1])
      BY Zenon, <2>2, <2>5 DEF Slides, With
    <3>2. 0 \in 0 .. c - 1
      OBVIOUS
    <3>3. f[0] = [slots |-> With(S, from, EmptySlot), hole |-> from, done |-> FALSE]
      BY Zenon, <3>1, <3>2
    <3>4. ASSUME NEW d \in 0 .. c - 1, d + 1 \in 0 .. c - 1
          PROVE  f[d + 1] = Slide(t, from, d + 1, f[d])
      <4>1. d + 1 # 0 /\ (d + 1) - 1 = d
        OBVIOUS
      <4> QED
        BY Zenon, <3>1, <3>4, <4>1
    <3> QED
      BY Zenon, <3>3, <3>4
  <2>7. from \in 0 .. c - 1 /\ c - 1 \in Nat
    BY <1>1, <2>1, <2>2 DEF LiveAt, Arrays
  <2> DEFINE I == {d \in Nat : d <= c - 1 => Sliding(S, k, c, from, e, d, f[d])}
  <2>8. 0 \in I
    <3>1. Sound(S, c) /\ LiveAt(S) = Taken(S)
      BY Zenon, <1>1, <2>1, <2>2
    <3>2. Sliding(S, S[from].key, c, from, e, 0, f[0])
      BY Zenon, <2>4, <2>6, <3>1, SlideBegins
    <3>3. Sliding(S, k, c, from, e, 0, f[0])
      BY Zenon, <2>3, <3>2
    <3> QED
      BY Zenon, <3>3
  <2>9. ASSUME NEW d \in Nat, d \in I PROVE d + 1 \in I
    <3>0. d + 1 \in Nat
      OBVIOUS
    <3>1. CASE d + 1 <= c - 1
      <4>1. d \in 0 .. c - 1 /\ d + 1 \in 0 .. c - 1 /\ d <= c - 1
        BY <3>1
      <4>2. Sliding(S, k, c, from, e, d + 1, f[d + 1])
        <5>1. Sliding(S, k, c, from, e, d, f[d])
          BY Zenon, <2>9, <4>1
        <5>2. Sliding(S, k, c, from, e, d + 1, Slide(t, from, d + 1, f[d]))
          BY Zenon, <1>1, <2>1, <2>7, <4>1, <5>1, SlideKeeps
        <5> QED
          BY Zenon, <2>6, <4>1, <5>2
      <4> QED
        BY Zenon, <3>0, <4>2
    <3>2. CASE ~(d + 1 <= c - 1)
      BY Zenon, <3>0, <3>2
    <3> QED
      BY <3>1, <3>2
  <2> HIDE DEF I
  <2>10. c - 1 \in I
    BY Zenon, <2>7, <2>8, <2>9, Induction
  <2>11. PICK a : a = f[c - 1]
    OBVIOUS
  <2>12. Sliding(S, k, c, from, e, c - 1, a)
    <3>1. c - 1 <= c - 1
      OBVIOUS
    <3> QED
      BY Zenon, <2>10, <2>11, <3>1 DEF I
  <2>13. a.done
    <3>1. Pos(from, e, c) \in 0 .. c - 1
      BY Zenon, <2>7, Unwrapped
    <3>2. ~(Pos(from, e, c) + (c - 1) < c - 1)
      BY <3>1
    <3> QED
      BY Zenon, <2>12, <3>2 DEF Sliding
  <2>14. PICK A : A = a.slots
    OBVIOUS
  <2>15. Rest(S, k, c, A) /\ Sound(A, c)
    BY Zenon, <2>12, <2>13, <2>14 DEF Sliding, Rest, Sound
  <2>16. Cardinality(LiveAt(A)) = t.live - 1 /\ Cardinality(LiveAt(A)) \in Nat /\ t.used = t.live
    BY Zenon, <1>1, <2>2, <2>15, Counting DEF Rest
  <2>17. r = [cap |-> c, slots |-> A, live |-> t.live - 1, used |-> t.used - 1]
    BY Zenon, <1>1, <2>1, <2>5, <2>11, <2>14 DEF Typed
  <2>18. /\ Typed(r) /\ r.cap = c /\ r.slots = A /\ r.live = t.live - 1 /\ r.used = t.live - 1
         /\ r.used <= t.used
    <3>1. A \in Arrays(c)
      BY Zenon, <2>15 DEF Rest
    <3> QED
      BY <1>1, <2>16, <2>17, <3>1 DEF Typed
  <2> QED
    BY Zenon, <1>0, <2>1, <2>2, <2>15, <2>16, <2>18 DEF Good, Rest
<1> QED
  BY <1>2, <1>3

-----------------------------------------------------------------------------
(* u answers as t does.                                                    *)
Same(t, u) == \A a, b : Maps(u.slots, a, b) <=> Maps(t.slots, a, b)

(* u answers as t does, but for key k, which has value v.                  *)
Upserts(t, u, k, v) ==
    /\ \A a, b : a # k => (Maps(u.slots, a, b) <=> Maps(t.slots, a, b))
    /\ \A b : Maps(u.slots, k, b) <=> b = v

(* A table with tombstones, and one without: the load factor leaves a slot *)
(* that was never used.                                                    *)
Sized(t) == Good(t) /\ (t.cap = 0 \/ t.cap >= 2)
Tombs(t) == Sized(t) /\ 4 * t.used <= 3 * t.cap
Dense(t) == Sized(t) /\ 10 * t.used <= 7 * t.cap /\ t.used = t.live

(* A table's numbers.                                                      *)
LEMMA Numbers ==
    ASSUME NEW t, Good(t)
    PROVE  /\ t.cap \in Nat /\ t.live \in Nat /\ t.used \in Nat /\ t.live <= t.used
           /\ t.used = t.live <=> LiveAt(t.slots) = Taken(t.slots)
<1>1. /\ t.cap \in Nat /\ t.slots \in Arrays(t.cap) /\ t.live \in Nat /\ t.used \in Nat
      /\ t.live = Cardinality(LiveAt(t.slots)) /\ t.used = Cardinality(Taken(t.slots))
      /\ LiveAt(t.slots) \subseteq Taken(t.slots)
  BY Zenon, TableFacts DEF Good
<1>2. t.live <= t.used /\ IsFiniteSet(Taken(t.slots))
  BY Zenon, <1>1, Counting
<1>3. t.used = t.live => LiveAt(t.slots) = Taken(t.slots)
  BY Zenon, <1>1, <1>2, FS_Subset
<1> QED
  BY Zenon, <1>1, <1>2, <1>3

(* Growing leaves room for a key.                                          *)
LEMMA GrowRoom ==
    ASSUME NEW t, Sized(t)
    PROVE  /\ Sized(Grow(t)) /\ Same(t, Grow(t)) /\ Grow(t).used = t.live /\ Grow(t).live = t.live
           /\ t.cap = 0 => Grow(t).cap = FirstCap
           /\ t.cap # 0 => Grow(t).cap = 2 * t.cap
<1>1. t.cap \in Nat /\ Good(t) /\ (t.cap = 0 \/ t.cap >= 2)
  BY Zenon, Numbers DEF Sized
<1>2. PICK c : c = IF t.cap = 0 THEN FirstCap ELSE 2 * t.cap
  OBVIOUS
<1>3. c \in Nat \ {0} /\ t.cap < c /\ c >= 2
  BY <1>1, <1>2, ProbeTableAssumption
<1>4. PICK g : g = GrowTo(t, c)
  OBVIOUS
<1>5. /\ Good(g) /\ g.cap = c /\ g.live = t.live /\ g.used = t.live
      /\ \A k, v : Maps(g.slots, k, v) <=> Maps(t.slots, k, v)
  BY Zenon, <1>1, <1>3, <1>4, GrowKeeps
<1>6. Grow(t) = g
  BY Zenon, <1>2, <1>4 DEF Grow
<1>7. (t.cap = 0 => c = FirstCap) /\ (t.cap # 0 => c = 2 * t.cap)
  BY Zenon, <1>2
<1> QED
  BY Zenon, <1>3, <1>5, <1>6, <1>7 DEF Sized, Same

(* Room for a key in a table with tombstones.                              *)
Roomy(r) == Sized(r) /\ r.cap # 0 /\ r.used < r.cap

LEMMA RoomKeeps ==
    ASSUME NEW t, Tombs(t)
    PROVE  /\ Roomy(Room(t)) /\ 4 * (Room(t).used + 1) <= 3 * Room(t).cap /\ Same(t, Room(t))
<1>1. /\ Sized(t) /\ t.cap \in Nat /\ t.live \in Nat /\ t.used \in Nat /\ t.live <= t.used
      /\ (t.cap = 0 \/ t.cap >= 2) /\ 4 * t.used <= 3 * t.cap
  BY Zenon, Numbers DEF Tombs, Sized
<1>2. CASE t.cap = 0 \/ (t.used + 1) * 4 >= t.cap * 3
  <2>1. Room(t) = Grow(t)
    BY Zenon, <1>2 DEF Room
  <2>2. PICK g : g = Grow(t)
    OBVIOUS
  <2>3. /\ Sized(g) /\ Same(t, g) /\ g.used = t.live
        /\ t.cap = 0 => g.cap = FirstCap
        /\ t.cap # 0 => g.cap = 2 * t.cap
    BY Zenon, <1>1, <2>2, GrowRoom
  <2>4. g.cap # 0 /\ g.used < g.cap /\ 4 * (g.used + 1) <= 3 * g.cap
    <3>1. CASE t.cap = 0
      <4>1. PICK f : f = FirstCap /\ f \in Nat \ {0, 1}
        BY ProbeTableAssumption
      <4>2. g.cap = f /\ g.used = t.live
        BY Zenon, <2>3, <3>1, <4>1
      <4> QED
        BY <1>1, <3>1, <4>1, <4>2
    <3>2. CASE t.cap # 0
      BY <1>1, <2>3, <3>2
    <3> QED
      BY <3>1, <3>2
  <2> QED
    BY Zenon, <2>1, <2>2, <2>3, <2>4 DEF Roomy
<1>3. CASE ~(t.cap = 0 \/ (t.used + 1) * 4 >= t.cap * 3)
  <2>1. Room(t) = t
    BY Zenon, <1>3 DEF Room
  <2>2. t.cap # 0 /\ t.used < t.cap /\ 4 * (t.used + 1) <= 3 * t.cap
    BY <1>1, <1>3
  <2> QED
    BY Zenon, <1>1, <2>1, <2>2 DEF Roomy, Same
<1> QED
  BY <1>2, <1>3

(* A put needs at most one slot more.                                      *)
Onto(r, u) ==
    u.cap = r.cap /\ u.used <= r.used + 1 /\ (r.used = r.live => u.used = u.live)

(* A new key in a roomy table.                                             *)
LEMMA NewKey ==
    ASSUME NEW r, Roomy(r), NEW k \in TKeys, ~Has(r, k), NEW v \in TVals \cup {0},
           NEW u, u = Claim(r, k, v)
    PROVE  Sized(u) /\ Onto(r, u) /\ Upserts(r, u, k, v) /\ Has(u, k)
<1>2. Good(r) /\ (r.cap = 0 \/ r.cap >= 2) /\ r.cap # 0 /\ r.used < r.cap
  BY Zenon DEF Roomy, Sized
<1>3. /\ Good(u) /\ u.cap = r.cap /\ u.live = r.live + 1 /\ u.used <= r.used + 1
      /\ \A a, b : Maps(u.slots, a, b) <=> Maps(r.slots, a, b) \/ (a = k /\ b = v)
  <2>1. Claimed(r, u, k, v)
    BY Zenon, <1>2, ClaimKeeps
  <2> QED
    BY Zenon, <2>1 DEF Claimed
<1>4. \A b : ~Maps(r.slots, k, b)
  BY Zenon, <1>2, Looked
<1>5. Upserts(r, u, k, v)
  BY Zenon, <1>3, <1>4 DEF Upserts
<1>6. Has(u, k)
  BY Zenon, <1>3, Looked
<1>7. u.live \in Nat /\ u.used \in Nat /\ u.live <= u.used /\ r.used \in Nat
  BY Zenon, <1>2, <1>3, Numbers
<1>8. r.used = r.live => u.used = u.live
  BY <1>3, <1>7
<1> QED
  BY Zenon, <1>2, <1>3, <1>5, <1>6, <1>8 DEF Sized, Onto

(* A new value in a table.                                                 *)
Counts(r, u) == u.cap = r.cap /\ u.used = r.used /\ u.live = r.live

LEMMA NewValue ==
    ASSUME NEW r, Sized(r), NEW k \in TKeys, Has(r, k), NEW v \in TVals \cup {0}, NEW u,
           u = [r EXCEPT !.slots[SlotOf(r, k)].val = v]
    PROVE  Sized(u) /\ Counts(r, u) /\ Upserts(r, u, k, v)
<1>1. Good(r) /\ (r.cap = 0 \/ r.cap >= 2)
  BY Zenon DEF Sized
<1>2. /\ Good(u) /\ u.cap = r.cap /\ u.used = r.used /\ u.live = r.live
      /\ \A a, b : a # k => (Maps(u.slots, a, b) <=> Maps(r.slots, a, b))
      /\ \A b : Maps(u.slots, k, b) <=> b = v
  <2>1. Revalues(r, u, k, v)
    BY Zenon, <1>1, RevalueKeeps
  <2> QED
    BY Zenon, <2>1 DEF Revalues
<1> QED
  BY Zenon, <1>1, <1>2 DEF Sized, Upserts, Counts

(* A put on a table that made room.                                        *)
PutInto(r, k, v) ==
    IF Has(r, k) THEN [r EXCEPT !.slots[SlotOf(r, k)].val = v] ELSE Claim(r, k, v)

LEMMA PutOnto ==
    ASSUME NEW t, Good(t), NEW r, Roomy(r), Same(t, r), NEW k \in TKeys,
           NEW v \in TVals \cup {0}, NEW u,
           u = PutInto(r, k, v)
    PROVE  Sized(u) /\ Onto(r, u) /\ Upserts(t, u, k, v)
<1>1. Sized(r) /\ r.used \in Nat
  BY Zenon, Numbers DEF Roomy, Sized
<1>2. CASE Has(r, k)
  <2>1. u = [r EXCEPT !.slots[SlotOf(r, k)].val = v]
    BY Zenon, <1>2 DEF PutInto
  <2>2. Sized(u) /\ Counts(r, u) /\ Upserts(r, u, k, v)
    BY Zenon, <1>1, <1>2, <2>1, NewValue
  <2>3. Onto(r, u)
    BY <1>1, <2>2 DEF Counts, Onto
  <2>4. Upserts(t, u, k, v)
    BY Zenon, <2>2 DEF Upserts, Same
  <2> QED
    BY Zenon, <2>2, <2>3, <2>4
<1>3. CASE ~Has(r, k)
  <2>1. u = Claim(r, k, v)
    BY Zenon, <1>3 DEF PutInto
  <2>2. Sized(u) /\ Onto(r, u) /\ Upserts(r, u, k, v)
    BY Zenon, <1>3, <2>1, NewKey
  <2>3. Upserts(t, u, k, v)
    BY Zenon, <2>2 DEF Upserts, Same
  <2> QED
    BY Zenon, <2>2, <2>3
<1> QED
  BY <1>2, <1>3

(* A table that answers as another has the same keys.                      *)
LEMMA SameKeys ==
    ASSUME NEW t, Good(t), NEW r, Good(r), Same(t, r), NEW k \in TKeys
    PROVE  Has(r, k) <=> Has(t, k)
BY Zenon, Looked DEF Same

(* The load factor after a put.                                            *)
LEMMA Loaded ==
    ASSUME NEW r, Good(r), 4 * (r.used + 1) <= 3 * r.cap,
           NEW u, Sized(u), Onto(r, u)
    PROVE  Tombs(u)
<1>1. r.used \in Nat /\ r.cap \in Nat /\ u.used \in Nat
  BY Zenon, Numbers DEF Sized
<1>2. 4 * u.used <= 3 * u.cap
  BY <1>1 DEF Onto
<1> QED
  BY Zenon, <1>2 DEF Tombs

(* A put that keeps the value of a key that is there.                      *)
Tracks(t, u, k, v) ==
    (Has(t, k) => Same(t, u)) /\ (~Has(t, k) => Upserts(t, u, k, v))

(* usage_index_track.                                                      *)
LEMMA UsagePutKeeps ==
    ASSUME NEW t, Tombs(t), NEW k \in TKeys, NEW v \in TVals
    PROVE  Tombs(UsagePut(t, k, v)) /\ Tracks(t, UsagePut(t, k, v), k, v)
<1>1. PICK u : u = UsagePut(t, k, v)
  OBVIOUS
<1>2. Good(t) /\ v \in TVals \cup {0}
  BY Zenon DEF Tombs, Sized
<1>3. CASE Has(t, k)
  <2>1. u = t
    BY Zenon, <1>1, <1>3 DEF UsagePut
  <2> QED
    BY Zenon, <1>1, <1>3, <2>1 DEF Tracks, Same
<1>4. CASE ~Has(t, k)
  <2>1. PICK r : r = Room(t)
    OBVIOUS
  <2>2. Roomy(r) /\ 4 * (r.used + 1) <= 3 * r.cap /\ Same(t, r) /\ Good(r)
    BY Zenon, <2>1, RoomKeeps DEF Roomy, Sized
  <2>3. ~Has(r, k)
    BY Zenon, <1>2, <1>4, <2>2, SameKeys
  <2>4. u = PutInto(r, k, v)
    BY Zenon, <1>1, <1>4, <2>1, <2>3 DEF UsagePut, PutInto
  <2>5. Sized(u) /\ Onto(r, u) /\ Upserts(t, u, k, v)
    BY Zenon, <1>2, <2>2, <2>4, PutOnto
  <2>6. Tombs(u)
    BY Zenon, <2>2, <2>5, Loaded
  <2> QED
    BY Zenon, <1>1, <1>4, <2>5, <2>6 DEF Tracks
<1> QED
  BY <1>3, <1>4

(* doc_put.                                                                *)
LEMMA DocPutKeeps ==
    ASSUME NEW t, Tombs(t), NEW k \in TKeys, NEW v \in TVals
    PROVE  Tombs(DocPut(t, k, v)) /\ Tracks(t, DocPut(t, k, v), k, v)
<1>1. PICK u : u = DocPut(t, k, v)
  OBVIOUS
<1>2. Good(t) /\ v \in TVals \cup {0}
  BY Zenon DEF Tombs, Sized
<1>3. PICK r : r = Room(t)
  OBVIOUS
<1>4. Roomy(r) /\ 4 * (r.used + 1) <= 3 * r.cap /\ Same(t, r) /\ Good(r) /\ Sized(r)
  BY Zenon, <1>3, RoomKeeps DEF Roomy, Sized
<1>5. Has(r, k) <=> Has(t, k)
  BY Zenon, <1>2, <1>4, SameKeys
<1>6. CASE Has(r, k)
  <2>1. u = r
    BY Zenon, <1>1, <1>3, <1>6 DEF DocPut
  <2>2. Onto(r, u)
    BY <1>4, <2>1, Numbers DEF Onto
  <2>3. Tombs(u)
    BY Zenon, <1>4, <2>1, <2>2, Loaded
  <2> QED
    BY Zenon, <1>1, <1>4, <1>5, <1>6, <2>1, <2>3 DEF Tracks
<1>7. CASE ~Has(r, k)
  <2>1. u = PutInto(r, k, v)
    BY Zenon, <1>1, <1>3, <1>7 DEF DocPut, PutInto
  <2>2. Sized(u) /\ Onto(r, u) /\ Upserts(t, u, k, v)
    BY Zenon, <1>2, <1>4, <2>1, PutOnto
  <2>3. Tombs(u)
    BY Zenon, <1>4, <2>2, Loaded
  <2> QED
    BY Zenon, <1>1, <1>5, <1>7, <2>2, <2>3 DEF Tracks
<1> QED
  BY <1>6, <1>7

(* tbl_put.                                                                *)
LEMMA TblPutKeeps ==
    ASSUME NEW t, Tombs(t), NEW k \in TKeys, NEW v \in TVals
    PROVE  Tombs(TblPut(t, k, v)) /\ Upserts(t, TblPut(t, k, v), k, v)
<1>1. PICK u : u = TblPut(t, k, v)
  OBVIOUS
<1>2. Good(t) /\ v \in TVals \cup {0}
  BY Zenon DEF Tombs, Sized
<1>3. PICK r : r = Room(t)
  OBVIOUS
<1>4. Roomy(r) /\ 4 * (r.used + 1) <= 3 * r.cap /\ Same(t, r) /\ Good(r)
  BY Zenon, <1>3, RoomKeeps DEF Roomy, Sized
<1>5. u = PutInto(r, k, v)
  BY Zenon, <1>1, <1>3 DEF TblPut, PutInto
<1>6. Sized(u) /\ Onto(r, u) /\ Upserts(t, u, k, v)
  BY Zenon, <1>2, <1>4, <1>5, PutOnto
<1>7. Tombs(u)
  BY Zenon, <1>4, <1>6, Loaded
<1> QED
  BY Zenon, <1>1, <1>6, <1>7

(* tgt_put, whose caller fills the slot it returns.                        *)
LEMMA TgtPutKeeps ==
    ASSUME NEW t, Tombs(t), NEW k \in TKeys, NEW v \in TVals
    PROVE  Tombs(TgtPut(t, k, v)) /\ Upserts(t, TgtPut(t, k, v), k, v)
<1>1. PICK u : u = TgtPut(t, k, v)
  OBVIOUS
<1>2. Good(t) /\ v \in TVals \cup {0}
  BY Zenon DEF Tombs, Sized
<1>3. PICK r : r = Room(t)
  OBVIOUS
<1>4. Roomy(r) /\ 4 * (r.used + 1) <= 3 * r.cap /\ Same(t, r) /\ Good(r)
  BY Zenon, <1>3, RoomKeeps DEF Roomy, Sized
<1>5. CASE Has(r, k)
  <2>1. u = PutInto(r, k, v)
    BY Zenon, <1>1, <1>3, <1>5 DEF TgtPut, PutInto
  <2>2. Sized(u) /\ Onto(r, u) /\ Upserts(t, u, k, v)
    BY Zenon, <1>2, <1>4, <2>1, PutOnto
  <2>3. Tombs(u)
    BY Zenon, <1>4, <2>2, Loaded
  <2> QED
    BY Zenon, <1>1, <2>2, <2>3
<1>6. CASE ~Has(r, k)
  <2>1. PICK c : c = Claim(r, k, v)
    OBVIOUS
  <2>2. Sized(c) /\ Onto(r, c) /\ Upserts(r, c, k, v) /\ Has(c, k)
    BY Zenon, <1>2, <1>4, <1>6, <2>1, NewKey
  <2>3. u = [c EXCEPT !.slots[SlotOf(c, k)].val = v]
    BY Zenon, <1>1, <1>3, <1>6, <2>1, <2>2 DEF TgtPut
  <2>4. Sized(u) /\ Counts(c, u) /\ Upserts(c, u, k, v)
    BY Zenon, <1>2, <2>2, <2>3, NewValue
  <2>5. Onto(r, u)
    BY Zenon, <2>2, <2>4 DEF Onto, Counts
  <2>6. Upserts(t, u, k, v)
    BY Zenon, <1>4, <2>2, <2>4 DEF Upserts, Same
  <2>7. Tombs(u)
    BY Zenon, <1>4, <2>4, <2>5, Loaded
  <2> QED
    BY Zenon, <1>1, <2>6, <2>7
<1> QED
  BY <1>5, <1>6

(* A put into a table without tombstones: a key that is there needs no     *)
(* room.                                                                   *)
LEMMA DensePut ==
    ASSUME NEW t, Good(t), NEW r, Sized(r), Same(t, r), r.used = r.live, r.cap # 0,
           10 * r.used <= 7 * r.cap, NEW k \in TKeys, NEW v \in TVals \cup {0},
           ~Has(r, k) => 10 * (r.used + 1) <= 7 * r.cap, NEW u, u = PutInto(r, k, v)
    PROVE  Dense(u) /\ Upserts(t, u, k, v)
<1>1. r.used \in Nat /\ r.cap \in Nat
  BY Zenon, Numbers DEF Sized
<1>2. Roomy(r)
  <2>1. r.used < r.cap
    BY <1>1
  <2> QED
    BY Zenon, <2>1 DEF Roomy
<1>3. Sized(u) /\ Onto(r, u) /\ Upserts(t, u, k, v)
  BY Zenon, <1>2, PutOnto
<1>4. 10 * u.used <= 7 * u.cap
  <2>1. CASE Has(r, k)
    <3>1. u.used = r.used
      BY ZenonT(30), <2>1, NewValue DEF PutInto, Counts
    <3> QED
      BY Zenon, <1>3, <3>1 DEF Onto
  <2>2. CASE ~Has(r, k)
    <3>1. u.used \in Nat
      BY Zenon, <1>3, Numbers DEF Sized
    <3> QED
      BY <1>1, <1>3, <2>2, <3>1 DEF Onto
  <2> QED
    BY <2>1, <2>2
<1> QED
  BY Zenon, <1>3, <1>4 DEF Dense, Onto

(* A table without tombstones after growing.                               *)
LEMMA DenseGrow ==
    ASSUME NEW t, Dense(t), NEW g, g = Grow(t)
    PROVE  /\ Dense(g) /\ Same(t, g) /\ g.cap # 0 /\ 10 * (g.used + 1) <= 7 * g.cap
<1>1. /\ Sized(t) /\ t.cap \in Nat /\ t.used \in Nat /\ t.used = t.live
      /\ (t.cap = 0 \/ t.cap >= 2) /\ 10 * t.used <= 7 * t.cap
  BY Zenon, Numbers DEF Dense, Sized
<1>2. /\ Sized(g) /\ Same(t, g) /\ g.used = t.used /\ g.live = t.used
      /\ t.cap = 0 => g.cap = FirstCap
      /\ t.cap # 0 => g.cap = 2 * t.cap
  BY Zenon, <1>1, GrowRoom
<1>3. g.cap # 0 /\ 10 * (g.used + 1) <= 7 * g.cap /\ 10 * g.used <= 7 * g.cap
  <2>1. CASE t.cap = 0
    <3>1. PICK f : f = FirstCap /\ f \in Nat \ {0, 1}
      BY ProbeTableAssumption
    <3>2. g.cap = f /\ g.used = t.used
      BY Zenon, <1>2, <2>1, <3>1
    <3> QED
      BY <1>1, <2>1, <3>1, <3>2
  <2>2. CASE t.cap # 0
    BY <1>1, <1>2, <2>2
  <2> QED
    BY <2>1, <2>2
<1> QED
  BY Zenon, <1>2, <1>3 DEF Dense

(* rc_set.                                                                 *)
LEMMA RcPutKeeps ==
    ASSUME NEW t, Dense(t), NEW k \in TKeys, NEW v \in TVals
    PROVE  Dense(RcPut(t, k, v)) /\ Upserts(t, RcPut(t, k, v), k, v)
<1>1. PICK made : made = IF t.cap = 0 THEN Grow(t) ELSE t
  OBVIOUS
<1>2. PICK r : r = IF ~Has(made, k) /\ (made.live + 1) * 10 > made.cap * 7
                   THEN Grow(made) ELSE made
  OBVIOUS
<1>3. PICK u : u = RcPut(t, k, v) /\ u = PutInto(r, k, v)
  BY Zenon, <1>1, <1>2 DEF RcPut, PutInto
<1>4. Good(t) /\ v \in TVals \cup {0}
  BY Zenon DEF Dense, Sized
<1>5. Dense(made) /\ Same(t, made) /\ made.cap # 0
  <2>1. CASE t.cap = 0
    BY Zenon, <1>1, <2>1, DenseGrow
  <2>2. CASE t.cap # 0
    BY Zenon, <1>1, <2>2 DEF Same
  <2> QED
    BY <2>1, <2>2
<1>6. /\ Sized(r) /\ Same(t, r) /\ r.used = r.live /\ r.cap # 0 /\ 10 * r.used <= 7 * r.cap
      /\ ~Has(r, k) => 10 * (r.used + 1) <= 7 * r.cap
  <2>1. CASE ~Has(made, k) /\ (made.live + 1) * 10 > made.cap * 7
    <3>1. r = Grow(made)
      BY Zenon, <1>2, <2>1
    <3>2. Dense(r) /\ Same(made, r) /\ r.cap # 0 /\ 10 * (r.used + 1) <= 7 * r.cap
      BY Zenon, <1>5, <3>1, DenseGrow
    <3> QED
      BY Zenon, <1>5, <3>2 DEF Dense, Same
  <2>2. CASE ~(~Has(made, k) /\ (made.live + 1) * 10 > made.cap * 7)
    <3>1. r = made
      BY Zenon, <1>2, <2>2
    <3>2. made.used \in Nat /\ made.cap \in Nat /\ made.live = made.used
      BY Zenon, <1>5, Numbers DEF Dense, Sized
    <3>3. ~Has(made, k) => 10 * (made.used + 1) <= 7 * made.cap
      BY <2>2, <3>2
    <3> QED
      BY Zenon, <1>5, <3>1, <3>3 DEF Dense
  <2> QED
    BY <2>1, <2>2
<1>7. Dense(u) /\ Upserts(t, u, k, v)
  BY Zenon, <1>3, <1>4, <1>6, DensePut
<1> QED
  BY Zenon, <1>3, <1>7

(* hash_index_put.                                                         *)
LEMMA HashPutKeeps ==
    ASSUME NEW t, Dense(t), NEW k \in TKeys, NEW v \in TVals \cup {0}
    PROVE  Dense(HashPut(t, k, v)) /\ Upserts(t, HashPut(t, k, v), k, v)
<1>1. PICK r : r = IF 10 * (t.live + 1) > 7 * t.cap THEN Grow(t) ELSE t
  OBVIOUS
<1>2. PICK u : u = HashPut(t, k, v) /\ u = PutInto(r, k, v)
  BY Zenon, <1>1 DEF HashPut, PutInto
<1>3. Good(t) /\ t.used \in Nat /\ t.cap \in Nat /\ t.live = t.used
  BY Zenon, Numbers DEF Dense, Sized
<1>4. /\ Sized(r) /\ Same(t, r) /\ r.used = r.live /\ r.cap # 0 /\ 10 * r.used <= 7 * r.cap
      /\ 10 * (r.used + 1) <= 7 * r.cap
  <2>1. CASE 10 * (t.live + 1) > 7 * t.cap
    <3>1. r = Grow(t)
      BY Zenon, <1>1, <2>1
    <3>2. Dense(r) /\ Same(t, r) /\ r.cap # 0 /\ 10 * (r.used + 1) <= 7 * r.cap
      BY Zenon, <3>1, DenseGrow
    <3> QED
      BY Zenon, <3>2 DEF Dense
  <2>2. CASE ~(10 * (t.live + 1) > 7 * t.cap)
    <3>1. r = t
      BY Zenon, <1>1, <2>2
    <3>2. 10 * (t.used + 1) <= 7 * t.cap /\ t.cap # 0
      BY <1>3, <2>2
    <3> QED
      BY Zenon, <3>1, <3>2 DEF Dense, Same
  <2> QED
    BY <2>1, <2>2
<1>5. Dense(u) /\ Upserts(t, u, k, v)
  BY Zenon, <1>2, <1>3, <1>4, DensePut
<1> QED
  BY Zenon, <1>2, <1>5

(* u answers as t does, but has no key k.                                  *)
Removes(t, u, k) == \A a, b : Maps(u.slots, a, b) <=> Maps(t.slots, a, b) /\ a # k

(* A tombstone where a key was.                                            *)
LEMMA TombDelete ==
    ASSUME NEW t, Tombs(t), NEW k \in TKeys, NEW u, u = Retire(t, k)
    PROVE  Tombs(u) /\ Removes(t, u, k)
<1>1. Good(t)
  BY Zenon DEF Tombs, Sized
<1>2. Good(u) /\ u.cap = t.cap /\ u.used = t.used /\ Removes(t, u, k)
  BY Zenon, <1>1, RetireKeeps DEF Removes
<1> QED
  BY Zenon, <1>2 DEF Tombs, Sized

(* rc_del.                                                                 *)
LEMMA DenseDelete ==
    ASSUME NEW t, Dense(t), NEW k \in TKeys, NEW u, u = RcDelete(t, k)
    PROVE  Dense(u) /\ Removes(t, u, k)
<1>1. /\ Good(t) /\ LiveAt(t.slots) = Taken(t.slots)
      /\ t.cap \in Nat /\ t.used \in Nat /\ 10 * t.used <= 7 * t.cap
  BY Zenon, Numbers DEF Dense, Sized
<1>2. t.cap # 0 => t.used < t.cap
  BY <1>1
<1>3. /\ Good(u) /\ u.cap = t.cap /\ u.used <= t.used
      /\ LiveAt(u.slots) = Taken(u.slots) /\ Removes(t, u, k)
  BY Zenon, <1>1, <1>2, RcDeleteKeeps DEF Removes
<1>4. u.used \in Nat /\ u.used = u.live
  BY Zenon, <1>3, Numbers
<1>5. 10 * u.used <= 7 * u.cap
  BY <1>1, <1>3, <1>4
<1> QED
  BY Zenon, <1>3, <1>4, <1>5 DEF Dense, Sized

-----------------------------------------------------------------------------
(* The map a table stands for.  In the hash index, h, value 0 is no value. *)

Seen(h, t, k, v) == Maps(t.slots, k, v) /\ (h => v # 0)

Reads(m, h, t) ==
    /\ m = [k \in DOMAIN m |-> m[k]]
    /\ DOMAIN m \subseteq TKeys
    /\ \A k \in TKeys : k \in DOMAIN m <=> \E v : Seen(h, t, k, v)
    /\ \A k \in DOMAIN m : \A v : Seen(h, t, k, v) <=> v = m[k]

(* Two maps with the same entries.                                         *)
LEMMA SameMap ==
    ASSUME NEW m, NEW n, m = [k \in DOMAIN m |-> m[k]], n = [k \in DOMAIN n |-> n[k]],
           \A k : k \in DOMAIN m <=> k \in DOMAIN n,
           \A k \in DOMAIN m : m[k] = n[k]
    PROVE  m = n
<1>1. DOMAIN m = DOMAIN n
  BY Zenon
<1> QED
  BY <1>1

(* A table that answers the same is the same map.                          *)
LEMMA ReadSame ==
    ASSUME NEW h, NEW t, NEW u, NEW m, NEW n, Reads(m, h, t), Reads(n, h, u), Same(t, u)
    PROVE  n = m
<1>1. \A k, v : Seen(h, u, k, v) <=> Seen(h, t, k, v)
  BY Zenon DEF Seen, Same
<1>2. \A k : k \in DOMAIN n <=> k \in DOMAIN m
  BY Zenon, <1>1 DEF Reads
<1>3. \A k \in DOMAIN n : n[k] = m[k]
  BY Zenon, <1>1, <1>2 DEF Reads
<1>4. m = [k \in DOMAIN m |-> m[k]]
  BY Zenon DEF Reads
<1>5. n = [k \in DOMAIN n |-> n[k]]
  BY Zenon DEF Reads
<1> QED
  BY Zenon, <1>2, <1>3, <1>4, <1>5, SameMap

(* A put changes the map at its key.                                       *)
Assigned(m, k, v) == [j \in DOMAIN m \cup {k} |-> IF j = k THEN v ELSE m[j]]

LEMMA ReadPut ==
    ASSUME NEW h, NEW t, NEW u, NEW m, NEW n, Reads(m, h, t), Reads(n, h, u),
           NEW k \in TKeys, NEW v, v # 0, Upserts(t, u, k, v)
    PROVE  n = Assigned(m, k, v)
<1> DEFINE x == [j \in DOMAIN m \cup {k} |-> IF j = k THEN v ELSE m[j]]
<1>1. /\ \A a, b : a # k => (Seen(h, u, a, b) <=> Seen(h, t, a, b))
      /\ \A b : Seen(h, u, k, b) <=> b = v
  BY Zenon DEF Seen, Upserts
<1>2. /\ DOMAIN x = DOMAIN m \cup {k} /\ x = [j \in DOMAIN x |-> x[j]]
      /\ x[k] = v /\ \A j \in DOMAIN m : j # k => x[j] = m[j]
  OBVIOUS
<1> HIDE DEF x
<1>3. \A j : j \in DOMAIN n <=> j \in DOMAIN x
  <2>1. k \in DOMAIN n
    BY Zenon, <1>1 DEF Reads
  <2>2. ASSUME NEW j, j # k PROVE j \in DOMAIN n <=> j \in DOMAIN m
    BY Zenon, <1>1, <2>2 DEF Reads
  <2> QED
    BY Zenon, <1>2, <2>1, <2>2
<1>4. \A j \in DOMAIN n : n[j] = x[j]
  <2>1. SUFFICES ASSUME NEW j \in DOMAIN n PROVE n[j] = x[j]
    BY Zenon
  <2>2. \A b : Seen(h, u, j, b) <=> b = n[j]
    BY Zenon DEF Reads
  <2>3. CASE j = k
    <3>1. Seen(h, u, j, v)
      BY Zenon, <1>1, <2>3
    <3> QED
      BY Zenon, <1>2, <2>2, <2>3, <3>1
  <2>4. CASE j # k
    <3>1. j \in DOMAIN m /\ x[j] = m[j]
      BY Zenon, <1>2, <1>3, <2>4
    <3>2. Seen(h, t, j, m[j])
      BY Zenon, <3>1 DEF Reads
    <3>3. Seen(h, u, j, m[j])
      BY Zenon, <1>1, <2>4, <3>2
    <3> QED
      BY Zenon, <2>2, <3>1, <3>3
  <2> QED
    BY <2>3, <2>4
<1>5. n = [j \in DOMAIN n |-> n[j]]
  BY Zenon DEF Reads
<1>6. n = x
  BY Zenon, <1>2, <1>3, <1>4, <1>5, SameMap
<1> QED
  BY Zenon, <1>6 DEF x, Assigned

(* A delete takes its key out of the map.                                  *)
LEMMA ReadDelete ==
    ASSUME NEW h, NEW t, NEW u, NEW m, NEW n, Reads(m, h, t), Reads(n, h, u),
           NEW k \in TKeys, Removes(t, u, k) \/ (h /\ Upserts(t, u, k, 0))
    PROVE  n = [j \in DOMAIN m \ {k} |-> m[j]]
<1> DEFINE x == [j \in DOMAIN m \ {k} |-> m[j]]
<1>1. \A a, b : Seen(h, u, a, b) <=> Seen(h, t, a, b) /\ a # k
  <2>1. CASE Removes(t, u, k)
    BY Zenon, <2>1 DEF Seen, Removes
  <2>2. CASE h /\ Upserts(t, u, k, 0)
    <3>1. \A a, b : a # k => (Seen(h, u, a, b) <=> Seen(h, t, a, b))
      BY Zenon, <2>2 DEF Seen, Upserts
    <3>2. \A b : ~Seen(h, u, k, b)
      BY Zenon, <2>2 DEF Seen, Upserts
    <3> QED
      BY Zenon, <3>1, <3>2
  <2> QED
    BY <2>1, <2>2
<1>2. /\ DOMAIN x = DOMAIN m \ {k} /\ x = [j \in DOMAIN x |-> x[j]]
      /\ \A j \in DOMAIN x : x[j] = m[j]
  OBVIOUS
<1> HIDE DEF x
<1>3. \A j : j \in DOMAIN n <=> j \in DOMAIN x
  BY Zenon, <1>1, <1>2 DEF Reads
<1>4. \A j \in DOMAIN n : n[j] = x[j]
  <2>1. SUFFICES ASSUME NEW j \in DOMAIN n PROVE n[j] = x[j]
    BY Zenon
  <2>2. Seen(h, u, j, n[j])
    BY Zenon DEF Reads
  <2>3. Seen(h, t, j, n[j])
    BY Zenon, <1>1, <2>2
  <2>4. j \in DOMAIN m /\ x[j] = m[j]
    BY Zenon, <1>2, <1>3
  <2> QED
    BY Zenon, <2>3, <2>4 DEF Reads
<1>5. n = [j \in DOMAIN n |-> n[j]]
  BY Zenon DEF Reads
<1>6. n = x
  BY ZenonT(30), <1>2, <1>3, <1>4, <1>5, SameMap
<1> QED
  BY Zenon, <1>6 DEF x

(* The refinement mapping reads the table.                                 *)
LEMMA Reading ==
    ASSUME NEW t, Good(t), NEW h \in BOOLEAN, NEW P, P \subseteq TKeys,
           \A k \in TKeys : k \in P <=> IF h THEN HashGet(t, k) ELSE Has(t, k)
    PROVE  Reads([k \in P |-> t.slots[SlotOf(t, k)].val], h, t)
<1> DEFINE m == [k \in P |-> t.slots[SlotOf(t, k)].val]
<1>1. DOMAIN m = P /\ m = [k \in DOMAIN m |-> m[k]] /\ \A k \in P : m[k] = t.slots[SlotOf(t, k)].val
  OBVIOUS
<1> HIDE DEF m
<1>2. \A k \in TKeys : /\ Has(t, k) <=> \E v : Maps(t.slots, k, v)
                       /\ Has(t, k) => \A v : Maps(t.slots, k, v) <=> v = t.slots[SlotOf(t, k)].val
  BY Zenon, Looked
<1>3. ASSUME NEW k \in TKeys
      PROVE  k \in P <=> \E v : Seen(h, t, k, v)
  <2>1. CASE h
    <3>1. k \in P <=> Has(t, k) /\ t.slots[SlotOf(t, k)].val # 0
      BY Zenon, <2>1 DEF HashGet
    <3> QED
      BY Zenon, <1>2, <2>1, <3>1 DEF Seen
  <2>2. CASE ~h
    BY Zenon, <1>2, <2>2 DEF Seen
  <2> QED
    BY <2>1, <2>2
<1>4. ASSUME NEW k \in P, NEW v
      PROVE  Seen(h, t, k, v) <=> v = m[k]
  <2>1. k \in TKeys /\ m[k] = t.slots[SlotOf(t, k)].val
    BY Zenon, <1>1
  <2>2. CASE h
    <3>1. Has(t, k) /\ t.slots[SlotOf(t, k)].val # 0
      BY Zenon, <2>1, <2>2 DEF HashGet
    <3> QED
      BY Zenon, <1>2, <2>1, <2>2, <3>1 DEF Seen
  <2>3. CASE ~h
    <3>1. Has(t, k)
      BY Zenon, <2>1, <2>3
    <3> QED
      BY Zenon, <1>2, <2>1, <2>3, <3>1 DEF Seen
  <2> QED
    BY <2>2, <2>3
<1>5. Reads(m, h, t)
  BY Zenon, <1>1, <1>3, <1>4 DEF Reads
<1> QED
  BY Zenon, <1>5 DEF m

-----------------------------------------------------------------------------
(* The table of the specification: dense or with tombstones.               *)

Slotted == {"usage", "docs", "targets", "facts"}
Fit(b, t) ==
    /\ b \in Slotted \cup {"rc", "hash"}
    /\ b \in Slotted => Tombs(t)
    /\ b \notin Slotted => Dense(t)
TInv == table \in Tables /\ Fit(table, tab)

(* The empty table.                                                        *)
LEMMA Empties ==
    ASSUME NEW c \in Nat, c = 0 \/ c >= 2
    PROVE  Tombs(Blank(c)) /\ Dense(Blank(c)) /\ \A k, v : ~Maps(Blank(c).slots, k, v)
<1>1. PICK b : b = Blank(c)
  OBVIOUS
<1>2. Good(b) /\ b.cap = c /\ b.live = 0 /\ b.used = 0 /\ \A k, v : ~Maps(b.slots, k, v)
  BY Zenon, <1>1, BlankGood
<1>3. 4 * b.used <= 3 * b.cap /\ 10 * b.used <= 7 * b.cap /\ (b.cap = 0 \/ b.cap >= 2)
  BY <1>2
<1>4. Tombs(b) /\ Dense(b)
  BY Zenon, <1>2, <1>3 DEF Tombs, Dense, Sized
<1> QED
  BY Zenon, <1>1, <1>2, <1>4

(* What a put does to each table.                                          *)
LEMMA PutStep ==
    ASSUME NEW k \in TKeys, NEW v \in TVals, Fit(table, tab), NEW u, u = PutIn(tab, k, v)
    PROVE  /\ Fit(table, u)
           /\ table \in Keeps => Tracks(tab, u, k, v)
           /\ table \notin Keeps => Upserts(tab, u, k, v)
<1>0. v \in TVals \cup {0}
  BY Zenon
<1>1. CASE table = "usage"
  <2>1. u = UsagePut(tab, k, v) /\ table \in Slotted /\ table \in Keeps
    BY <1>1 DEF PutIn, Slotted, Keeps
  <2>2. Tombs(u) /\ Tracks(tab, u, k, v)
    BY Zenon, <2>1, UsagePutKeeps DEF Fit
  <2> QED
    BY Zenon, <2>1, <2>2 DEF Fit
<1>2. CASE table = "docs"
  <2>1. u = DocPut(tab, k, v) /\ table \in Slotted /\ table \in Keeps
    BY <1>2 DEF PutIn, Slotted, Keeps
  <2>2. Tombs(u) /\ Tracks(tab, u, k, v)
    BY Zenon, <2>1, DocPutKeeps DEF Fit
  <2> QED
    BY Zenon, <2>1, <2>2 DEF Fit
<1>3. CASE table = "targets"
  <2>1. u = TgtPut(tab, k, v) /\ table \in Slotted /\ table \notin Keeps
    BY <1>3 DEF PutIn, Slotted, Keeps
  <2>2. Tombs(u) /\ Upserts(tab, u, k, v)
    BY Zenon, <2>1, TgtPutKeeps DEF Fit
  <2> QED
    BY Zenon, <2>1, <2>2 DEF Fit
<1>4. CASE table = "facts"
  <2>1. u = TblPut(tab, k, v) /\ table \in Slotted /\ table \notin Keeps
    BY <1>4 DEF PutIn, Slotted, Keeps
  <2>2. Tombs(u) /\ Upserts(tab, u, k, v)
    BY Zenon, <2>1, TblPutKeeps DEF Fit
  <2> QED
    BY Zenon, <2>1, <2>2 DEF Fit
<1>5. CASE table = "rc"
  <2>1. u = RcPut(tab, k, v) /\ table \notin Slotted /\ table \notin Keeps
    BY <1>5 DEF PutIn, Slotted, Keeps
  <2>2. Dense(u) /\ Upserts(tab, u, k, v)
    BY Zenon, <2>1, RcPutKeeps DEF Fit
  <2> QED
    BY Zenon, <2>1, <2>2 DEF Fit
<1>6. CASE table = "hash"
  <2>1. u = HashPut(tab, k, v) /\ table \notin Slotted /\ table \notin Keeps
    BY <1>6 DEF PutIn, Slotted, Keeps
  <2>2. Dense(u) /\ Upserts(tab, u, k, v)
    BY Zenon, <1>0, <2>1, HashPutKeeps DEF Fit
  <2> QED
    BY Zenon, <2>1, <2>2 DEF Fit
<1> QED
  BY SMTT(30), <1>1, <1>2, <1>3, <1>4, <1>5, <1>6 DEF Fit, Slotted

(* What a delete does to each table.                                       *)
LEMMA DeleteStep ==
    ASSUME NEW k \in TKeys, Fit(table, tab), NEW u, u = DeleteFrom(tab, k)
    PROVE  /\ Fit(table, u)
           /\ Removes(tab, u, k) \/ (table = "hash" /\ Upserts(tab, u, k, 0))
<1>1. CASE table \in Slotted
  <2>1. u = Retire(tab, k)
    BY <1>1 DEF DeleteFrom, Slotted
  <2>2. Tombs(u) /\ Removes(tab, u, k)
    BY Zenon, <1>1, <2>1, TombDelete DEF Fit
  <2> QED
    BY Zenon, <1>1, <2>2 DEF Fit
<1>2. CASE table = "rc"
  <2>1. u = RcDelete(tab, k) /\ table \notin Slotted
    BY <1>2 DEF DeleteFrom, Slotted
  <2>2. Dense(u) /\ Removes(tab, u, k)
    BY Zenon, <2>1, DenseDelete DEF Fit
  <2> QED
    BY Zenon, <2>1, <2>2 DEF Fit
<1>3. CASE table = "hash"
  <2>1. u = HashPut(tab, k, 0) /\ table \notin Slotted
    BY <1>3 DEF DeleteFrom, Slotted
  <2>2. 0 \in TVals \cup {0}
    BY Zenon
  <2>3. Dense(u) /\ Upserts(tab, u, k, 0)
    BY Zenon, <2>1, <2>2, HashPutKeeps DEF Fit
  <2> QED
    BY Zenon, <1>3, <2>1, <2>3 DEF Fit
<1> QED
  BY Zenon, <1>1, <1>2, <1>3 DEF Fit

(* The tables start empty.                                                 *)
LEMMA TableStart ==
    ASSUME TableInit
    PROVE  TInv /\ \A k, v : ~Maps(tab.slots, k, v)
<1>1. PICK c \in Nat : tab = Blank(c) /\ (c = 0 \/ c >= 2)
  <2>1. FirstCap \in Nat /\ FirstCap >= 2
    BY ProbeTableAssumption
  <2>2. tab = Blank(FirstCap) \/ tab = Blank(0)
    BY Zenon DEF TableInit
  <2>3. 0 \in Nat
    BY SMT
  <2> QED
    BY Zenon, <2>1, <2>2, <2>3
<1>2. Tombs(tab) /\ Dense(tab) /\ \A k, v : ~Maps(tab.slots, k, v)
  BY Zenon, <1>1, Empties
<1>3. table \in Tables /\ table \in Slotted \cup {"rc", "hash"}
  BY ProbeTableAssumption DEF TableInit, Slotted
<1> QED
  BY Zenon, <1>2, <1>3 DEF TInv, Fit

(* Every step keeps the table fit.                                         *)
LEMMA TableStep ==
    ASSUME TInv, [TableNext]_tvars
    PROVE  TInv'
<1>1. CASE TableNext
  <2>1. PICK k \in TKeys : TableDelete(k) \/ \E v \in TVals : TablePut(k, v)
    BY Zenon, <1>1 DEF TableNext
  <2>2. CASE TableDelete(k)
    <3>1. Fit(table, tab')
      BY Zenon, <2>2, DeleteStep DEF TInv, TableDelete
    <3> QED
      BY Zenon, <2>2, <3>1 DEF TInv, TableDelete
  <2>3. CASE \E v \in TVals : TablePut(k, v)
    <3>1. PICK v \in TVals : TablePut(k, v)
      BY Zenon, <2>3
    <3>2. Fit(table, tab')
      BY Zenon, <3>1, PutStep DEF TInv, TablePut
    <3> QED
      BY Zenon, <3>1, <3>2 DEF TInv, TablePut
  <2> QED
    BY <2>1, <2>2, <2>3
<1>2. CASE UNCHANGED tvars
  BY Zenon, <1>2 DEF tvars, TInv
<1> QED
  BY Zenon, <1>1, <1>2

(* The map the table stands for.                                           *)
Read == [k \in {j \in TKeys : Present(tab, j)} |-> tab.slots[SlotOf(tab, k)].val]

LEMMA ReadsTable ==
    ASSUME TInv
    PROVE  Reads(Read, table = "hash", tab)
<1>1. Good(tab)
  BY Zenon DEF TInv, Fit, Tombs, Dense, Sized
<1>2. PICK h \in BOOLEAN : h = (table = "hash")
  BY Zenon
<1>3. PICK P : P = {j \in TKeys : Present(tab, j)}
  BY Zenon
<1>4. P \subseteq TKeys /\ \A k \in TKeys : k \in P <=> IF h THEN HashGet(tab, k) ELSE Has(tab, k)
  BY Zenon, <1>2, <1>3 DEF Present
<1>5. Reads([k \in P |-> tab.slots[SlotOf(tab, k)].val], h, tab)
  BY Zenon, <1>1, <1>4, Reading
<1> QED
  BY Zenon, <1>2, <1>3, <1>5 DEF Read

(* The same in the next state.                                             *)
LEMMA ReadsNext ==
    ASSUME TInv', table' = table
    PROVE  Reads(Read', table = "hash", tab')
<1>1. Good(tab')
  BY Zenon DEF TInv, Fit, Tombs, Dense, Sized
<1>2. PICK h \in BOOLEAN : h = (table = "hash")
  BY Zenon
<1>3. PICK P : P = {j \in TKeys : Present(tab, j)'}
  BY Zenon
<1>4. P \subseteq TKeys /\ \A k \in TKeys : k \in P <=> IF h THEN HashGet(tab', k) ELSE Has(tab', k)
  BY Zenon, <1>2, <1>3 DEF Present
<1>5. Reads([k \in P |-> (tab').slots[SlotOf(tab', k)].val], h, tab')
  BY Zenon, <1>1, <1>4, Reading
<1> QED
  BY Zenon, <1>2, <1>3, <1>5 DEF Read

(* A put is a put of the map, or a track.                                  *)
LEMMA PutMaps ==
    ASSUME TInv, TInv', NEW k \in TKeys, NEW v \in TVals, TablePut(k, v)
    PROVE  Promise!Put(k, v) \/ Promise!Track(k, v)
<1>1. PICK m : m = Read
  OBVIOUS
<1>2. PICK n : n = Read'
  OBVIOUS
<1>3. PICK h : h = (table = "hash")
  OBVIOUS
<1>4. Reads(m, h, tab) /\ Reads(n, h, tab')
  BY Zenon, <1>1, <1>2, <1>3, ReadsTable, ReadsNext DEF TablePut
<1>5. /\ table \in Keeps => Tracks(tab, tab', k, v)
      /\ table \notin Keeps => Upserts(tab, tab', k, v)
  BY Zenon, PutStep DEF TInv, TablePut
<1>6. v # 0
  BY Zenon, ProbeTableAssumption
<1>7. CASE table \notin Keeps
  <2>1. n = Assigned(m, k, v)
    BY SMTT(30), <1>4, <1>5, <1>6, <1>7, ReadPut
  <2>2. call' = <<"put", k, v>>
    BY Zenon, <1>7 DEF TablePut
  <2> QED
    BY Zenon, <1>1, <1>2, <2>1, <2>2 DEF Promise!Put, Read, Assigned
<1>8. CASE table \in Keeps
  <2>0. ~h
    BY Zenon, <1>3, <1>8 DEF Keeps
  <2>1. Good(tab)
    BY Zenon DEF TInv, Fit, Tombs, Dense, Sized
  <2>2. k \in DOMAIN m <=> Has(tab, k)
    <3>1. k \in DOMAIN m <=> \E w : Maps(tab.slots, k, w)
      BY Zenon, <1>4, <2>0 DEF Reads, Seen
    <3> QED
      BY Zenon, <2>1, <3>1, Looked
  <2>3. k \in DOMAIN m => n = m
    BY Zenon, <1>4, <1>5, <1>8, <2>2, ReadSame DEF Tracks
  <2>4. k \notin DOMAIN m => n = Assigned(m, k, v)
    BY SMTT(30), <1>4, <1>5, <1>6, <1>8, <2>2, ReadPut DEF Tracks
  <2>5. call' = <<"track", k, v>>
    BY Zenon, <1>8 DEF TablePut
  <2> QED
    BY Zenon, <1>1, <1>2, <2>3, <2>4, <2>5 DEF Promise!Track, Read, Assigned
<1> QED
  BY <1>7, <1>8

(* A delete is a delete of the map.                                        *)
LEMMA DeleteMaps ==
    ASSUME TInv, TInv', NEW k \in TKeys, TableDelete(k)
    PROVE  Promise!Delete(k)
<1>1. PICK m : m = Read
  OBVIOUS
<1>2. PICK n : n = Read'
  OBVIOUS
<1>3. PICK h : h = (table = "hash")
  OBVIOUS
<1>4. Reads(m, h, tab) /\ Reads(n, h, tab')
  BY Zenon, <1>1, <1>2, <1>3, ReadsTable, ReadsNext DEF TableDelete
<1>5. Removes(tab, tab', k) \/ (h /\ Upserts(tab, tab', k, 0))
  BY Zenon, <1>3, DeleteStep DEF TInv, TableDelete
<1>6. n = [j \in DOMAIN m \ {k} |-> m[j]]
  BY Zenon, <1>4, <1>5, ReadDelete
<1>7. call' = <<"delete", k, 0>>
  BY Zenon DEF TableDelete
<1> QED
  BY Zenon, <1>1, <1>2, <1>6, <1>7 DEF Promise!Delete, Read

(* Every table is a map: each put, track and delete of each of the six     *)
(* tables, over any keys, hashes and sizes, changes what the lookups       *)
(* answer at the key of the call and nowhere else.                         *)
THEOREM TableIsKeyMap == TableSpec => IsKeyMap
<1>1. TableInit => Promise!Init
  <2>1. SUFFICES ASSUME TableInit PROVE Promise!Init
    OBVIOUS
  <2>2. TInv /\ \A k, v : ~Maps(tab.slots, k, v)
    BY Zenon, <2>1, TableStart
  <2>3. Reads(Read, table = "hash", tab)
    BY Zenon, <2>2, ReadsTable
  <2>4. \A k : k \notin DOMAIN Read
    BY Zenon, <2>2, <2>3 DEF Reads, Seen
  <2>5. {j \in TKeys : Present(tab, j)} = {}
    BY Zenon, <2>4 DEF Read
  <2>6. Read = <<>>
    BY <2>5 DEF Read
  <2> QED
    BY Zenon, <2>1, <2>6 DEF Promise!Init, Read, TableInit
<1>2. TInv /\ TInv' /\ [TableNext]_tvars => [Promise!Next]_<<Read, call>>
  <2>1. SUFFICES ASSUME TInv, TInv', [TableNext]_tvars PROVE [Promise!Next]_<<Read, call>>
    OBVIOUS
  <2>2. CASE TableNext
    <3>1. PICK k \in TKeys : TableDelete(k) \/ \E v \in TVals : TablePut(k, v)
      BY Zenon, <2>2 DEF TableNext
    <3>2. Promise!Delete(k) \/ \E v \in TVals : Promise!Put(k, v) \/ Promise!Track(k, v)
      BY Zenon, <2>1, <3>1, DeleteMaps, PutMaps
    <3> QED
      BY Zenon, <3>2 DEF Promise!Next
  <2>3. CASE UNCHANGED tvars
    BY Zenon, <2>3 DEF tvars, Read, Present
  <2> QED
    BY Zenon, <2>1, <2>2, <2>3
<1>3. TableInit => TInv
  BY Zenon, TableStart
<1>4. TInv /\ [TableNext]_tvars => TInv'
  BY Zenon, TableStep
<1> QED
  BY <1>1, <1>2, <1>3, <1>4, PTL DEF TableSpec, IsKeyMap, Promise!Spec, Read

(* A probe ends: a table with slots keeps one that was never used, so the  *)
(* unbounded loops of find_slot, map_probe and rc_probe stop.              *)
THEOREM TableProbesEnd == TableSpec => []ProbesEnd
<1>1. TInv => ProbesEnd
  <2>1. SUFFICES ASSUME TInv, tab.cap > 0
                 PROVE  \E i \in DOMAIN tab.slots : tab.slots[i].st = "empty"
    BY Zenon DEF ProbesEnd
  <2>2. Good(tab) /\ (4 * tab.used <= 3 * tab.cap \/ 10 * tab.used <= 7 * tab.cap)
    BY Zenon, <2>1 DEF TInv, Fit, Tombs, Dense, Sized
  <2>3. /\ tab.cap \in Nat /\ tab.used \in Nat /\ tab.slots \in Arrays(tab.cap)
        /\ DOMAIN tab.slots = 0 .. tab.cap - 1 /\ tab.used = Cardinality(Taken(tab.slots))
    BY Zenon, <2>2, TableFacts DEF Good
  <2>4. tab.used < tab.cap
    BY <2>1, <2>2, <2>3
  <2>5. \E i \in 0 .. tab.cap - 1 : i \notin Taken(tab.slots)
    BY Zenon, <2>3, <2>4, Counting
  <2> QED
    BY Zenon, <2>3, <2>5 DEF Taken
<1> QED
  BY <1>1, TableStart, TableStep, PTL DEF TableSpec

(* No key holds two live slots, and the counters that decide when a table  *)
(* grows count the live slots and those in use.                            *)
THEOREM TableSlotsCounted == TableSpec => []SlotsCounted
<1>1. TInv => SlotsCounted
  <2>1. SUFFICES ASSUME TInv PROVE SlotsCounted
    OBVIOUS
  <2> DEFINE Dead == {i \in DOMAIN tab.slots : tab.slots[i].st = "dead"}
  <2>2. Good(tab)
    BY Zenon, <2>1 DEF TInv, Fit, Tombs, Dense, Sized
  <2>3. /\ tab.cap \in Nat /\ tab.slots \in Arrays(tab.cap) /\ Distinct(tab.slots)
        /\ DOMAIN tab.slots = 0 .. tab.cap - 1
        /\ \A i \in 0 .. tab.cap - 1 : tab.slots[i] \in Slots
        /\ tab.live = Cardinality(LiveAt(tab.slots)) /\ tab.used = Cardinality(Taken(tab.slots))
    BY Zenon, <2>2, TableFacts DEF Good, Sound
  <2>4. \A e \in Slots : e.st # "empty" <=> e.st = "live" \/ e.st = "dead"
    BY DEF Slots, LiveSlots, EmptySlot, DeadSlot
  <2>5. Taken(tab.slots) = LiveAt(tab.slots) \cup Dead /\ LiveAt(tab.slots) \cap Dead = {}
    BY <2>3, <2>4 DEF Taken, LiveAt
  <2>6. IsFiniteSet(LiveAt(tab.slots)) /\ IsFiniteSet(Taken(tab.slots))
    BY Zenon, <2>3, Counting
  <2> HIDE DEF Dead
  <2>7. IsFiniteSet(Dead)
    <3>1. Dead \subseteq Taken(tab.slots)
      BY Zenon, <2>5
    <3> QED
      BY Zenon, <2>6, <3>1, FS_Subset
  <2>8. Cardinality(Taken(tab.slots)) = Cardinality(LiveAt(tab.slots)) + Cardinality(Dead)
    <3>1. /\ Cardinality(LiveAt(tab.slots)) \in Nat /\ Cardinality(Dead) \in Nat
      BY Zenon, <2>6, <2>7, FS_CardinalityType
    <3>2. /\ Cardinality(LiveAt(tab.slots) \cup Dead) =
                Cardinality(LiveAt(tab.slots)) + Cardinality(Dead)
                    - Cardinality(LiveAt(tab.slots) \cap Dead)
      BY Zenon, <2>6, <2>7, FS_Union
    <3>3. Cardinality({}) = 0
      BY Zenon, FS_EmptySet
    <3>4. Cardinality(Taken(tab.slots)) =
              Cardinality(LiveAt(tab.slots)) + Cardinality(Dead) - 0
      BY Zenon, <2>5, <3>2, <3>3
    <3> QED
      BY <3>1, <3>4
  <2> QED
    BY Zenon, <2>3, <2>8 DEF SlotsCounted, Distinct, LiveAt, Dead
<1> QED
  BY <1>1, TableStart, TableStep, PTL DEF TableSpec
=============================================================================
