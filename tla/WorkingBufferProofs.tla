------------------------ MODULE WorkingBufferProofs ------------------------
(***************************************************************************)
(* For every capacity, number of sessions and of workers: the ring is in   *)
(* order, a record is retained until it is evicted, taken or due, and      *)
(* promote hands a record out once.                                        *)
(***************************************************************************)
EXTENDS WorkingBuffer, TLAPS

(* expires_at is the due time, cut to the width of the clock.              *)
ExpIsDue ==
    \A s \in Sessions, k \in Slots :
        slots[s][k].id # 0 =>
            slots[s][k].exp = IF due[s][slots[s][k].id] > MaxTime
                              THEN MaxTime ELSE due[s][slots[s][k].id]

(* The slot a record was written to keeps it until it is overwritten, the  *)
(* record is taken or due.                                                 *)
Kept ==
    \A s \in Sessions, k \in Slots, i \in Ids :
        /\ i + Age(s, k) = nextId[s]
        /\ <<s, i>> \notin taken
        /\ clock < due[s][i]
        => slots[s][k].id = i

(* A worker carries a time it has read.                                    *)
JobPast == \A w \in Workers : job[w] # Free => job[w].now <= clock

(* The inductive invariant.  Retained alone is not inductive: that the     *)
(* overwritten slot holds the oldest record is RingOrder, and that an      *)
(* expired record is a due one is ExpIsDue.                                *)
IInv == TypeOK /\ RingOrder /\ ExpIsDue /\ Kept /\ JobPast

-----------------------------------------------------------------------------
(* The index arithmetic of working_store_add, without the remainder.       *)
LEMMA AdvanceWraps ==
    ASSUME NEW h \in Slots
    PROVE  Advance(h) = IF h + 1 = Capacity THEN 0 ELSE h + 1
<1>1. Capacity \in Nat /\ Capacity > 0 /\ h \in Nat /\ h < Capacity
  BY WorkingAssumption DEF Slots
<1> QED
  BY <1>1 DEF Advance

(* The first three facts are what every use of the state needs.            *)
LEMMA SlotFacts ==
    ASSUME TypeOK, NEW s \in Sessions, NEW k \in Slots
    PROVE  /\ slots[s][k] \in Record \cup {Empty}
           /\ slots[s][k].id \in Nat
           /\ slots[s][k].id # 0 => /\ slots[s][k].id \in Ids
                                    /\ slots[s][k].exp \in 1 .. MaxTime
           /\ head[s] \in Nat /\ head[s] < Capacity /\ k \in Nat /\ k < Capacity
           /\ nextId[s] \in Nat /\ nextId[s] >= 1
           /\ Age(s, k) \in 1 .. Capacity
<1>1. slots[s][k] \in Record \cup {Empty}
  BY DEF TypeOK
<1>2. /\ slots[s][k].id \in Nat
      /\ slots[s][k].id # 0 => slots[s][k].id \in Ids /\ slots[s][k].exp \in 1 .. MaxTime
  BY <1>1 DEF Record, Empty, Ids
<1>3. head[s] \in Nat /\ head[s] < Capacity /\ k \in Nat /\ k < Capacity
  BY WorkingAssumption DEF TypeOK, Slots
<1>4. nextId[s] \in Nat /\ nextId[s] >= 1
  BY WorkingAssumption DEF TypeOK
<1>5. Age(s, k) \in 1 .. Capacity
  BY <1>3, WorkingAssumption DEF Age
<1> QED
  BY <1>1, <1>2, <1>3, <1>4, <1>5

(* An expired record is due.                                               *)
LEMMA ExpiredIsDue ==
    ASSUME TypeOK, ExpIsDue, NEW s \in Sessions, NEW k \in Slots,
           NEW now \in Nat, now <= clock, Expired(slots[s][k], now)
    PROVE  clock >= due[s][slots[s][k].id]
<1>1. slots[s][k].id # 0 /\ now >= slots[s][k].exp
  BY DEF Expired
<1>2. slots[s][k].id \in Ids /\ slots[s][k].exp \in Nat
  BY <1>1, SlotFacts, WorkingAssumption
<1>3. due[s][slots[s][k].id] \in Nat /\ clock \in Nat /\ clock < MaxTime /\ MaxTime \in Nat
  BY <1>2, WorkingAssumption DEF TypeOK, Times
<1>4. slots[s][k].exp = IF due[s][slots[s][k].id] > MaxTime
                        THEN MaxTime ELSE due[s][slots[s][k].id]
  BY <1>1 DEF ExpIsDue
<1> QED
  BY <1>1, <1>2, <1>3, <1>4

(* A step that only empties slots, of expired or of taken records, and     *)
(* lets time pass preserves the invariant of the ring.                     *)
LEMMA EmptyingStep ==
    ASSUME TypeOK, RingOrder, ExpIsDue, Kept,
           head' = head, nextId' = nextId, due' = due,
           taken \subseteq taken', clock' \in Nat, clock <= clock',
           \A s \in Sessions, k \in Slots :
              \/ slots'[s][k] = slots[s][k]
              \/ /\ slots'[s][k] = Empty
                 /\ \/ \E now \in Nat : now <= clock /\ Expired(slots[s][k], now)
                    \/ <<s, slots[s][k].id>> \in taken'
    PROVE  RingOrder' /\ ExpIsDue' /\ Kept'
<1>1. \A s \in Sessions, k \in Slots :
         slots'[s][k].id # 0 => slots'[s][k] = slots[s][k]
  <2>1. Empty.id = 0
    BY DEF Empty
  <2>2. \A s \in Sessions, k \in Slots :
           slots'[s][k] = slots[s][k] \/ slots'[s][k] = Empty
    BY Zenon
  <2> QED
    BY <2>1, <2>2, Zenon
<1>2. \A s \in Sessions, k \in Slots : Age(s, k)' = Age(s, k)
  BY DEF Age
<1>3. RingOrder'
  BY <1>1, <1>2 DEF RingOrder
<1>4. ExpIsDue'
  BY <1>1 DEF ExpIsDue
<1>5. Kept'
  <2> SUFFICES ASSUME NEW s \in Sessions, NEW k \in Slots, NEW i \in Ids,
                      i + Age(s, k) = nextId[s],
                      <<s, i>> \notin taken', clock' < due[s][i]
               PROVE  slots'[s][k].id = i
    BY <1>2 DEF Kept
  <2>1. due[s][i] \in Nat /\ clock \in Nat
    BY WorkingAssumption DEF TypeOK, Times
  <2>2. clock < due[s][i]
    BY <2>1
  <2>3. slots[s][k].id = i
    BY <2>2 DEF Kept
  <2>4. CASE slots'[s][k] = slots[s][k]
    BY <2>3, <2>4
  <2>5. ASSUME NEW now \in Nat, now <= clock, Expired(slots[s][k], now)
        PROVE  FALSE
    BY <2>1, <2>2, <2>3, <2>5, ExpiredIsDue
  <2> QED
    BY <2>3, <2>4, <2>5
<1> QED
  BY <1>3, <1>4, <1>5

-----------------------------------------------------------------------------
(* The empty working store has the inductive invariant.                    *)
LEMMA InitIInv == Init => IInv
<1> SUFFICES ASSUME Init PROVE IInv
  OBVIOUS
<1>1. Empty.id = 0
  BY DEF Empty
<1>2. \A s \in Sessions, k \in Slots : slots[s][k] = Empty
  BY DEF Init
<1>3. TypeOK
  BY WorkingAssumption DEF Init, TypeOK, Slots, Times, Ids
<1>4. RingOrder /\ ExpIsDue
  BY <1>1, <1>2 DEF RingOrder, ExpIsDue
<1>5. Kept
  <2> SUFFICES ASSUME NEW s \in Sessions, NEW i \in Ids
               PROVE  ~(clock < due[s][i])
    BY DEF Kept
  <2> QED
    BY DEF Init
<1>6. JobPast
  BY DEF Init, JobPast
<1> QED
  BY <1>3, <1>4, <1>5, <1>6 DEF IInv

(* working_store_add keeps the types: the slot, the ring position and the  *)
(* saturated expiry.                                                       *)
LEMMA AddType ==
    ASSUME TypeOK, NEW w \in Workers, NEW s \in Sessions, NEW t \in Ttls,
           NEW o \in Owners, NEW now \in 0 .. clock, Add(w, s, t, o, now)
    PROVE  TypeOK'
<1>1. now \in Nat /\ now \in Times /\ MaxTime \in Nat /\ now < MaxTime
  BY WorkingAssumption DEF TypeOK, Times
<1>2. Ttl(t) \in Nat /\ Ttl(t) > 0
  BY WorkingAssumption DEF Ttl
<1>3. ExpiresAt(now, t) \in 1 .. MaxTime
  BY <1>1, <1>2 DEF ExpiresAt
<1>4. head[s] \in Slots /\ nextId[s] \in Ids
  BY DEF TypeOK, Add
<1>5. [id |-> nextId[s], exp |-> ExpiresAt(now, t), owner |-> o] \in Record
  BY <1>3, <1>4 DEF Record
<1>6. slots' \in [Sessions -> [Slots -> Record \cup {Empty}]]
  BY <1>4, <1>5 DEF TypeOK, Add
<1>7. Advance(head[s]) \in Slots
  BY <1>4, AdvanceWraps, WorkingAssumption DEF Slots
<1>8. head' \in [Sessions -> Slots]
  BY <1>7 DEF TypeOK, Add
<1>9. nextId[s] + 1 \in 1 .. MaxAdds + 1
  BY <1>4, WorkingAssumption DEF Ids
<1>10. nextId' \in [Sessions -> 1 .. MaxAdds + 1]
  BY <1>9 DEF TypeOK, Add
<1>11. [pc |-> "added", s |-> s, id |-> nextId[s], now |-> now] \in Job
  BY <1>1, <1>4 DEF Job
<1>12. job' \in [Workers -> Job \cup {Free}]
  BY <1>11 DEF TypeOK, Add
<1>13. now + Ttl(t) \in Nat
  BY <1>1, <1>2
<1>14. due' \in [Sessions -> [Ids -> Nat]]
  BY <1>4, <1>13 DEF TypeOK, Add
<1> QED
  BY <1>6, <1>8, <1>10, <1>12, <1>14 DEF TypeOK, Add

(* After an add every other slot is one add older, and the one written has *)
(* age 1; the record it held was Capacity adds old.                        *)
LEMMA AddAges ==
    ASSUME TypeOK, NEW w \in Workers, NEW s \in Sessions, NEW t \in Ttls,
           NEW o \in Owners, NEW now \in 0 .. clock, Add(w, s, t, o, now)
    PROVE  /\ \A k \in Slots : Age(s, k)' = IF k = head[s] THEN 1 ELSE Age(s, k) + 1
           /\ \A r \in Sessions \ {s}, k \in Slots : Age(r, k)' = Age(r, k)
           /\ nextId'[s] = nextId[s] + 1
           /\ \A r \in Sessions \ {s} : nextId'[r] = nextId[r]
<1>1. head[s] \in Slots
  BY DEF TypeOK
<1>2. head'[s] = IF head[s] + 1 = Capacity THEN 0 ELSE head[s] + 1
  BY <1>1, AdvanceWraps DEF TypeOK, Add
<1>3. ASSUME NEW k \in Slots
      PROVE  Age(s, k)' = IF k = head[s] THEN 1 ELSE Age(s, k) + 1
  BY <1>1, <1>2, WorkingAssumption DEF Age, Slots
<1>4. \A r \in Sessions \ {s} : head'[r] = head[r]
  BY DEF TypeOK, Add
<1>5. \A r \in Sessions \ {s}, k \in Slots : Age(r, k)' = Age(r, k)
  BY <1>4 DEF Age
<1>6. nextId'[s] = nextId[s] + 1 /\ \A r \in Sessions \ {s} : nextId'[r] = nextId[r]
  BY DEF TypeOK, Add
<1> QED
  BY <1>3, <1>5, <1>6

(* An add overwrites the slot at the head, the oldest: order, due times    *)
(* and what is kept survive it.                                            *)
LEMMA AddRing ==
    ASSUME TypeOK, RingOrder, ExpIsDue, Kept,
           NEW w \in Workers, NEW s \in Sessions, NEW t \in Ttls,
           NEW o \in Owners, NEW now \in 0 .. clock, Add(w, s, t, o, now)
    PROVE  RingOrder' /\ ExpIsDue' /\ Kept'
<1> DEFINE new == [id |-> nextId[s], exp |-> ExpiresAt(now, t), owner |-> o]
<1>1. /\ \A k \in Slots : slots'[s][k] = IF k = head[s] THEN new ELSE slots[s][k]
      /\ \A r \in Sessions \ {s}, k \in Slots : slots'[r][k] = slots[r][k]
  BY DEF TypeOK, Add
<1>2. /\ \A i \in Ids : due'[s][i] = IF i = nextId[s] THEN now + Ttl(t) ELSE due[s][i]
      /\ \A r \in Sessions \ {s}, i \in Ids : due'[r][i] = due[r][i]
  BY DEF TypeOK, Add
<1>3. head[s] \in Slots /\ nextId[s] \in Ids /\ nextId[s] \in Nat
  BY DEF TypeOK, Add, Ids
<1>4. /\ \A k \in Slots : Age(s, k)' = IF k = head[s] THEN 1 ELSE Age(s, k) + 1
      /\ \A r \in Sessions \ {s}, k \in Slots : Age(r, k)' = Age(r, k)
      /\ nextId'[s] = nextId[s] + 1
      /\ \A r \in Sessions \ {s} : nextId'[r] = nextId[r]
  BY AddAges
<1>5. \A r \in Sessions, k \in Slots :
        /\ slots[r][k].id \in Nat
        /\ slots[r][k].id # 0 => slots[r][k].id \in Ids
        /\ nextId[r] \in Nat /\ Age(r, k) \in Nat /\ Age(r, k) >= 1
  BY SlotFacts, WorkingAssumption
<1>6. RingOrder'
  <2> SUFFICES ASSUME NEW r \in Sessions, NEW k \in Slots, slots'[r][k].id # 0
               PROVE  slots'[r][k].id + Age(r, k)' = nextId'[r]
    BY DEF RingOrder
  <2>1. CASE r # s
    BY <1>1, <1>4, <2>1 DEF RingOrder
  <2>2. CASE r = s /\ k = head[s]
    <3>1. slots'[s][k].id = nextId[s]
      BY <1>1, <2>2
    <3> QED
      BY <1>3, <1>4, <2>2, <3>1
  <2>3. CASE r = s /\ k # head[s]
    <3>1. slots'[s][k] = slots[s][k]
      BY <1>1, <2>3
    <3>2. slots[s][k].id + Age(s, k) = nextId[s]
      BY <2>3, <3>1 DEF RingOrder
    <3> QED
      BY <1>4, <1>5, <2>3, <3>1, <3>2
  <2> QED
    BY <2>1, <2>2, <2>3
<1>7. ExpIsDue'
  <2> SUFFICES ASSUME NEW r \in Sessions, NEW k \in Slots, slots'[r][k].id # 0
               PROVE  slots'[r][k].exp = IF due'[r][slots'[r][k].id] > MaxTime
                                         THEN MaxTime ELSE due'[r][slots'[r][k].id]
    BY DEF ExpIsDue
  <2>1. CASE r # s
    BY <1>1, <1>2, <1>5, <2>1 DEF ExpIsDue
  <2>2. CASE r = s /\ k = head[s]
    <3>1. slots'[s][k].id = nextId[s] /\ slots'[s][k].exp = ExpiresAt(now, t)
      BY <1>1, <2>2
    <3>2. due'[s][nextId[s]] = now + Ttl(t)
      BY <1>2, <1>3
    <3>3. now \in Nat /\ Ttl(t) \in Nat /\ MaxTime \in Nat /\ now < MaxTime
      BY WorkingAssumption DEF Ttl, TypeOK, Times
    <3> QED
      BY <2>2, <3>1, <3>2, <3>3 DEF ExpiresAt
  <2>3. CASE r = s /\ k # head[s]
    <3>1. slots'[s][k] = slots[s][k] /\ slots[s][k].id \in Ids
      BY <1>1, <1>5, <2>3
    <3>2. slots[s][k].id # nextId[s]
      BY <1>5, <2>3, <3>1 DEF RingOrder
    <3> QED
      BY <1>2, <2>3, <3>1, <3>2 DEF ExpIsDue
  <2> QED
    BY <2>1, <2>2, <2>3
<1>8. Kept'
  <2> SUFFICES ASSUME NEW r \in Sessions, NEW k \in Slots, NEW i \in Ids,
                      i + Age(r, k)' = nextId'[r],
                      <<r, i>> \notin taken', clock' < due'[r][i]
               PROVE  slots'[r][k].id = i
    BY DEF Kept
  <2>1. taken' = taken /\ clock' = clock
    BY DEF Add
  <2>2. CASE r # s
    BY <1>1, <1>2, <1>4, <2>1, <2>2 DEF Kept
  <2>3. CASE r = s /\ k = head[s]
    BY <1>1, <1>3, <1>4, <2>3 DEF Ids
  <2>4. CASE r = s /\ k # head[s]
    <3>1. i + Age(s, k) = nextId[s] /\ i # nextId[s]
      BY <1>4, <1>5, <2>4 DEF Ids
    <3>2. due'[s][i] = due[s][i]
      BY <1>2, <3>1
    <3>3. slots[s][k].id = i
      BY <2>1, <2>4, <3>1, <3>2 DEF Kept
    <3> QED
      BY <1>1, <2>4, <3>3
  <2> QED
    BY <2>2, <2>3, <2>4
<1> QED
  BY <1>6, <1>7, <1>8

-----------------------------------------------------------------------------
(* find_slot only frees expired records.                                   *)
LEMMA PassedSlots ==
    ASSUME TypeOK, NEW s \in Sessions, NEW i, NEW now
    PROVE  /\ Passed(s, i, now) \in [Slots -> Record \cup {Empty}]
           /\ \A k \in Slots :
                \/ Passed(s, i, now)[k] = slots[s][k]
                \/ Passed(s, i, now)[k] = Empty /\ Expired(slots[s][k], now)
<1>1. \A k \in Slots : slots[s][k] \in Record \cup {Empty}
  BY DEF TypeOK
<1> QED
  BY <1>1, Zenon DEF Passed

(* A get returns the entry or drops the expired ones it passed, and keeps  *)
(* the invariant.                                                          *)
LEMMA GetIInv ==
    ASSUME IInv, NEW w \in Workers, Get(w) PROVE IInv'
<1> DEFINE s == job[w].s
           P == Passed(s, job[w].id, job[w].now)
<1>1. TypeOK /\ RingOrder /\ ExpIsDue /\ Kept /\ JobPast
  BY DEF IInv
<1>2. job[w] \in Job
  BY <1>1 DEF TypeOK, Get
<1>3. s \in Sessions /\ job[w].now \in Nat /\ job[w].now <= clock
  BY <1>1, <1>2 DEF Job, Times, JobPast, Get
<1>4. /\ P \in [Slots -> Record \cup {Empty}]
      /\ \A k \in Slots :
           P[k] = slots[s][k] \/ (P[k] = Empty /\ Expired(slots[s][k], job[w].now))
  BY <1>1, <1>3, PassedSlots
<1>5. slots' = [slots EXCEPT ![s] = P] /\ slots \in [Sessions -> [Slots -> Record \cup {Empty}]]
  BY <1>1 DEF Get, TypeOK
<1>6. slots' \in [Sessions -> [Slots -> Record \cup {Empty}]]
  BY <1>3, <1>4, <1>5
<1>7. job' \in [Workers -> Job \cup {Free}]
  BY <1>1 DEF Get, TypeOK
<1>8. UNCHANGED <<head, nextId, clock, due, taken, persisted, lost>>
  BY DEF Get
<1>9. TypeOK'
  BY <1>1, <1>6, <1>7, <1>8 DEF TypeOK
<1>10. \A r \in Sessions, k \in Slots :
         \/ slots'[r][k] = slots[r][k]
         \/ slots'[r][k] = Empty /\ Expired(slots[r][k], job[w].now)
  BY <1>3, <1>4, <1>5, Zenon
<1>11. clock' \in Nat /\ clock <= clock'
  BY <1>1, <1>8 DEF TypeOK, Times
<1>12. RingOrder' /\ ExpIsDue' /\ Kept'
  BY <1>1, <1>3, <1>8, <1>10, <1>11, EmptyingStep
<1>13. JobPast'
  BY <1>1, <1>8 DEF JobPast, Get, TypeOK
<1> QED
  BY <1>9, <1>12, <1>13 DEF IInv

(* So does a take that finds its entry.                                    *)
LEMMA TakeIInv ==
    ASSUME IInv, NEW w \in Workers, NEW s \in Sessions, NEW i \in Ids,
           NEW ns \in Owners, NEW now \in 0 .. clock, Take(w, s, i, ns, now)
    PROVE  IInv'
<1>1. TypeOK /\ RingOrder /\ ExpIsDue /\ Kept /\ JobPast
  BY DEF IInv
<1>2. now \in Nat /\ now <= clock /\ clock \in Nat
  BY <1>1 DEF TypeOK, Times
<1> DEFINE P == Passed(s, i, now)
<1>3. /\ P \in [Slots -> Record \cup {Empty}]
      /\ \A k \in Slots : P[k] = slots[s][k] \/ (P[k] = Empty /\ Expired(slots[s][k], now))
  BY <1>1, PassedSlots
<1>4. PICK k \in Slots : /\ slots[s][k].id = i
                         /\ slots' = [slots EXCEPT ![s] = [P EXCEPT ![k] = Empty]]
  BY Zenon DEF Take, Finds, TakeSlot
<1>5. slots \in [Sessions -> [Slots -> Record \cup {Empty}]]
  BY <1>1 DEF TypeOK
<1> HIDE DEF P
<1>6. slots' \in [Sessions -> [Slots -> Record \cup {Empty}]]
  BY <1>3, <1>4, <1>5
<1>7. UNCHANGED <<head, nextId, clock, due, persisted, lost>> /\ taken' = taken \cup {<<s, i>>}
  BY DEF Take
<1>8. [pc |-> "taken", s |-> s, id |-> i, now |-> 0] \in Job
  BY WorkingAssumption DEF Job, Times
<1>9. job' \in [Workers -> Job \cup {Free}]
  BY <1>1, <1>8 DEF Take, TypeOK
<1>10. TypeOK'
  BY <1>1, <1>6, <1>7, <1>9 DEF TypeOK
<1>11. \A r \in Sessions, j \in Slots :
         \/ slots'[r][j] = slots[r][j]
         \/ /\ slots'[r][j] = Empty
            /\ Expired(slots[r][j], now) \/ <<r, slots[r][j].id>> \in taken'
  <2> SUFFICES ASSUME NEW r \in Sessions, NEW j \in Slots
               PROVE  \/ slots'[r][j] = slots[r][j]
                      \/ /\ slots'[r][j] = Empty
                         /\ Expired(slots[r][j], now) \/ <<r, slots[r][j].id>> \in taken'
    OBVIOUS
  <2>1. CASE r # s
    BY <1>4, <1>5, <2>1
  <2>2. CASE r = s /\ j = k
    <3>1. slots'[r][j] = Empty
      BY <1>3, <1>4, <1>5, <2>2
    <3>2. <<r, slots[r][j].id>> \in taken'
      BY <1>4, <1>7, <2>2
    <3> QED
      BY <3>1, <3>2
  <2>3. CASE r = s /\ j # k
    <3>1. slots'[r][j] = P[j]
      BY <1>3, <1>4, <1>5, <2>3
    <3> QED
      BY <1>3, <2>3, <3>1
  <2> QED
    BY <2>1, <2>2, <2>3
<1>12. clock' \in Nat /\ clock <= clock' /\ taken \subseteq taken'
  BY <1>2, <1>7
<1>13. RingOrder' /\ ExpIsDue' /\ Kept'
  BY <1>1, <1>2, <1>7, <1>11, <1>12, EmptyingStep
<1>14. JobPast'
  BY <1>1, <1>2, <1>7 DEF JobPast, Take, TypeOK
<1> QED
  BY <1>10, <1>13, <1>14 DEF IInv

(* So does a take that finds none.                                         *)
LEMMA TakeMissesIInv ==
    ASSUME IInv, NEW w \in Workers, NEW s \in Sessions, NEW i \in Ids,
           NEW ns \in Owners, NEW now \in 0 .. clock, TakeMisses(w, s, i, ns, now)
    PROVE  IInv'
<1>1. TypeOK /\ RingOrder /\ ExpIsDue /\ Kept /\ JobPast
  BY DEF IInv
<1>2. now \in Nat /\ now <= clock /\ clock \in Nat
  BY <1>1 DEF TypeOK, Times
<1> DEFINE P == Passed(s, i, now)
<1>3. /\ P \in [Slots -> Record \cup {Empty}]
      /\ \A k \in Slots : P[k] = slots[s][k] \/ (P[k] = Empty /\ Expired(slots[s][k], now))
  BY <1>1, PassedSlots
<1>4. slots' = [slots EXCEPT ![s] = P] /\ slots \in [Sessions -> [Slots -> Record \cup {Empty}]]
  BY <1>1 DEF TakeMisses, TypeOK
<1> HIDE DEF P
<1>5. slots' \in [Sessions -> [Slots -> Record \cup {Empty}]]
  BY <1>3, <1>4
<1>6. UNCHANGED <<head, nextId, job, clock, due, taken, persisted, lost>>
  BY DEF TakeMisses
<1>7. TypeOK'
  BY <1>1, <1>5, <1>6 DEF TypeOK
<1>8. \A r \in Sessions, k \in Slots :
         \/ slots'[r][k] = slots[r][k]
         \/ slots'[r][k] = Empty /\ Expired(slots[r][k], now)
  BY <1>3, <1>4, Zenon
<1>9. RingOrder' /\ ExpIsDue' /\ Kept'
  BY <1>1, <1>2, <1>6, <1>8, EmptyingStep
<1>10. JobPast'
  BY <1>1, <1>6 DEF JobPast
<1> QED
  BY <1>7, <1>9, <1>10 DEF IInv

(* So does the sweep of expired entries.                                   *)
LEMMA SweepIInv ==
    ASSUME IInv, NEW now \in 0 .. clock, Sweep(now) PROVE IInv'
<1>1. TypeOK /\ RingOrder /\ ExpIsDue /\ Kept /\ JobPast
  BY DEF IInv
<1>2. now \in Nat /\ now <= clock /\ clock \in Nat
  BY <1>1 DEF TypeOK, Times
<1>3. \A s \in Sessions, k \in Slots : slots[s][k] \in Record \cup {Empty}
  BY <1>1 DEF TypeOK
<1>4. slots' \in [Sessions -> [Slots -> Record \cup {Empty}]]
  BY <1>3, Zenon DEF Sweep
<1>5. UNCHANGED <<head, nextId, job, clock, due, taken, persisted, lost>>
  BY DEF Sweep
<1>6. TypeOK'
  BY <1>1, <1>4, <1>5 DEF TypeOK
<1>7. \A r \in Sessions, k \in Slots :
         \/ slots'[r][k] = slots[r][k]
         \/ slots'[r][k] = Empty /\ Expired(slots[r][k], now)
  BY Zenon DEF Sweep
<1>8. RingOrder' /\ ExpIsDue' /\ Kept'
  BY <1>1, <1>2, <1>5, <1>7, EmptyingStep
<1>9. JobPast'
  BY <1>1, <1>5 DEF JobPast
<1> QED
  BY <1>6, <1>8, <1>9 DEF IInv

(* Steps that leave the ring alone: time passes, or a worker is done.      *)
LEMMA IdleIInv ==
    ASSUME IInv, UNCHANGED <<slots, head, nextId, due, taken>>,
           clock' \in Times, clock <= clock',
           \A w \in Workers : job'[w] = job[w] \/ job'[w] = Free,
           job' \in [Workers -> Job \cup {Free}],
           persisted' \subseteq Sessions \X Ids, lost' \subseteq Sessions \X Ids
    PROVE  IInv'
<1>1. TypeOK /\ RingOrder /\ ExpIsDue /\ Kept /\ JobPast
  BY DEF IInv
<1>2. TypeOK'
  BY <1>1 DEF TypeOK
<1>3. clock' \in Nat
  BY DEF Times
<1>4. RingOrder' /\ ExpIsDue' /\ Kept'
  BY <1>1, <1>3, EmptyingStep
<1>5. JobPast'
  <2> SUFFICES ASSUME NEW w \in Workers, job'[w] # Free
               PROVE  job'[w].now <= clock'
    BY DEF JobPast
  <2>1. job[w] # Free /\ job'[w] = job[w]
    OBVIOUS
  <2>2. job[w].now \in Nat /\ clock \in Nat /\ job[w].now <= clock
    BY <1>1, <2>1 DEF TypeOK, Job, Times, JobPast
  <2> QED
    BY <1>3, <2>1, <2>2
<1> QED
  BY <1>2, <1>4, <1>5 DEF IInv

(* Every step preserves the invariant.                                     *)
LEMMA NextIInv == IInv /\ [Next]_vars => IInv'
<1> SUFFICES ASSUME IInv, [Next]_vars PROVE IInv'
  OBVIOUS
<1>1. TypeOK /\ RingOrder /\ ExpIsDue /\ Kept /\ JobPast
  BY DEF IInv
<1>2. clock \in Times /\ clock \in Nat /\ job \in [Workers -> Job \cup {Free}]
      /\ persisted \subseteq Sessions \X Ids /\ lost \subseteq Sessions \X Ids
  BY <1>1 DEF TypeOK, Times
<1>3. CASE Tick
  BY <1>2, <1>3, IdleIInv DEF Tick
<1>4. ASSUME NEW now \in 0 .. clock, Sweep(now) PROVE IInv'
  BY <1>4, SweepIInv
<1>5. ASSUME NEW w \in Workers, NEW s \in Sessions, NEW now \in 0 .. clock,
             NEW t \in Ttls, NEW o \in Owners, Add(w, s, t, o, now)
      PROVE  IInv'
  <2>1. TypeOK'
    BY <1>1, <1>5, AddType
  <2>2. RingOrder' /\ ExpIsDue' /\ Kept'
    BY <1>1, <1>5, AddRing
  <2>3. JobPast'
    BY <1>1, <1>2, <1>5 DEF JobPast, Add
  <2> QED
    BY <2>1, <2>2, <2>3 DEF IInv
<1>6. ASSUME NEW w \in Workers, NEW s \in Sessions, NEW now \in 0 .. clock,
             NEW i \in Ids, NEW ns \in Owners, Take(w, s, i, ns, now)
      PROVE  IInv'
  BY <1>6, TakeIInv
<1>7. ASSUME NEW w \in Workers, NEW s \in Sessions, NEW now \in 0 .. clock,
             NEW i \in Ids, NEW ns \in Owners, TakeMisses(w, s, i, ns, now)
      PROVE  IInv'
  BY <1>7, TakeMissesIInv
<1>8. ASSUME NEW w \in Workers, Get(w) PROVE IInv'
  BY <1>8, GetIInv
<1>9. ASSUME NEW w \in Workers, PromoteInsert(w) \/ PromoteFails(w) PROVE IInv'
  <2>1. job[w] \in Job /\ <<job[w].s, job[w].id>> \in Sessions \X Ids
    BY <1>2, <1>9 DEF Job, PromoteInsert, PromoteFails
  <2>2. persisted' \subseteq Sessions \X Ids /\ lost' \subseteq Sessions \X Ids
    BY <1>2, <1>9, <2>1 DEF PromoteInsert, PromoteFails
  <2>3. job' = [job EXCEPT ![w] = Free]
        /\ UNCHANGED <<slots, head, nextId, due, taken, clock>>
    BY <1>9 DEF PromoteInsert, PromoteFails
  <2>4. /\ job' \in [Workers -> Job \cup {Free}]
        /\ \A v \in Workers : job'[v] = job[v] \/ job'[v] = Free
    BY <1>2, <2>3
  <2> QED
    BY <1>2, <2>2, <2>3, <2>4, IdleIInv
<1>10. CASE UNCHANGED vars
  BY <1>2, <1>10, IdleIInv DEF vars
<1> QED
  BY <1>3, <1>4, <1>5, <1>6, <1>7, <1>8, <1>9, <1>10 DEF Next

(* The type invariant of the working store, for every capacity.            *)
THEOREM WorkingTypeCorrect == Spec => []TypeOK
<1>1. IInv => TypeOK
  BY DEF IInv
<1> QED
  BY <1>1, InitIInv, NextIInv, PTL DEF Spec

(* What working_store_add overwrites is always the oldest record.          *)
THEOREM RingOrdered == Spec => []RingOrder
<1>1. IInv => RingOrder
  BY DEF IInv
<1> QED
  BY <1>1, InitIInv, NextIInv, PTL DEF Spec

(* No record leaves the ring before it is evicted, taken or due.           *)
THEOREM RecordsRetained == Spec => []Retained
<1>1. IInv => Retained
  <2> SUFFICES ASSUME IInv, NEW s \in Sessions, NEW i \in Ids,
                      i < nextId[s], nextId[s] - i <= Capacity,
                      <<s, i>> \notin taken, clock < due[s][i]
               PROVE  \E k \in Slots : slots[s][k].id = i
    BY DEF Retained
  <2> DEFINE d == nextId[s] - i
             k == IF d <= head[s] THEN head[s] - d ELSE head[s] + Capacity - d
  <2>1. TypeOK /\ Kept
    BY DEF IInv
  <2>2. nextId[s] \in Nat /\ i \in Nat /\ head[s] \in Nat /\ head[s] < Capacity
        /\ Capacity \in Nat
    BY <2>1, WorkingAssumption DEF TypeOK, Slots, Ids
  <2>3. k \in Slots /\ i + Age(s, k) = nextId[s]
    BY <2>2 DEF Slots, Age
  <2>4. slots[s][k].id = i
    BY <2>1, <2>3 DEF Kept
  <2> QED
    BY <2>3, <2>4
<1> QED
  BY <1>1, InitIInv, NextIInv, PTL DEF Spec

-----------------------------------------------------------------------------
(* Every record in hand, in the log or lost was taken, and a taken record  *)
(* was added before.                                                       *)
TakenFacts ==
    /\ \A s \in Sessions, i \in Ids : <<s, i>> \in taken => i < nextId[s]
    /\ \A w \in Workers : InHand(w) \subseteq taken
    /\ persisted \subseteq taken
    /\ lost \subseteq taken

PInv == IInv /\ PromotedOnce /\ TakenFacts

(* No two slots of a session hold the same record.                         *)
LEMMA SlotsDistinct ==
    ASSUME IInv, NEW s \in Sessions, NEW j \in Slots, NEW k \in Slots, j # k,
           slots[s][k].id # 0
    PROVE  slots[s][j].id # slots[s][k].id
<1>1. TypeOK /\ RingOrder
  BY DEF IInv
<1>2. /\ slots[s][j].id \in Nat /\ slots[s][k].id \in Nat
      /\ head[s] \in Nat /\ head[s] < Capacity /\ nextId[s] \in Nat
      /\ j \in Nat /\ j < Capacity /\ k \in Nat /\ k < Capacity
  BY <1>1, SlotFacts
<1>3. Capacity \in Nat
  BY WorkingAssumption
<1>4. Age(s, j) # Age(s, k) /\ Age(s, j) \in Nat /\ Age(s, k) \in Nat
  BY <1>2, <1>3 DEF Age
<1>5. /\ slots[s][k].id + Age(s, k) = nextId[s]
      /\ slots[s][j].id # 0 => slots[s][j].id + Age(s, j) = nextId[s]
  BY <1>1 DEF RingOrder
<1> QED
  BY <1>2, <1>4, <1>5

(* A step that takes nothing and gives no worker a taken record.           *)
LEMMA UntakenPInv ==
    ASSUME PInv, IInv', UNCHANGED <<taken, persisted, lost>>,
           \A s \in Sessions : nextId[s] <= nextId'[s],
           \A w \in Workers : InHand(w)' \subseteq InHand(w),
           \A s \in Sessions, k \in Slots : <<s, slots'[s][k].id>> \notin taken
    PROVE  PInv'
<1>1. PromotedOnce'
  BY DEF PInv, PromotedOnce
<1>2. \A s \in Sessions, i \in Ids : <<s, i>> \in taken' => i < nextId'[s]
  <2> SUFFICES ASSUME NEW s \in Sessions, NEW i \in Ids, <<s, i>> \in taken
               PROVE  i < nextId'[s]
    OBVIOUS
  <2>1. nextId[s] \in Nat /\ nextId'[s] \in Nat /\ i \in Nat
    BY WorkingAssumption DEF PInv, IInv, TypeOK, Ids
  <2> QED
    BY <2>1 DEF PInv, TakenFacts
<1>3. TakenFacts'
  BY <1>2 DEF PInv, TakenFacts
<1> QED
  BY <1>1, <1>3 DEF PInv

(* Every step preserves the invariant about promotion: what was taken is   *)
(* persisted at most once.                                                 *)
LEMMA NextPInv == PInv /\ [Next]_vars => PInv'
<1> SUFFICES ASSUME PInv, [Next]_vars PROVE PInv'
  OBVIOUS
<1>1. IInv /\ TypeOK /\ RingOrder /\ PromotedOnce /\ TakenFacts
  BY DEF PInv, IInv
<1>2. IInv'
  BY <1>1, NextIInv
<1>3. \A s \in Sessions : <<s, 0>> \notin taken
  BY <1>1 DEF TypeOK, Ids
<1>4. \A s \in Sessions : nextId[s] \in Nat
  BY <1>1, WorkingAssumption DEF TypeOK
<1>5. Empty.id = 0
  BY DEF Empty
<1>6. \A s \in Sessions, k \in Slots : <<s, slots[s][k].id>> \notin taken
  BY <1>1 DEF PromotedOnce
<1>7. CASE Tick \/ UNCHANGED vars
  <2>1. UNCHANGED <<slots, nextId, job, taken, persisted, lost>>
    BY <1>7 DEF Tick, vars
  <2>2. \A w \in Workers : InHand(w)' = InHand(w)
    BY <2>1 DEF InHand
  <2> QED
    BY <1>2, <1>4, <1>6, <2>1, <2>2, UntakenPInv
<1>8. ASSUME NEW now \in 0 .. clock, Sweep(now) PROVE PInv'
  <2>1. UNCHANGED <<nextId, job, taken, persisted, lost>>
    BY <1>8 DEF Sweep
  <2>2. \A w \in Workers : InHand(w)' = InHand(w)
    BY <2>1 DEF InHand
  <2>3. \A s \in Sessions, k \in Slots : slots'[s][k] = slots[s][k] \/ slots'[s][k] = Empty
    BY <1>8, Zenon DEF Sweep
  <2>4. \A s \in Sessions, k \in Slots : <<s, slots'[s][k].id>> \notin taken
    BY <1>3, <1>5, <1>6, <2>3, Zenon
  <2> QED
    BY <1>2, <1>4, <2>1, <2>2, <2>4, UntakenPInv
<1>9. ASSUME NEW w \in Workers, NEW s \in Sessions, NEW now \in 0 .. clock,
             NEW t \in Ttls, NEW o \in Owners, Add(w, s, t, o, now)
      PROVE  PInv'
  <2>1. UNCHANGED <<taken, persisted, lost>> /\ nextId[s] \in Ids
    BY <1>9 DEF Add
  <2>2. \A r \in Sessions : nextId[r] <= nextId'[r]
    BY <1>1, <1>4, <1>9 DEF Add, TypeOK
  <2>3. \A v \in Workers : InHand(v)' \subseteq InHand(v)
    BY <1>1, <1>9 DEF InHand, Add, TypeOK
  <2>4. <<s, nextId[s]>> \notin taken
    BY <1>1, <1>4, <2>1 DEF TakenFacts
  <2>5. \A r \in Sessions, k \in Slots :
          slots'[r][k] = slots[r][k] \/ (r = s /\ slots'[r][k].id = nextId[s])
    BY <1>1, <1>9 DEF Add, TypeOK
  <2>6. \A r \in Sessions, k \in Slots : <<r, slots'[r][k].id>> \notin taken
    BY <1>6, <2>4, <2>5
  <2> QED
    BY <1>2, <2>1, <2>2, <2>3, <2>6, UntakenPInv
<1>10. ASSUME NEW w \in Workers, NEW s \in Sessions, NEW now \in 0 .. clock,
              NEW i \in Ids, NEW ns \in Owners, Take(w, s, i, ns, now)
       PROVE  PInv'
  <2> DEFINE P == Passed(s, i, now)
  <2>1. UNCHANGED <<nextId, persisted, lost>> /\ taken' = taken \cup {<<s, i>>}
    BY <1>10 DEF Take
  <2>2. PICK k \in Slots : /\ slots[s][k].id = i
                           /\ slots' = [slots EXCEPT ![s] = [P EXCEPT ![k] = Empty]]
    BY <1>10, Zenon DEF Take, Finds, TakeSlot
  <2>3. /\ P \in [Slots -> Record \cup {Empty}]
        /\ \A j \in Slots : P[j] = slots[s][j] \/ P[j] = Empty
    BY <1>1, PassedSlots
  <2> HIDE DEF P
  <2>4. i \in Nat /\ i # 0 /\ <<s, i>> \notin taken
    BY <1>6, <2>2 DEF Ids
  <2>5. \A r \in Sessions, j \in Slots : <<r, slots'[r][j].id>> \notin taken'
    <3> SUFFICES ASSUME NEW r \in Sessions, NEW j \in Slots
                 PROVE  <<r, slots'[r][j].id>> \notin taken'
      OBVIOUS
    <3>1. slots \in [Sessions -> [Slots -> Record \cup {Empty}]]
      BY <1>1 DEF TypeOK
    <3>2. CASE r # s
      BY <1>6, <2>1, <2>2, <3>1, <3>2
    <3>3. CASE r = s /\ slots'[r][j] = Empty
      BY <1>3, <1>5, <2>1, <2>4, <3>3
    <3>4. CASE r = s /\ slots'[r][j] # Empty
      <4>1. j # k /\ slots'[r][j] = slots[s][j]
        BY <2>2, <2>3, <3>1, <3>4
      <4>2. slots[s][j].id # i
        BY <1>1, <2>2, <2>4, <4>1, SlotsDistinct
      <4> QED
        BY <1>6, <2>1, <3>4, <4>1, <4>2
    <3> QED
      BY <3>2, <3>3, <3>4
  <2>6. job' = [job EXCEPT ![w] = [pc |-> "taken", s |-> s, id |-> i, now |-> 0]]
        /\ job[w] = Free
    BY <1>10 DEF Take
  <2>7. \A v \in Workers : InHand(v)' = IF v = w THEN {<<s, i>>} ELSE InHand(v)
    <3>1. Free # [pc |-> "taken", s |-> s, id |-> i, now |-> 0]
      BY DEF Free
    <3> QED
      BY <1>1, <2>6, <3>1 DEF InHand, TypeOK
  <2>8. PromotedOnce'
    BY <1>1, <2>1, <2>4, <2>5, <2>7 DEF PromotedOnce, TakenFacts
  <2>9. i < nextId[s]
    <3>1. slots[s][k].id + Age(s, k) = nextId[s] /\ Age(s, k) \in 1 .. Capacity
      BY <1>1, <2>2, <2>4, SlotFacts DEF RingOrder
    <3> QED
      BY <1>4, <2>2, <2>4, <3>1, WorkingAssumption
  <2>10. TakenFacts'
    BY <1>1, <2>1, <2>7, <2>9 DEF TakenFacts
  <2> QED
    BY <1>2, <2>8, <2>10 DEF PInv
<1>11. ASSUME NEW w \in Workers, NEW s \in Sessions, NEW now \in 0 .. clock,
              NEW i \in Ids, NEW ns \in Owners, TakeMisses(w, s, i, ns, now)
       PROVE  PInv'
  <2>1. UNCHANGED <<nextId, job, taken, persisted, lost>>
    BY <1>11 DEF TakeMisses
  <2>2. \A v \in Workers : InHand(v)' = InHand(v)
    BY <2>1 DEF InHand
  <2>3. \A j \in Slots : Passed(s, i, now)[j] = slots[s][j] \/ Passed(s, i, now)[j] = Empty
    BY <1>1, PassedSlots
  <2>4. \A r \in Sessions, k \in Slots : slots'[r][k] = slots[r][k] \/ slots'[r][k] = Empty
    BY <1>1, <1>11, <2>3 DEF TakeMisses, TypeOK
  <2>5. \A r \in Sessions, k \in Slots : <<r, slots'[r][k].id>> \notin taken
    BY <1>3, <1>5, <1>6, <2>4, Zenon
  <2> QED
    BY <1>2, <1>4, <2>1, <2>2, <2>5, UntakenPInv
<1>12. ASSUME NEW w \in Workers, Get(w) PROVE PInv'
  <2>1. UNCHANGED <<nextId, taken, persisted, lost>> /\ job' = [job EXCEPT ![w] = Free]
    BY <1>12 DEF Get
  <2>2. \A v \in Workers : InHand(v)' \subseteq InHand(v)
    BY <1>1, <2>1 DEF InHand, TypeOK
  <2>3. job[w].s \in Sessions
    BY <1>1, <1>12 DEF Get, TypeOK, Job
  <2>4. \A j \in Slots : LET P == Passed(job[w].s, job[w].id, job[w].now)
                        IN  P[j] = slots[job[w].s][j] \/ P[j] = Empty
    BY <1>1, <2>3, PassedSlots
  <2>5. \A r \in Sessions, k \in Slots : slots'[r][k] = slots[r][k] \/ slots'[r][k] = Empty
    BY <1>1, <1>12, <2>3, <2>4 DEF Get, TypeOK
  <2>6. \A r \in Sessions, k \in Slots : <<r, slots'[r][k].id>> \notin taken
    BY <1>3, <1>5, <1>6, <2>5, Zenon
  <2> QED
    BY <1>2, <1>4, <2>1, <2>2, <2>6, UntakenPInv
<1>13. ASSUME NEW w \in Workers, PromoteInsert(w) \/ PromoteFails(w) PROVE PInv'
  <2>1. /\ UNCHANGED <<slots, nextId, taken>>
        /\ job' = [job EXCEPT ![w] = Free]
        /\ InHand(w) = {<<job[w].s, job[w].id>>}
        /\ \/ persisted' = persisted \cup InHand(w) /\ lost' = lost
           \/ lost' = lost \cup InHand(w) /\ persisted' = persisted
    BY <1>13 DEF PromoteInsert, PromoteFails, InHand
  <2>2. \A v \in Workers : InHand(v)' = IF v = w THEN {} ELSE InHand(v)
    BY <1>1, <2>1 DEF InHand, TypeOK
  <2>3. PromotedOnce'
    BY <1>1, <1>6, <2>1, <2>2 DEF PromotedOnce
  <2>4. TakenFacts'
    BY <1>1, <2>1, <2>2 DEF TakenFacts
  <2> QED
    BY <1>2, <2>3, <2>4 DEF PInv
<1> QED
  BY <1>7, <1>8, <1>9, <1>10, <1>11, <1>12, <1>13 DEF Next

(* Promotes that race each other never bring the same record into the log  *)
(* twice.                                                                  *)
THEOREM PromotedAtMostOnce == Spec => []PromotedOnce
<1>1. Init => PInv
  <2> SUFFICES ASSUME Init PROVE PInv
    OBVIOUS
  <2>1. IInv
    BY InitIInv
  <2>2. \A w \in Workers : InHand(w) = {}
    BY DEF Init, InHand
  <2>3. PromotedOnce /\ TakenFacts
    BY <2>2 DEF Init, PromotedOnce, TakenFacts
  <2> QED
    BY <2>1, <2>3 DEF PInv
<1>2. PInv => PromotedOnce
  BY DEF PInv
<1> QED
  BY <1>1, <1>2, NextPInv, PTL DEF Spec
=============================================================================
