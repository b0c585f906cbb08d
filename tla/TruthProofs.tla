---------------------------- MODULE TruthProofs ----------------------------
(***************************************************************************)
(* What clients assert survives: no retraction, sweep or merge takes the   *)
(* last visible assertion of a fact that no client took back, except a     *)
(* merge into a conclusion or into a record that is gone.                  *)
(***************************************************************************)
EXTENDS TruthMaintenance, FiniteSetTheorems, TLAPS

-----------------------------------------------------------------------------
(* The log r, the merges g and the maintenance thread t of a state.        *)

Vis(r, i) == r[i].live /\ ~r[i].expired
Der(r, i) == r[i].routes # <<>>
Cl(r, i) == <<r[i].ns, r[i].fact>>

IsRec(x) ==
    x = [live |-> x.live, expired |-> x.expired, ns |-> x.ns, fact |-> x.fact,
         routes |-> x.routes, rels |-> x.rels]
IsLog(r) == r \in Seq({r[i] : i \in DOMAIN r}) /\ \A i \in DOMAIN r : IsRec(r[i])

(* The losers of a merge are other records with the survivor's claim.      *)
OfMerge(x) ==
    x = [pc |-> x.pc, s |-> x.s, losers |-> x.losers, rels |-> x.rels, srcs |-> x.srcs]
IsMerge(r, x) ==
    /\ OfMerge(x)
    /\ x.pc # "idle" =>
          /\ x.s \in DOMAIN r /\ x.losers \in Seq(DOMAIN r) /\ x.losers # <<>>
          /\ \A l \in ToSet(x.losers) : l # x.s /\ Cl(r, l) = Cl(r, x.s)
IsMerges(r, g) == g = [m \in Mergers |-> g[m]] /\ \A m \in Mergers : IsMerge(r, g[m])

(* The sweep only has expired records in hand, a judgement a conclusion.   *)
Locals(t) ==
    t = [pc |-> t.pc, snap |-> t.snap, found |-> t.found, notes |-> t.notes,
         groups |-> t.groups, g0 |-> t.g0, reached |-> t.reached, cand |-> t.cand,
         derived |-> t.derived, deferred |-> t.deferred, todo |-> t.todo, ns |-> t.ns,
         cur |-> t.cur, links |-> t.links, batch |-> t.batch,
         route |-> t.route, prem |-> t.prem, heir |-> t.heir]
Judges(t) == t.pc \in {"premise", "resolve", "heir", "reap"}
Rests(t) == t.pc # "sweep" /\ ~Judges(t)
IsThread(r, t) ==
    /\ Locals(t)
    /\ t.pc = "sweep" => /\ t.batch \in Seq(DOMAIN r) /\ t.batch # <<>>
                         /\ \A i \in ToSet(t.batch) : r[i].expired
    /\ Judges(t) => Head(t.batch) \in DOMAIN r /\ Der(r, Head(t.batch))

(* AssertsOf of a state.                                                   *)
Backs(r, c, j) == Vis(r, j) /\ ~Der(r, j) /\ Cl(r, j) = c
Backed(r, c) == \E j \in DOMAIN r : Backs(r, c, j)

AInv ==
    /\ IsLog(rec) /\ IsMerges(rec, mg) /\ IsThread(rec, mt)
    /\ \A c \in claims \ destroyed : Backed(rec, c)

-----------------------------------------------------------------------------
(* Ascending(S) lists exactly the members of a finite set of numbers.      *)

LEMMA Least ==
    ASSUME NEW T \in SUBSET Nat, T # {}
    PROVE  \E x \in T : \A y \in T : x <= y
<1> DEFINE R == OpToRel(<, Nat)
<1>1. IsWellFoundedOn(R, Nat)
  BY Zenon, NatLessThanWellFounded
<1>2. \A a, b \in Nat : a < b => <<a, b>> \in R
  BY Zenon DEF OpToRel
<1> HIDE DEF R
<1>3. PICK x \in T : \A y \in T : ~ (<<y, x>> \in R)
  BY Zenon, <1>1, WFMin
<1>4. \A y \in T : ~ (y < x)
  BY Zenon, <1>2, <1>3
<1> QED
  BY <1>3, <1>4

LEMMA Induction ==
    ASSUME NEW S, 0 \in S, \A n \in Nat : n \in S => n + 1 \in S
    PROVE  Nat \subseteq S
<1> SUFFICES ASSUME Nat \ S # {} PROVE FALSE
  BY Zenon
<1>1. PICK m \in Nat \ S : \A y \in Nat \ S : m <= y
  BY Zenon, Least
<1>2. m - 1 \in Nat /\ ~ (m <= m - 1) /\ (m - 1) + 1 = m
  BY <1>1
<1> QED
  BY Zenon, <1>1, <1>2

Below(S, x) == {y \in S : y < x}
Ranked(S) == \A i \in 1..Cardinality(S) : \E x \in S : Cardinality(Below(S, x)) = i - 1

(* Taking the least member away lowers the rank of each other one by one.  *)
LEMMA RankedMore ==
    ASSUME NEW S \in SUBSET Nat, IsFiniteSet(S),
           NEW x \in S, \A y \in S : x <= y, Ranked(S \ {x})
    PROVE  Ranked(S)
<1> DEFINE T == S \ {x}
<1>1. IsFiniteSet(S \ {x}) /\ Cardinality(S \ {x}) = Cardinality(S) - 1
  BY Zenon, FS_RemoveElement
<1>2. Cardinality(S) \in Nat
  BY Zenon, FS_CardinalityType
<1> SUFFICES ASSUME NEW i \in 1..Cardinality(S)
             PROVE  \E z \in S : Cardinality(Below(S, z)) = i - 1
  BY Zenon DEF Ranked
<1>3. CASE i = 1
  <2>1. \A y \in S : ~ (y < x)
    OBVIOUS
  <2>2. Below(S, x) = {}
    BY Zenon, <2>1 DEF Below
  <2> QED
    BY SMTT(30), <1>3, <2>2, FS_EmptySet
<1>4. CASE i # 1
  <2>1. i - 1 \in 1..Cardinality(T)
    BY SMTT(30), <1>1, <1>2, <1>4
  <2>2. PICK z \in T : Cardinality(Below(T, z)) = (i - 1) - 1
    BY Zenon, <2>1 DEF Ranked
  <2>3. Below(S, z) = Below(T, z) \cup {x} /\ x \notin Below(T, z)
    BY DEF Below
  <2>4. IsFiniteSet(Below(T, z))
    BY Zenon, <1>1, FS_Subset DEF Below
  <2>5. Cardinality(Below(T, z) \cup {x}) = Cardinality(Below(T, z)) + 1
    BY Zenon, <2>3, <2>4, FS_AddElement
  <2> HIDE DEF T
  <2>6. Cardinality(Below(S, z)) = i - 1
    BY <1>2, <2>2, <2>3, <2>5
  <2> QED
    BY Zenon, <2>6 DEF T
<1> QED
  BY SMTT(30), <1>3, <1>4

LEMMA AllRanked ==
    ASSUME NEW S \in SUBSET Nat, IsFiniteSet(S)
    PROVE  Ranked(S)
<1> DEFINE N == {n \in Nat : \A T \in SUBSET Nat :
                                IsFiniteSet(T) /\ Cardinality(T) = n => Ranked(T)}
<1>1. 0 \in N
  BY DEF Ranked
<1>2. ASSUME NEW n \in Nat, n \in N PROVE n + 1 \in N
  <2> SUFFICES ASSUME NEW T \in SUBSET Nat, IsFiniteSet(T), Cardinality(T) = n + 1
               PROVE  Ranked(T)
    OBVIOUS
  <2>1. T # {}
    BY FS_EmptySet
  <2>2. PICK x \in T : \A y \in T : x <= y
    BY Zenon, <2>1, Least
  <2>3. IsFiniteSet(T \ {x}) /\ Cardinality(T \ {x}) = Cardinality(T) - 1
    BY Zenon, FS_RemoveElement
  <2>4. Ranked(T \ {x})
    BY SMTT(30), <1>2, <2>3, (n + 1) - 1 = n
  <2> QED
    BY Zenon, <2>2, <2>4, RankedMore
<1>3. Nat \subseteq N
  <2> HIDE DEF N
  <2> QED
    BY Zenon, <1>1, <1>2, Induction
<1>4. Cardinality(S) \in N
  BY Zenon, <1>3, FS_CardinalityType
<1> QED
  BY Zenon, <1>4

(* A sequence over S that is empty only if S is.                           *)
Lists(q, S) == q \in Seq(S) /\ (q = <<>> => S = {}) /\ ToSet(q) \subseteq S

LEMMA AscendingLists ==
    ASSUME NEW S \in SUBSET Nat, IsFiniteSet(S)
    PROVE  Lists(Ascending(S), S)
<1>1. Ranked(S)
  BY Zenon, AllRanked
<1>2. Cardinality(S) \in Nat /\ (Cardinality(S) = 0 => S = {})
  BY FS_CardinalityType, FS_EmptySet
<1>3. ASSUME NEW i \in 1..Cardinality(S) PROVE Ascending(S)[i] \in S
  BY <1>1, <1>3 DEF Ranked, Below, Ascending
<1>4. Ascending(S) \in [1..Cardinality(S) -> S]
  BY Zenon, <1>3 DEF Ascending
<1>5. Ascending(S) \in Seq(S) /\ Len(Ascending(S)) = Cardinality(S)
  BY <1>2, <1>4
<1>6. ToSet(Ascending(S)) \subseteq S
  BY <1>5 DEF ToSet
<1> QED
  BY SMTT(30), <1>2, <1>5, <1>6 DEF Lists

-----------------------------------------------------------------------------
(* How a step changes the log: a record keeps its claim and its routes,    *)
(* and stays expired.                                                      *)

After(r, q) ==
    /\ IsLog(q) /\ DOMAIN r \subseteq DOMAIN q
    /\ \A i \in DOMAIN r : /\ q[i].ns = r[i].ns /\ q[i].fact = r[i].fact
                           /\ q[i].routes = r[i].routes
                           /\ r[i].expired => q[i].expired
Same(r, q, i) == q[i].live = r[i].live /\ q[i].expired = r[i].expired
Quiet(r, q) == After(r, q) /\ \A i \in DOMAIN r : Same(r, q, i)
Dies(r, q, i) ==
    /\ After(r, q) /\ \A j \in DOMAIN r \ {i} : Same(r, q, j)
    /\ i \in DOMAIN r => (q[i].live => r[i].live)

LEMMA SeqOfItself ==
    ASSUME NEW n \in Nat, NEW q, q = [i \in 1..n |-> q[i]]
    PROVE  q \in Seq({q[i] : i \in DOMAIN q})
<1> DEFINE X == {q[i] : i \in DOMAIN q}
<1>1. \A i \in 1..n : q[i] \in X
  BY Zenon
<1> HIDE DEF X
<1>2. q \in [1..n -> X]
  BY Zenon, <1>1
<1>3. q \in Seq(X)
  BY <1>2
<1> QED
  BY Zenon, <1>3 DEF X

LEMMA StaysQuiet ==
    ASSUME NEW r, IsLog(r)
    PROVE  Quiet(r, r)
  BY Zenon DEF Quiet, After, Same

(* Relate only adds a relation.                                            *)
LEMMA RelateQuiet ==
    ASSUME NEW f, NEW t, NEW kind, IsLog(rec), Relate(f, t, kind)
    PROVE  Quiet(rec, rec')
<1>1. CASE rec' = rec
  BY <1>1, StaysQuiet
<1>2. CASE rec' = [rec EXCEPT ![f].rels = @ \cup {<<t, kind>>}]
  <2> DEFINE x == rec[f].rels \cup {<<t, kind>>}
  <2>1. rec' = [rec EXCEPT ![f].rels = x]
    BY Zenon, <1>2
  <2> HIDE DEF x
  <2>2. DOMAIN rec' = DOMAIN rec
    BY Zenon, <2>1
  <2>3. ASSUME NEW i \in DOMAIN rec
        PROVE  rec'[i] = IF i = f THEN [rec[i] EXCEPT !.rels = x] ELSE rec[i]
    BY Zenon, <2>1
  <2>4. ASSUME NEW i \in DOMAIN rec
        PROVE  /\ IsRec(rec'[i]) /\ Same(rec, rec', i)
               /\ rec'[i].ns = rec[i].ns /\ rec'[i].fact = rec[i].fact
               /\ rec'[i].routes = rec[i].routes
    BY Zenon, <2>3 DEF IsRec, Same, IsLog
  <2>5. rec' \in Seq({rec'[i] : i \in DOMAIN rec'})
    <3>1. Len(rec) \in Nat /\ DOMAIN rec = 1..Len(rec)
      BY DEF IsLog
    <3>2. rec' = [i \in 1..Len(rec) |-> rec'[i]]
      BY Zenon, <2>1, <3>1
    <3> QED
      BY Zenon, <3>1, <3>2, SeqOfItself
  <2> QED
    BY SMTT(30), <2>2, <2>4, <2>5 DEF Quiet, After, IsLog, Same
<1> QED
  BY <1>1, <1>2 DEF Relate

(* A delete only makes one record dead, an expiry only one expired.        *)
LEMMA TombstoneDies ==
    ASSUME NEW i, IsLog(rec), Tombstone(i)
    PROVE  Dies(rec, rec', i) /\ (i \in Ids => ~Vis(rec', i))
<1>1. rec' = [rec EXCEPT ![i].live = FALSE]
  BY Zenon DEF Tombstone
<1>2. DOMAIN rec' = DOMAIN rec
  BY Zenon, <1>1
<1>3. ASSUME NEW j \in DOMAIN rec
      PROVE  rec'[j] = IF j = i THEN [rec[j] EXCEPT !.live = FALSE] ELSE rec[j]
  BY Zenon, <1>1
<1>4. ASSUME NEW j \in DOMAIN rec
      PROVE  /\ IsRec(rec'[j]) /\ (j # i => Same(rec, rec', j))
             /\ rec'[j].ns = rec[j].ns /\ rec'[j].fact = rec[j].fact
             /\ rec'[j].routes = rec[j].routes /\ rec'[j].expired = rec[j].expired
             /\ (j = i => rec'[j].live = FALSE)
  BY Zenon, <1>3 DEF IsRec, Same, IsLog
<1>5. rec' \in Seq({rec'[j] : j \in DOMAIN rec'})
  <2>1. Len(rec) \in Nat /\ DOMAIN rec = 1..Len(rec)
    BY DEF IsLog
  <2>2. rec' = [j \in 1..Len(rec) |-> rec'[j]]
    BY Zenon, <1>1, <2>1
  <2> QED
    BY Zenon, <2>1, <2>2, SeqOfItself
<1> QED
  BY Zenon, <1>2, <1>4, <1>5 DEF Dies, After, IsLog, Vis, Ids

Expires(i) == rec' = [rec EXCEPT ![i].expired = TRUE]
LEMMA ExpiryDies ==
    ASSUME NEW i, IsLog(rec), Expires(i)
    PROVE  Dies(rec, rec', i) /\ (i \in Ids => ~Vis(rec', i))
<1>1. rec' = [rec EXCEPT ![i].expired = TRUE]
  BY Zenon DEF Expires
<1>2. DOMAIN rec' = DOMAIN rec
  BY Zenon, <1>1
<1>3. ASSUME NEW j \in DOMAIN rec
      PROVE  rec'[j] = IF j = i THEN [rec[j] EXCEPT !.expired = TRUE] ELSE rec[j]
  BY Zenon, <1>1
<1>4. ASSUME NEW j \in DOMAIN rec
      PROVE  /\ IsRec(rec'[j]) /\ (j # i => Same(rec, rec', j))
             /\ rec'[j].ns = rec[j].ns /\ rec'[j].fact = rec[j].fact
             /\ rec'[j].routes = rec[j].routes /\ rec'[j].live = rec[j].live
             /\ (rec[j].expired => rec'[j].expired)
             /\ (j = i => rec'[j].expired = TRUE)
  BY Zenon, <1>3 DEF IsRec, Same, IsLog
<1>5. rec' \in Seq({rec'[j] : j \in DOMAIN rec'})
  <2>1. Len(rec) \in Nat /\ DOMAIN rec = 1..Len(rec)
    BY DEF IsLog
  <2>2. rec' = [j \in 1..Len(rec) |-> rec'[j]]
    BY Zenon, <1>1, <2>1
  <2> QED
    BY Zenon, <2>1, <2>2, SeqOfItself
<1> QED
  BY Zenon, <1>2, <1>4, <1>5 DEF Dies, After, IsLog, Vis, Ids

(* An insert leaves the records there are and adds a visible one.          *)
LEMMA InsertQuiet ==
    ASSUME NEW ns, NEW triple, NEW routes, IsLog(rec), InsertRecord(ns, triple, routes)
    PROVE  /\ Quiet(rec, rec')
           /\ \E n \in DOMAIN rec' : /\ n \notin DOMAIN rec /\ Vis(rec', n)
                                     /\ rec'[n].routes = routes
                                     /\ Cl(rec', n) = <<ns, triple>>
<1> DEFINE e == [live |-> TRUE, expired |-> FALSE, ns |-> ns,
                 fact |-> triple, routes |-> routes, rels |-> {}]
<1>1. rec' = Append(rec, e)
  BY Zenon DEF InsertRecord
<1>2. IsRec(e) /\ Vis([x \in {1} |-> e], 1) /\ e.routes = routes /\ e.ns = ns /\ e.fact = triple
      /\ e.live = TRUE /\ e.expired = FALSE
  BY Zenon DEF IsRec, Vis
<1> HIDE DEF e
<1>3. /\ DOMAIN rec = 1..Len(rec) /\ Len(rec) \in Nat
      /\ DOMAIN rec' = 1..(Len(rec) + 1)
      /\ rec'[Len(rec) + 1] = e
      /\ \A i \in DOMAIN rec : rec'[i] = rec[i]
  BY SMTT(30), <1>1 DEF IsLog
<1>4. rec' \in Seq({rec'[j] : j \in DOMAIN rec'})
  <2>1. rec' \in Seq({rec[j] : j \in DOMAIN rec} \cup {e})
    BY SMTT(30), <1>1 DEF IsLog
  <2> QED
    BY SMTT(30), <1>3, <2>1
<1>5. \A i \in DOMAIN rec' : IsRec(rec'[i])
  BY <1>2, <1>3 DEF IsLog
<1> QED
  BY SMTT(30), <1>2, <1>3, <1>4, <1>5 DEF Quiet, After, Same, IsLog, Vis, Cl

-----------------------------------------------------------------------------
(* Merges, the thread and the claims across a step.                        *)

LEMMA MergesAfter ==
    ASSUME NEW r, NEW q, NEW g, IsMerges(r, g), After(r, q)
    PROVE  IsMerges(q, g)
<1> SUFFICES ASSUME NEW m \in Mergers, g[m].pc # "idle"
             PROVE  /\ g[m].s \in DOMAIN q /\ g[m].losers \in Seq(DOMAIN q)
                    /\ \A l \in ToSet(g[m].losers) : Cl(q, l) = Cl(q, g[m].s)
  BY Zenon DEF IsMerges, IsMerge
<1>1. /\ g[m].s \in DOMAIN r /\ g[m].losers \in Seq(DOMAIN r)
      /\ \A l \in ToSet(g[m].losers) : Cl(r, l) = Cl(r, g[m].s)
  BY Zenon DEF IsMerges, IsMerge
<1>2. \A i \in DOMAIN r : i \in DOMAIN q /\ Cl(q, i) = Cl(r, i)
  BY Zenon DEF After, Cl
<1>3. \A l \in ToSet(g[m].losers) : l \in DOMAIN r
  BY <1>1 DEF ToSet
<1>4. g[m].losers \in Seq(DOMAIN q)
  BY <1>1, <1>2
<1> QED
  BY SMTT(30), <1>1, <1>2, <1>3, <1>4

LEMMA ThreadAfter ==
    ASSUME NEW r, NEW q, NEW t, IsThread(r, t), After(r, q)
    PROVE  IsThread(q, t)
<1>0. Judges(t) => Head(t.batch) \in DOMAIN q /\ Der(q, Head(t.batch))
  BY SMTT(30) DEF IsThread, After, Der
<1> SUFFICES ASSUME t.pc = "sweep"
             PROVE  /\ t.batch \in Seq(DOMAIN q)
                    /\ \A i \in ToSet(t.batch) : q[i].expired
  BY Zenon, <1>0 DEF IsThread
<1>1. t.batch \in Seq(DOMAIN r) /\ \A i \in ToSet(t.batch) : r[i].expired
  BY Zenon DEF IsThread
<1>2. \A i \in ToSet(t.batch) : i \in DOMAIN r
  BY SMTT(30), <1>1 DEF ToSet
<1>3. t.batch \in Seq(DOMAIN q)
  BY <1>1 DEF After
<1> QED
  BY SMTT(30), <1>1, <1>2, <1>3 DEF After

LEMMA BackedQuiet ==
    ASSUME NEW r, NEW q, NEW c, Quiet(r, q), Backed(r, c)
    PROVE  Backed(q, c)
  BY Zenon DEF Backed, Backs, Vis, Der, Cl, Quiet, After, Same

(* A record that dies takes no claim along that another one backs.         *)
LEMMA BackedDies ==
    ASSUME NEW r, NEW q, NEW i, NEW c, NEW j \in DOMAIN r,
           Dies(r, q, i), Backs(r, c, j), j # i
    PROVE  Backed(q, c)
  BY Zenon DEF Backed, Backs, Vis, Der, Cl, Dies, After, Same

-----------------------------------------------------------------------------
(* AInv is inductive.                                                      *)

LEMMA AInit == Init => AInv
<1> SUFFICES ASSUME Init PROVE AInv
  BY Zenon
<1>1. IsLog(rec)
  <2>1. rec = <<>> /\ DOMAIN rec = {}
    BY DEF Init
  <2>2. rec \in Seq({rec[i] : i \in DOMAIN rec})
    BY <2>1
  <2> QED
    BY Zenon, <2>1, <2>2 DEF IsLog
<1>2. IsMerges(rec, mg)
  BY Zenon DEF Init, IsMerges, IsMerge, OfMerge, NoMerge
<1>3. IsThread(rec, mt)
  BY Zenon DEF Init, IsThread, Judges, Locals, Asleep
<1> QED
  BY SMTT(30), <1>1, <1>2, <1>3 DEF AInv, Init

(* A step that only adds records and relations.                            *)
LEMMA QuietStep ==
    ASSUME AInv, Quiet(rec, rec'), UNCHANGED <<claims, destroyed>>,
           IsMerges(rec', mg'), IsThread(rec', mt')
    PROVE  AInv'
<1>1. IsLog(rec') /\ claims' = claims /\ destroyed' = destroyed
  BY Zenon DEF Quiet, After
<1>2. ASSUME NEW c \in claims \ destroyed PROVE Backed(rec', c)
  <2>1. Backed(rec, c)
    BY Zenon, <1>2 DEF AInv
  <2> QED
    BY Zenon, <2>1, BackedQuiet
<1> QED
  BY Zenon, <1>1, <1>2 DEF AInv

(* The same when no merge moves.                                           *)
LEMMA ThreadStep ==
    ASSUME AInv, Quiet(rec, rec'), UNCHANGED <<mg, claims, destroyed>>, IsThread(rec', mt')
    PROVE  AInv'
<1>1. IsMerges(rec', mg)
  BY Zenon, MergesAfter DEF AInv, Quiet
<1>2. IsMerges(rec', mg')
  BY <1>1
<1> QED
  BY Zenon, <1>2, QuietStep

(* The same when the thread neither sweeps nor judges.                     *)
LEMMA AwakeStep ==
    ASSUME AInv, Quiet(rec, rec'), UNCHANGED <<mg, claims, destroyed>>,
           Locals(mt'), Rests(mt')
    PROVE  AInv'
<1>1. IsThread(rec', mt')
  BY Zenon DEF IsThread, Rests
<1> QED
  BY Zenon, <1>1, ThreadStep

LEMMA AssertFactStep ==
    ASSUME AInv, NEW ns, NEW t, AssertFact(ns, t)
    PROVE  AInv'
<1>1. /\ IsLog(rec) /\ IsMerges(rec, mg) /\ IsThread(rec, mt)
      /\ InsertRecord(ns, t, <<>>) /\ claims' = claims \cup {<<ns, t>>}
      /\ destroyed' = destroyed \ {<<ns, t>>} /\ mg' = mg /\ mt' = mt
  BY DEF AInv, AssertFact
<1>2. Quiet(rec, rec') /\ After(rec, rec') /\ IsLog(rec')
  BY SMTT(30), <1>1, InsertQuiet DEF Quiet, After
<1>3. PICK n \in DOMAIN rec' : /\ n \notin DOMAIN rec /\ Vis(rec', n)
                               /\ rec'[n].routes = <<>> /\ Cl(rec', n) = <<ns, t>>
  BY SMTT(30), <1>1, InsertQuiet
<1>4. IsMerges(rec', mg) /\ IsThread(rec', mt)
  BY ZenonT(30), <1>1, <1>2, MergesAfter, ThreadAfter
<1>5. Backed(rec', <<ns, t>>)
  BY Zenon, <1>3 DEF Backed, Backs, Der
<1>6. ASSUME NEW c \in claims' \ destroyed' PROVE Backed(rec', c)
  <2>1. CASE c = <<ns, t>>
    BY Zenon, <1>5, <2>1
  <2>2. CASE c # <<ns, t>>
    <3>1. Backed(rec, c)
      BY Zenon, <1>1, <1>6, <2>2 DEF AInv
    <3> QED
      BY Zenon, <1>2, <3>1, BackedQuiet
  <2> QED
    BY Zenon, <2>1, <2>2
<1> QED
  BY Zenon, <1>1, <1>2, <1>4, <1>6 DEF AInv

(* What a client takes away takes its claim along unless it is backed.     *)
LEMMA TakeBackStep ==
    ASSUME AInv, NEW i \in Ids, Dies(rec, rec', i), TakeBack(i),
           UNCHANGED <<mg, mt, destroyed>>
    PROVE  AInv'
<1>1. IsLog(rec') /\ After(rec, rec') /\ IsMerges(rec, mg) /\ IsThread(rec, mt)
  BY Zenon DEF AInv, Dies, After
<1>2. IsMerges(rec', mg') /\ IsThread(rec', mt')
  BY SMTT(30), <1>1, MergesAfter, ThreadAfter
<1>3. ASSUME NEW c \in claims' \ destroyed' PROVE Backed(rec', c)
  <2>1. c \in claims /\ c \notin destroyed
    BY Zenon, <1>3 DEF TakeBack
  <2>2. PICK j \in DOMAIN rec : Backs(rec, c, j)
    BY Zenon, <2>1 DEF AInv, Backed
  <2>3. CASE j # i
    BY Zenon, <2>2, <2>3, BackedDies
  <2>4. CASE j = i
    <3>1. Claim(i) = c
      BY Zenon, <2>2, <2>4 DEF Backs, Claim, Cl
    <3>2. ~LastAssertion(i)
      BY Zenon, <1>3, <3>1 DEF TakeBack
    <3>3. PICK k \in AssertsOf(c) : k # i
      BY Zenon, <3>1, <3>2 DEF LastAssertion
    <3>4. k \in DOMAIN rec /\ Backs(rec, c, k)
      BY Zenon, <3>3 DEF AssertsOf, Backs, Visible, Vis, Derived, Der, Claim, Cl, Ids
    <3> QED
      BY Zenon, <3>3, <3>4, BackedDies
  <2> QED
    BY Zenon, <2>3, <2>4
<1> QED
  BY Zenon, <1>1, <1>2, <1>3 DEF AInv

LEMMA DeleteStep ==
    ASSUME AInv, NEW i \in Ids, Delete(i) \/ Expire(i)
    PROVE  AInv'
<1>1. IsLog(rec) /\ TakeBack(i) /\ UNCHANGED <<mg, mt, destroyed>>
  BY Zenon DEF AInv, Delete, Expire
<1>2. Tombstone(i) \/ Expires(i)
  BY Zenon DEF Delete, Expire, Expires
<1>3. Dies(rec, rec', i)
  BY Zenon, <1>1, <1>2, TombstoneDies, ExpiryDies
<1> QED
  BY Zenon, <1>1, <1>3, TakeBackStep

-----------------------------------------------------------------------------
(* The steps of a merge.                                                   *)

(* A merge that moves on with its survivor and losers.                     *)
LEMMA MergesMove ==
    ASSUME NEW r, NEW g, NEW m \in Mergers, NEW x, IsMerges(r, g), IsMerge(r, x)
    PROVE  IsMerges(r, [g EXCEPT ![m] = x])
<1> DEFINE h == [g EXCEPT ![m] = x]
<1>1. DOMAIN g = Mergers
  BY Zenon DEF IsMerges
<1>2. h = [n \in Mergers |-> h[n]]
  BY Zenon, <1>1
<1>3. ASSUME NEW n \in Mergers PROVE IsMerge(r, h[n])
  <2>1. h[n] = IF n = m THEN x ELSE g[n]
    BY Zenon, <1>1
  <2> HIDE DEF h
  <2> QED
    BY Zenon, <2>1 DEF IsMerges
<1> QED
  BY SMTT(30), <1>2, <1>3 DEF IsMerges

LEMMA MergeBeginStep ==
    ASSUME AInv, NEW m \in Mergers, MergeBegin(m)
    PROVE  AInv'
<1>1. IsLog(rec) /\ IsMerges(rec, mg) /\ IsThread(rec, mt)
  BY Zenon DEF AInv
<1>2. rec' = rec /\ mt' = mt /\ UNCHANGED <<claims, destroyed>>
  BY Zenon DEF MergeBegin, db, ghost
<1>3. PICK s \in Ids : \E L \in SUBSET Mergeable(s) :
          /\ Visible(s) /\ L # {}
          /\ mg' = [mg EXCEPT ![m] =
                [pc |-> "update", s |-> s, losers |-> Ascending(L),
                 rels |-> UNION {rec[i].rels : i \in L}, srcs |-> {}]]
  BY Zenon DEF MergeBegin
<1>4. PICK L \in SUBSET Mergeable(s) :
          /\ Visible(s) /\ L # {}
          /\ mg' = [mg EXCEPT ![m] =
                [pc |-> "update", s |-> s, losers |-> Ascending(L),
                 rels |-> UNION {rec[i].rels : i \in L}, srcs |-> {}]]
  BY ZenonT(30), <1>3
<1> DEFINE R == UNION {rec[i].rels : i \in L}
           x == [pc |-> "update", s |-> s, losers |-> Ascending(L), rels |-> R, srcs |-> {}]
<1>5. Lists(Ascending(L), L)
  <2>1. DOMAIN rec = 1..Len(rec) /\ Len(rec) \in Nat
    BY SMTT(30), <1>1 DEF IsLog
  <2>2. L \in SUBSET (1..Len(rec)) /\ L \in SUBSET Nat
    BY SMTT(30), <2>1 DEF Mergeable, Ids
  <2>3. IsFiniteSet(1..Len(rec))
    BY SMTT(30), <2>1, FS_Interval
  <2>4. IsFiniteSet(L)
    BY ZenonT(30), <2>2, <2>3, FS_Subset
  <2> QED
    BY Zenon, <2>2, <2>4, AscendingLists
<1>6. mg' = [mg EXCEPT ![m] = x]
  BY Zenon, <1>4
<1> HIDE DEF R
<1>7. x.pc = "update" /\ x.s = s /\ x.losers = Ascending(L) /\ OfMerge(x)
  BY Zenon DEF OfMerge
<1> HIDE DEF x
<1>8. IsMerge(rec, x)
  <2>1. L \subseteq DOMAIN rec /\ s \in DOMAIN rec
        /\ \A l \in L : l # s /\ Cl(rec, l) = Cl(rec, s)
    BY Zenon DEF Mergeable, Ids, Claim, Cl
  <2>2. x.losers \in Seq(DOMAIN rec) /\ x.losers # <<>> /\ ToSet(x.losers) \subseteq L
    BY SMTT(30), <1>4, <1>5, <1>7, <2>1 DEF Lists
  <2> QED
    BY Zenon, <1>7, <2>1, <2>2 DEF IsMerge
<1>9. IsMerges(rec, mg')
  BY Zenon, <1>1, <1>6, <1>8, MergesMove
<1>10. Quiet(rec, rec') /\ IsMerges(rec', mg') /\ IsThread(rec', mt')
  BY SMTT(30), <1>1, <1>2, <1>9, StaysQuiet
<1> QED
  BY Zenon, <1>2, <1>10, QuietStep

(* The merge m takes a step with its survivor and losers, or is over.      *)
Moves(m) ==
    /\ mg' = [mg EXCEPT ![m] = mg'[m]] /\ OfMerge(mg'[m])
    /\ \/ mg'[m].pc = "idle"
       \/ /\ mg[m].pc # "idle"
          /\ mg'[m].s = mg[m].s /\ mg'[m].losers = mg[m].losers

LEMMA MovesStep ==
    ASSUME AInv, NEW m \in Mergers, Moves(m), Quiet(rec, rec'), UNCHANGED <<mt, claims, destroyed>>
    PROVE  AInv'
<1>1. IsMerges(rec, mg) /\ IsThread(rec, mt) /\ After(rec, rec')
  BY Zenon DEF AInv, Quiet
<1>2. IsMerges(rec', mg) /\ IsThread(rec', mt)
  BY Zenon, <1>1, MergesAfter, ThreadAfter
<1>3. IsMerge(rec', mg'[m])
  BY Zenon, <1>2 DEF Moves, IsMerges, IsMerge
<1>4. IsMerges(rec', [mg EXCEPT ![m] = mg'[m]])
  BY Zenon, <1>2, <1>3, MergesMove
<1>5. IsMerges(rec', mg') /\ IsThread(rec', mt')
  BY Zenon, <1>2, <1>4 DEF Moves
<1> QED
  BY Zenon, <1>5, QuietStep

LEMMA MergeMoveStep ==
    ASSUME AInv, NEW m \in Mergers,
           MergeUpdate(m) \/ MergeMigrate(m) \/ MergeSupersede(m)
             \/ MergeSources(m) \/ MergeRepoint(m)
    PROVE  AInv'
<1>1. IsLog(rec) /\ DOMAIN mg = Mergers /\ OfMerge(mg[m])
  BY Zenon DEF AInv, IsMerges, IsMerge
<1>2. CASE MergeUpdate(m)
  <2> DEFINE x == [mg[m] EXCEPT !.pc = IF mg[m].rels = {} THEN "supersede" ELSE "migrate"]
  <2>1. rec' = rec /\ UNCHANGED <<mt, claims, destroyed>>
    BY Zenon, <1>2 DEF MergeUpdate, db, ghost
  <2>2. mg' = [mg EXCEPT ![m] = IF ~Live(mg[m].s) THEN NoMerge ELSE x]
    BY <1>2 DEF MergeUpdate
  <2>3. OfMerge(x) /\ x.s = mg[m].s /\ x.losers = mg[m].losers
    BY <1>1 DEF OfMerge
  <2>4. OfMerge(NoMerge) /\ NoMerge.pc = "idle"
    BY Zenon DEF OfMerge, NoMerge
  <2> HIDE DEF x
  <2>5. Moves(m)
    BY Zenon, <1>1, <1>2, <2>2, <2>3, <2>4 DEF Moves, MergeUpdate
  <2> QED
    BY SMTT(30), <1>1, <2>1, <2>5, StaysQuiet, MovesStep
<1>3. CASE MergeMigrate(m)
  <2>1. PICK r \in mg[m].rels :
          /\ Relate(mg[m].s, r[1], r[2])
          /\ mg' = [mg EXCEPT ![m].rels = @ \ {r},
                              ![m].pc = IF mg[m].rels = {r} THEN "supersede"
                                        ELSE "migrate"]
    BY Zenon, <1>3 DEF MergeMigrate
  <2>2. Quiet(rec, rec')
    BY Zenon, <1>1, <2>1, RelateQuiet
  <2>3. Moves(m)
    BY Zenon, <1>1, <1>3, <2>1 DEF Moves, MergeMigrate, OfMerge
  <2>4. UNCHANGED <<mt, claims, destroyed>>
    BY <1>3 DEF MergeMigrate, ghost
  <2> QED
    BY ZenonT(30), <2>2, <2>3, <2>4, MovesStep
<1>4. CASE MergeSupersede(m)
  <2>1. Relate(mg[m].s, Head(mg[m].losers), "supersedes")
    BY Zenon, <1>4 DEF MergeSupersede
  <2>2. Quiet(rec, rec')
    BY ZenonT(30), <1>1, <2>1, RelateQuiet
  <2>3. Moves(m)
    BY SMTT(30), <1>1, <1>4 DEF Moves, MergeSupersede, OfMerge
  <2>4. UNCHANGED <<mt, claims, destroyed>>
    BY SMTT(30), <1>4 DEF MergeSupersede, ghost
  <2> QED
    BY ZenonT(30), <2>2, <2>3, <2>4, MovesStep
<1>5. CASE MergeSources(m)
  <2>1. rec' = rec /\ UNCHANGED <<mt, claims, destroyed>>
    BY Zenon, <1>5 DEF MergeSources, db, ghost
  <2>2. Moves(m)
    BY SMTT(30), <1>1, <1>5 DEF Moves, MergeSources, OfMerge
  <2> QED
    BY Zenon, <1>1, <2>1, <2>2, StaysQuiet, MovesStep
<1>6. CASE MergeRepoint(m)
  <2>1. PICK c \in mg[m].srcs :
          /\ Relate(c, mg[m].s, "derived_from")
          /\ mg' = [mg EXCEPT ![m].srcs = @ \ {c},
                              ![m].pc = IF mg[m].srcs = {c} THEN "delete"
                                        ELSE "repoint"]
    BY ZenonT(30), <1>6 DEF MergeRepoint
  <2>2. Quiet(rec, rec')
    BY Zenon, <1>1, <2>1, RelateQuiet
  <2>3. Moves(m)
    BY ZenonT(30), <1>1, <1>6, <2>1 DEF Moves, MergeRepoint, OfMerge
  <2>4. UNCHANGED <<mt, claims, destroyed>>
    BY Zenon, <1>6 DEF MergeRepoint, ghost
  <2> QED
    BY ZenonT(30), <2>2, <2>3, <2>4, MovesStep
<1> QED
  BY SMTT(30), <1>2, <1>3, <1>4, <1>5, <1>6

LEMMA HeadAndTail ==
    ASSUME NEW D, NEW q \in Seq(D), q # <<>>
    PROVE  /\ Head(q) \in D /\ Head(q) \in ToSet(q)
           /\ Tail(q) \in Seq(D) /\ ToSet(Tail(q)) \subseteq ToSet(q)
           /\ Len(q) # 1 => Tail(q) # <<>>
<1>1. Len(q) \in Nat /\ Len(q) > 0 /\ DOMAIN q = 1..Len(q) /\ Head(q) = q[1]
  OBVIOUS
<1>2. Head(q) \in D /\ Head(q) \in ToSet(q)
  BY SMTT(30), <1>1 DEF ToSet
<1>3. Tail(q) \in Seq(D) /\ DOMAIN Tail(q) = 1..(Len(q) - 1)
  BY SMTT(30), <1>1
<1>4. \A i \in 1..(Len(q) - 1) : Tail(q)[i] = q[i + 1] /\ i + 1 \in DOMAIN q
  BY SMTT(30), <1>1
<1>5. ToSet(Tail(q)) \subseteq ToSet(q)
  BY SMTT(30), <1>3, <1>4 DEF ToSet
<1>6. Len(q) # 1 => 1 \in DOMAIN Tail(q)
  BY SMTT(30), <1>1, <1>3
<1>7. DOMAIN << >> = {}
  OBVIOUS
<1>8. Len(q) # 1 => Tail(q) # <<>>
  BY Zenon, <1>6, <1>7
<1> QED
  BY SMTT(30), <1>2, <1>3, <1>5, <1>8

(* The delete of a loser.  Its claim stays backed by the survivor, unless  *)
(* that is a conclusion or gone, and then by another record, or it is one  *)
(* the merge destroys.                                                     *)
LEMMA MergeDeleteStep ==
    ASSUME AInv, NEW m \in Mergers, MergeDelete(m)
    PROVE  AInv'
<1> DEFINE s == mg[m].s
           l == Head(mg[m].losers)
           rest == Tail(mg[m].losers)
           x == IF rest = <<>> THEN NoMerge
                ELSE [mg[m] EXCEPT !.losers = rest, !.pc = "supersede"]
<1>1. /\ IsLog(rec) /\ IsMerges(rec, mg) /\ IsThread(rec, mt)
      /\ DOMAIN mg = Mergers /\ OfMerge(mg[m]) /\ mg[m].pc = "delete" /\ s \in DOMAIN rec
      /\ mg[m].losers \in Seq(DOMAIN rec) /\ mg[m].losers # <<>>
      /\ \A k \in ToSet(mg[m].losers) : k # s /\ Cl(rec, k) = Cl(rec, s)
  BY Zenon DEF AInv, IsMerges, IsMerge, MergeDelete
<1>2. /\ IF Live(l) THEN Tombstone(l) ELSE UNCHANGED <<db, queue>>
      /\ destroyed' = IF Live(l) /\ LastAssertion(l) /\ (Derived(s) \/ ~Visible(s))
                      THEN destroyed \cup {Claim(l)} ELSE destroyed
      /\ claims' = claims
      /\ mg' = [mg EXCEPT ![m] = x] /\ mt' = mt
  BY Zenon DEF MergeDelete
<1>3. /\ l \in DOMAIN rec /\ l \in ToSet(mg[m].losers)
      /\ rest \in Seq(DOMAIN rec) /\ ToSet(rest) \subseteq ToSet(mg[m].losers)
  BY Zenon, <1>1, HeadAndTail
<1> HIDE DEF l, rest
<1>4. /\ OfMerge(x)
      /\ x.pc # "idle" => x.pc = "supersede" /\ x.s = s /\ x.losers = rest /\ rest # <<>>
  BY Zenon, <1>1 DEF OfMerge, NoMerge
<1> HIDE DEF s, x
<1>5. /\ After(rec, rec') /\ IsLog(rec')
      /\ Dies(rec, rec', l) \/ rec' = rec
  <2>1. CASE Live(l)
    <3>1. Tombstone(l) /\ IsLog(rec)
      BY Zenon, <1>1, <1>2, <2>1
    <3>2. Dies(rec, rec', l)
      BY Zenon, <3>1, TombstoneDies
    <3> QED
      BY Zenon, <3>2 DEF Dies, After
  <2>2. CASE ~Live(l)
    <3>1. UNCHANGED db /\ IsLog(rec)
      BY Zenon, <1>1, <1>2, <2>2
    <3>2. rec' = rec
      BY <3>1 DEF db
    <3>3. Quiet(rec, rec)
      BY Zenon, <3>1, StaysQuiet
    <3> QED
      BY Zenon, <3>1, <3>2, <3>3 DEF Quiet
  <2> QED
    BY <2>1, <2>2
<1>6. IsMerges(rec', mg) /\ IsThread(rec', mt)
  BY ZenonT(30), <1>1, <1>5, MergesAfter, ThreadAfter
<1>7. IsMerge(rec, x)
  BY SMTT(30), <1>1, <1>3, <1>4 DEF IsMerge
<1>8. IsMerges(rec', mg')
  <2>1. IsMerges(rec, mg')
    BY Zenon, <1>1, <1>2, <1>7, MergesMove
  <2> QED
    BY ZenonT(30), <1>5, <2>1, MergesAfter
<1>9. ASSUME NEW c \in claims' \ destroyed' PROVE Backed(rec', c)
  <2>1. c \in claims /\ c \notin destroyed
    BY Zenon, <1>2, <1>9
  <2>2. PICK j \in DOMAIN rec : Backs(rec, c, j)
    BY Zenon, <2>1 DEF AInv, Backed
  <2>3. CASE rec' = rec
    BY Zenon, <2>2, <2>3 DEF Backed
  <2>4. CASE Dies(rec, rec', l) /\ j # l
    BY Zenon, <2>2, <2>4, BackedDies
  <2>5. CASE Dies(rec, rec', l) /\ j = l
    <3>1. /\ Claim(l) = c /\ Live(l) /\ Cl(rec, s) = c /\ s # l
      BY Zenon, <1>1, <1>3, <2>2, <2>5 DEF Backs, Claim, Cl, Live, Vis
    <3>2. CASE LastAssertion(l)
      <4>1. ~Derived(s) /\ Visible(s)
        BY Zenon, <1>2, <1>9, <3>1, <3>2
      <4>2. Backs(rec, c, s)
        BY Zenon, <3>1, <4>1 DEF Backs, Visible, Vis, Derived, Der
      <4> QED
        BY Zenon, <1>1, <2>5, <3>1, <4>2, BackedDies
    <3>3. CASE ~LastAssertion(l)
      <4>1. PICK k \in AssertsOf(c) : k # l
        BY Zenon, <3>1, <3>3 DEF LastAssertion
      <4>2. k \in DOMAIN rec /\ Backs(rec, c, k)
        BY Zenon, <4>1 DEF AssertsOf, Backs, Visible, Vis, Derived, Der, Claim, Cl, Ids
      <4> QED
        BY Zenon, <2>5, <4>1, <4>2, BackedDies
    <3> QED
      BY Zenon, <3>2, <3>3
  <2> QED
    BY Zenon, <1>5, <2>3, <2>4, <2>5
<1> QED
  BY Zenon, <1>2, <1>5, <1>6, <1>8, <1>9 DEF AInv

-----------------------------------------------------------------------------
(* The maintenance thread and faults.                                      *)

(* A record the thread deletes is a conclusion, or expired.                *)
LEMMA ReapStep ==
    ASSUME AInv, NEW i, Tombstone(i), ~Vis(rec, i) \/ Der(rec, i),
           UNCHANGED <<mg, claims, destroyed>>, IsThread(rec, mt')
    PROVE  AInv'
<1>1. IsLog(rec) /\ IsMerges(rec, mg)
  BY Zenon DEF AInv
<1>2. Dies(rec, rec', i)
  BY Zenon, <1>1, TombstoneDies
<1>3. After(rec, rec') /\ IsLog(rec')
  BY Zenon, <1>2 DEF Dies, After
<1>4. IsMerges(rec', mg') /\ IsThread(rec', mt')
  BY SMTT(30), <1>1, <1>3, MergesAfter, ThreadAfter
<1>5. ASSUME NEW c \in claims \ destroyed PROVE Backed(rec', c)
  <2>1. PICK j \in DOMAIN rec : Backs(rec, c, j)
    BY <1>5 DEF AInv, Backed
  <2>2. j # i
    BY Zenon, <2>1 DEF Backs
  <2> QED
    BY Zenon, <1>2, <2>1, <2>2, BackedDies
<1> QED
  BY SMTT(30), <1>3, <1>4, <1>5 DEF AInv

LEMMA PassStep ==
    ASSUME AInv, \/ BeginPass \/ NoteConflict \/ RunNamespace \/ WriteConclusion
                 \/ LinkPremise \/ LinkFails \/ PublishPass \/ PassNotDue \/ TakeBatch
    PROVE  AInv'
<1>1. IsLog(rec) /\ Locals(mt)
  BY Zenon DEF AInv, IsThread
<1>2. UNCHANGED <<mg, claims, destroyed>>
  BY Zenon DEF BeginPass, NoteConflict, RunNamespace, WriteConclusion,
     LinkPremise, LinkFails,
         PublishPass, PassNotDue, TakeBatch, ghost
<1>3. CASE BeginPass
  <2>1. rec' = rec
    BY ZenonT(30), <1>3 DEF BeginPass, db
  <2>2. Locals(mt') /\ Rests(mt')
    BY Zenon, <1>3 DEF BeginPass, Locals, Asleep, Rests, Judges
  <2> QED
    BY SMTT(30), <1>1, <1>2, <2>1, <2>2, StaysQuiet, AwakeStep
<1>4. CASE NoteConflict
  <2>1. Relate(mt.notes[1][1], mt.notes[1][2], "conflicts_with")
    BY Zenon, <1>4 DEF NoteConflict
  <2>2. Quiet(rec, rec')
    BY Zenon, <1>1, <2>1, RelateQuiet
  <2>3. Locals(mt') /\ Rests(mt')
    BY Zenon, <1>1, <1>4 DEF NoteConflict, Locals, Rests, Judges
  <2> QED
    BY Zenon, <1>2, <2>2, <2>3, AwakeStep
<1>5. CASE RunNamespace
  <2>1. rec' = rec
    BY SMTT(30), <1>5 DEF RunNamespace, db
  <2>2. Locals(mt') /\ Rests(mt')
    BY Zenon, <1>1, <1>5 DEF RunNamespace, Between, Locals, Rests, Judges
  <2> QED
    BY Zenon, <1>1, <1>2, <2>1, <2>2, StaysQuiet, AwakeStep
<1>6. CASE WriteConclusion
  <2>1. rec' = rec \/ InsertRecord(mt.ns, Head(mt.todo).triple, Head(mt.todo).routes)
    BY Zenon, <1>6 DEF WriteConclusion
  <2>2. Quiet(rec, rec')
    BY SMTT(30), <1>1, <2>1, StaysQuiet, InsertQuiet
  <2>3. Locals(mt') /\ Rests(mt')
    BY Zenon, <1>1, <1>6 DEF WriteConclusion, Locals, Rests, Judges
  <2> QED
    BY Zenon, <1>2, <2>2, <2>3, AwakeStep
<1>7. CASE LinkPremise
  <2>1. Relate(mt.cur, Head(mt.links), "derived_from")
    BY Zenon, <1>7 DEF LinkPremise
  <2>2. Quiet(rec, rec')
    BY ZenonT(30), <1>1, <2>1, RelateQuiet
  <2>3. Locals(mt') /\ Rests(mt')
    BY ZenonT(30), <1>1, <1>7 DEF LinkPremise, Locals, Rests, Judges
  <2> QED
    BY Zenon, <1>2, <2>2, <2>3, AwakeStep
<1>8. CASE LinkFails \/ PublishPass \/ PassNotDue \/ TakeBatch
  <2>1. rec' = rec
    BY SMTT(30), <1>8 DEF LinkFails, PublishPass, PassNotDue, TakeBatch, db
  <2>2. Locals(mt') /\ Rests(mt')
    BY Zenon, <1>1, <1>8
       DEF LinkFails, PublishPass, PassNotDue, TakeBatch, Locals, Asleep, Rests,
           Judges
  <2> QED
    BY Zenon, <1>1, <1>2, <2>1, <2>2, StaysQuiet, AwakeStep
<1> QED
  BY SMTT(30), <1>3, <1>4, <1>5, <1>6, <1>7, <1>8

(* A judgement goes on with the same conclusion, or is over.               *)
Resumes ==
    /\ Locals(mt') /\ mt'.pc # "sweep"
    /\ Judges(mt') => Judges(mt) /\ mt'.batch = mt.batch

LEMMA DecidedRests ==
    ASSUME Locals(mt), mt' = Decided
    PROVE  Locals(mt') /\ Rests(mt')
  BY Zenon DEF Decided, Locals, Rests, Judges

LEMMA PremiseResumes ==
    ASSUME Locals(mt), Judges(mt), mt' = PremiseHolds \/ mt' = PremiseLost
    PROVE  Resumes
<1>1. CASE mt' = Decided
  BY Zenon, <1>1, DecidedRests DEF Resumes, Rests
<1>2. CASE mt' = [mt EXCEPT !.pc = "premise", !.prem = @ + 1, !.heir = 0]
  BY Zenon, <1>2 DEF Resumes, Locals
<1>3. CASE mt' = [mt EXCEPT !.pc = "reap", !.heir = 0]
  BY Zenon, <1>3 DEF Resumes, Locals
<1>4. CASE mt' = [mt EXCEPT !.pc = "premise", !.route = @ + 1, !.prem = 1, !.heir = 0]
  BY Zenon, <1>4 DEF Resumes, Locals
<1> QED
  BY Zenon, <1>1, <1>2, <1>3, <1>4 DEF PremiseHolds, PremiseLost

LEMMA ResumeStep ==
    ASSUME AInv, Resumes, rec' = rec, UNCHANGED <<mg, claims, destroyed>>
    PROVE  AInv'
<1>1. IsLog(rec) /\ IsThread(rec, mt)
  BY Zenon DEF AInv
<1>2. IsThread(rec', mt')
  BY Zenon, <1>1 DEF Resumes, IsThread
<1>3. Quiet(rec, rec')
  BY Zenon, <1>1, StaysQuiet
<1> QED
  BY Zenon, <1>2, <1>3, ThreadStep

LEMMA JudgeStep ==
    ASSUME AInv, \/ ReadConclusion \/ LookAtPremise \/ ResolvePremise
                 \/ LookAtHeir \/ Reap \/ ReapFails
    PROVE  AInv'
<1>1. IsLog(rec) /\ Locals(mt) /\ IsThread(rec, mt)
  BY Zenon DEF AInv, IsThread
<1>2. UNCHANGED <<mg, claims, destroyed>>
  BY Zenon DEF ReadConclusion, LookAtPremise, ResolvePremise, LookAtHeir, Reap,
               ReapFails, ghost
<1>3. CASE ReadConclusion
  <2>1. rec' = rec
    BY Zenon, <1>3 DEF ReadConclusion, db
  <2>2. Quiet(rec, rec')
    BY Zenon, <1>1, <2>1, StaysQuiet
  <2>3. CASE mt' = Decided
    BY Zenon, <1>1, <1>2, <2>2, <2>3, DecidedRests, AwakeStep
  <2>4. CASE /\ Head(mt.batch) \in Ids /\ Derived(Head(mt.batch))
             /\ mt' = [mt EXCEPT !.pc = "premise", !.route = 1, !.prem = 1]
    <3>1. Locals(mt') /\ mt'.pc # "sweep" /\ mt'.batch = mt.batch
      BY Zenon, <1>1, <2>4 DEF Locals
    <3>2. IsThread(rec', mt')
      BY Zenon, <2>1, <2>4, <3>1 DEF IsThread, Derived, Der, Ids
    <3> QED
      BY Zenon, <1>2, <2>2, <3>2, ThreadStep
  <2> QED
    BY Zenon, <1>3, <2>3, <2>4 DEF ReadConclusion
<1>4. CASE LookAtPremise \/ ResolvePremise \/ LookAtHeir
  <2>1. rec' = rec /\ Judges(mt)
    BY Zenon, <1>4 DEF LookAtPremise, ResolvePremise, LookAtHeir, db, Judges
  <2>2. CASE mt' = PremiseHolds \/ mt' = PremiseLost
    BY Zenon, <1>1, <1>2, <2>1, <2>2, PremiseResumes, ResumeStep
  <2>3. CASE mt' = [mt EXCEPT !.pc = "resolve"]
    <3>1. Resumes
      BY Zenon, <1>1, <2>1, <2>3 DEF Resumes, Locals
    <3> QED
      BY Zenon, <1>2, <2>1, <3>1, ResumeStep
  <2>4. CASE \E h : mt' = [mt EXCEPT !.pc = "heir", !.heir = h]
    <3>1. Resumes
      BY Zenon, <1>1, <2>1, <2>4 DEF Resumes, Locals
    <3> QED
      BY Zenon, <1>2, <2>1, <3>1, ResumeStep
  <2> QED
    BY Zenon, <1>4, <2>2, <2>3, <2>4 DEF LookAtPremise, ResolvePremise, LookAtHeir
<1>5. CASE Reap \/ ReapFails
  <2>1. mt' = Decided /\ Der(rec, Head(mt.batch))
    BY Zenon, <1>1, <1>5 DEF Reap, ReapFails, IsThread, Judges
  <2>2. Locals(mt') /\ Rests(mt')
    BY Zenon, <1>1, <2>1, DecidedRests
  <2>3. CASE rec' = rec
    BY Zenon, <1>1, <1>2, <2>2, <2>3, StaysQuiet, AwakeStep
  <2>4. CASE Tombstone(Head(mt.batch))
    <3>1. IsThread(rec, mt')
      BY Zenon, <2>2 DEF IsThread, Rests
    <3> QED
      BY Zenon, <1>2, <2>1, <2>4, <3>1, ReapStep
  <2> QED
    BY Zenon, <1>5, <2>3, <2>4 DEF Reap, ReapFails, TombstoneFails, db
<1> QED
  BY Zenon, <1>3, <1>4, <1>5

LEMMA SweepStep ==
    ASSUME AInv, BeginSweep \/ SweepOne
    PROVE  AInv'
<1>1. IsLog(rec) /\ IsThread(rec, mt) /\ Locals(mt) /\ UNCHANGED <<mg, claims, destroyed>>
  BY Zenon DEF AInv, IsThread, BeginSweep, SweepOne, ghost
<1>2. CASE BeginSweep
  <2>1. /\ Locals(mt') /\ mt'.batch = Ascending(ExpiredIds)
        /\ mt'.pc = "sweep" => ExpiredIds # {}
        /\ ~Judges(mt')
    BY Zenon, <1>1, <1>2 DEF BeginSweep, Locals, Judges
  <2>2. Lists(Ascending(ExpiredIds), ExpiredIds)
    <3>1. DOMAIN rec = 1..Len(rec) /\ Len(rec) \in Nat
      BY SMTT(30), <1>1 DEF IsLog
    <3>2. ExpiredIds \in SUBSET (1..Len(rec)) /\ ExpiredIds \in SUBSET Nat
      BY SMTT(30), <3>1 DEF ExpiredIds, Ids
    <3>3. IsFiniteSet(1..Len(rec))
      BY SMTT(30), <3>1, FS_Interval
    <3>4. IsFiniteSet(ExpiredIds)
      BY Zenon, <3>2, <3>3, FS_Subset
    <3> QED
      BY Zenon, <3>2, <3>4, AscendingLists
  <2>3. ExpiredIds \subseteq DOMAIN rec /\ \A i \in ExpiredIds : rec[i].expired
    BY Zenon DEF ExpiredIds, Ids
  <2>4. rec' = rec
    BY Zenon, <1>2 DEF BeginSweep, db
  <2>5. IsThread(rec, mt')
    BY SMTT(30), <2>1, <2>2, <2>3 DEF IsThread, Lists
  <2> QED
    BY SMTT(30), <1>1, <2>4, <2>5, StaysQuiet, ThreadStep
<1>3. CASE SweepOne
  <2>1. /\ mt.pc = "sweep" /\ mt.batch \in Seq(DOMAIN rec) /\ mt.batch # <<>>
        /\ \A i \in ToSet(mt.batch) : rec[i].expired
    BY SMTT(30), <1>1, <1>3 DEF SweepOne, IsThread
  <2>2. /\ Head(mt.batch) \in ToSet(mt.batch) /\ Tail(mt.batch) \in Seq(DOMAIN rec)
        /\ ToSet(Tail(mt.batch)) \subseteq ToSet(mt.batch)
    BY Zenon, <2>1, HeadAndTail
  <2>3. /\ Locals(mt') /\ mt'.batch = Tail(mt.batch)
        /\ mt'.pc = "sweep" => Len(mt.batch) # 1
        /\ ~Judges(mt')
    BY Zenon, <1>1, <1>3 DEF SweepOne, Locals, Judges
  <2>4. Len(mt.batch) # 1 => Tail(mt.batch) # <<>>
    BY <2>1, HeadAndTail
  <2>5. IsThread(rec, mt')
    BY SMTT(30), <2>1, <2>2, <2>3, <2>4 DEF IsThread
  <2>6. CASE rec' = rec
    BY SMTT(30), <1>1, <2>5, <2>6, StaysQuiet, ThreadStep
  <2>7. CASE Tombstone(Head(mt.batch))
    <3>1. ~Vis(rec, Head(mt.batch))
      BY <2>1, <2>2 DEF Vis
    <3> QED
      BY ZenonT(30), <1>1, <2>5, <2>7, <3>1, ReapStep
  <2> QED
    BY SMTT(30), <1>3, <2>6, <2>7 DEF SweepOne, db
<1> QED
  BY SMTT(30), <1>2, <1>3

LEMMA CrashStep ==
    ASSUME AInv, Crash
    PROVE  AInv'
<1>1. IsLog(rec) /\ rec' = rec /\ UNCHANGED <<claims, destroyed>>
  BY Zenon DEF AInv, Crash
<1>2. IsThread(rec', mt')
  BY Zenon DEF Crash, IsThread, Judges, Locals, Asleep
<1>3. IsMerges(rec', mg')
  BY Zenon DEF Crash, IsMerges, IsMerge, OfMerge, NoMerge
<1> QED
  BY SMTT(30), <1>1, <1>2, <1>3, StaysQuiet, QuietStep

LEMMA DeleteFailsStep ==
    ASSUME AInv, NEW i \in Ids, DeleteFails(i)
    PROVE  AInv'
<1>1. IsLog(rec) /\ IsThread(rec, mt) /\ rec' = rec /\ mt' = mt /\ UNCHANGED <<mg, claims, destroyed>>
  BY Zenon DEF AInv, DeleteFails, TombstoneFails
<1> QED
  BY SMTT(30), <1>1, StaysQuiet, ThreadStep

LEMMA ANext == AInv /\ [Next]_vars => AInv'
<1> SUFFICES ASSUME AInv, [Next]_vars PROVE AInv'
  BY Zenon
<1>1. CASE UNCHANGED vars
  <2>1. rec' = rec /\ mg' = mg /\ mt' = mt /\ claims' = claims /\ destroyed' = destroyed
    BY <1>1 DEF vars, db, ghost
  <2> QED
    BY <2>1 DEF AInv
<1>2. CASE Client
  BY SMTT(30), <1>2, AssertFactStep, DeleteStep, MergeBeginStep DEF Client
<1>3. CASE Fault
  BY SMTT(30), <1>3, PassStep, JudgeStep, DeleteFailsStep, CrashStep DEF Fault
<1>4. CASE MaintStep
  BY SMTT(30), <1>4, PassStep, JudgeStep, SweepStep DEF MaintStep
<1>5. CASE \E m \in Mergers : MergeStep(m)
  BY SMTT(30), <1>5, MergeMoveStep, MergeDeleteStep DEF MergeStep
<1> QED
  BY SMTT(30), <1>1, <1>2, <1>3, <1>4, <1>5 DEF Next, Step

(* What a client asserted and did not take back is still asserted by a     *)
(* visible record, whatever merge_cluster, retraction, the sweep, failed   *)
(* writes and kills do meanwhile, and however many consolidates run at     *)
(* once; the only assertions lost are those `destroyed` names, whose last  *)
(* record merge_cluster folded into a conclusion or into a survivor that   *)
(* was no longer visible.  For any registry, rules, namespaces and number  *)
(* of records.                                                             *)
THEOREM AssertionsSurvive == Spec => []AssertionSurvives
<1>1. AInv => AssertionSurvives
  BY Zenon
     DEF AInv, AssertionSurvives, AssertsOf, Backed, Backs, Vis, Visible, Der,
     Derived, Cl, Claim, Ids
<1>2. AInv /\ [Next]_vars => AInv'
  BY ANext
<1>3. Init => AInv
  BY AInit
<1> QED
  BY <1>1, <1>2, <1>3, PTL DEF Spec
=============================================================================
