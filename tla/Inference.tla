----------------------------- MODULE Inference -----------------------------
(***************************************************************************)
(* The pure part of inference (src/src/query/inference.c, the predicate    *)
(* registry and the contradiction scan of src/src/query/qe_infer.c): what  *)
(* one pass concludes from a list of facts, which routes it keeps, where   *)
(* its budgets stop it, and which pairs of facts contradict each other.    *)
(*                                                                         *)
(* A fact is [id, s, p, o, depth].  An object in Entities is an id object, *)
(* any other object is a literal.  Confidence is left out: nothing below   *)
(* branches on it.                                                         *)
(***************************************************************************)
EXTENDS Integers, Sequences, SequencesExt, FiniteSets, FiniteSetsExt

CONSTANTS
    Entities,    \* record ids that facts speak about (positive integers)
    Literals,    \* string objects
    Registry,    \* predicate |-> its declaration
    MaxRoutes,   \* DERIV_MAX_ROUTES
    ConflictCap,    \* CONFLICT_SET_MAX
    MaxPerSubject,  \* CONFLICT_MAX_PER_SUBJECT
    PredicateRank   \* the order of predicate names

NoPredicate == "-"

(* The checks of the registry file: a declaration on its own, then across  *)
(* declarations.  An inverse must be mutual; a mutex need not be.          *)
SpecOK(p, e) ==
    /\ e.object \in {"id", "string"}
    /\ (e.symmetric \/ e.transitive) => e.object = "id"
    /\ e.inverse_of # p

RefsOK(reg) ==
    \A p \in DOMAIN reg :
        /\ reg[p].inverse_of # NoPredicate =>
              /\ reg[p].inverse_of \in DOMAIN reg
              /\ reg[reg[p].inverse_of].inverse_of = p
              /\ reg[p].object = "id" /\ reg[reg[p].inverse_of].object = "id"
        /\ reg[p].mutex_with \subseteq DOMAIN reg

RegistryLoads(reg) ==
    /\ DOMAIN reg # {}
    /\ \A p \in DOMAIN reg : SpecOK(p, reg[p])
    /\ RefsOK(reg)

ASSUME RegistryAssumption == RegistryLoads(Registry)
ASSUME RoutesAssumption == MaxRoutes \in Nat \ {0} /\ ConflictCap \in Nat

(* predicate_registry_check: may this predicate take this object?          *)
PredicateAccepts(p, o) ==
    p \in DOMAIN Registry /\ (Registry[p].object = "id") = (o \in Entities)

Triple(f) == <<f.s, f.p, f.o>>

(* A finite set of integers as an increasing sequence.                     *)
Ascending(S) ==
    [i \in 1..Cardinality(S) |->
        CHOOSE x \in S : Cardinality({y \in S : y < x}) = i - 1]

-----------------------------------------------------------------------------
(* Routes: one justification of a conclusion, [rule, prem, depth].         *)

Rank == [transitive |-> 1, symmetric |-> 2, inverse |-> 3]

(* route_cmp: premises first, then their number, then the rule.            *)
RouteLess(a, b) ==
    LET n == Min({Len(a.prem), Len(b.prem)})
        same == \A i \in 1..n : a.prem[i] = b.prem[i]
    IN \/ \E i \in 1..n : /\ a.prem[i] < b.prem[i]
                          /\ \A j \in 1..(i - 1) : a.prem[j] = b.prem[j]
       \/ same /\ Len(a.prem) < Len(b.prem)
       \/ same /\ Len(a.prem) = Len(b.prem) /\ Rank[a.rule] < Rank[b.rule]

SameRoute(a, b) == a.prem = b.prem /\ a.rule = b.rule

(* routes_insert: sorted, without repeats, the lowest MaxRoutes kept.      *)
RoutesInsert(rs, rt) ==
    IF \E i \in DOMAIN rs : SameRoute(rs[i], rt) THEN rs
    ELSE LET at == Cardinality({i \in DOMAIN rs : RouteLess(rs[i], rt)}) + 1
             all == InsertAt(rs, at, rt)
         IN SubSeq(all, 1, Min({Len(all), MaxRoutes}))

(* A derived record is as deep as its shallowest route; an asserted one is *)
(* at depth 0.                                                             *)
DerivationDepth(routes) ==
    IF routes = <<>> THEN 0 ELSE Min({routes[i].depth : i \in DOMAIN routes})

-----------------------------------------------------------------------------
(* The pass.                                                               *)

Candidate(rule, s, p, o, prem, deepest) ==
    [triple |-> <<s, p, o>>, deepest |-> deepest,
     route |-> [rule |-> rule, prem |-> prem, depth |-> deepest + 1]]

(* adj_get: the facts that begin where f ends, in input order.             *)
Joins(facts, f) ==
    SelectSeq(facts, LAMBDA g : g.s = f.o /\ g.p = f.p /\ g.o \in Entities)

(* What one fact offers: its mirror image, its inverse, and one candidate  *)
(* per join partner, in this order.                                        *)
CandidatesOf(facts, f) ==
    IF f.o \notin Entities \/ f.p \notin DOMAIN Registry THEN <<>>
    ELSE LET spec == Registry[f.p]
             next == Joins(facts, f)
         IN  (IF spec.symmetric
              THEN <<Candidate("symmetric", f.o, f.p, f.s, <<f.id>>, f.depth)>>
              ELSE <<>>)
          \o (IF spec.inverse_of # NoPredicate
              THEN <<Candidate("inverse", f.o, spec.inverse_of, f.s, <<f.id>>,
                               f.depth)>>
              ELSE <<>>)
          \o (IF spec.transitive
              THEN [j \in 1..Len(next) |->
                      Candidate("transitive", f.s, f.p, next[j].o,
                                <<f.id, next[j].id>>,
                                Max({f.depth, next[j].depth}))]
              ELSE <<>>)

(* offer: too deep, already a fact, already concluded (the route joins     *)
(* it), over the output cap, or a new conclusion.                          *)
Offer(st, c, known, maxDepth, maxConc) ==
    LET at == {i \in DOMAIN st.out : st.out[i].triple = c.triple}
    IN IF c.deepest >= maxDepth \/ c.triple \in known THEN st
       ELSE IF at # {}
            THEN [st EXCEPT !.out[CHOOSE i \in at : TRUE].routes =
                               RoutesInsert(@, c.route)]
       ELSE IF maxConc > 0 /\ Len(st.out) >= maxConc
            THEN [st EXCEPT !.truncated = TRUE, !.stop = TRUE]
            ELSE [st EXCEPT !.out = Append(@, [triple |-> c.triple,
                                               routes |-> <<c.route>>])]

(* Only the conclusions of earlier passes.                                 *)
KnownDerived(facts) ==
    {Triple(facts[i]) : i \in {j \in DOMAIN facts : facts[j].depth > 0}}

(* Only what clients asserted.                                             *)
KnownAsserted(facts) ==
    {Triple(facts[i]) : i \in {j \in DOMAIN facts : facts[j].depth = 0}}

(* Phase 1 of infer_run: every fact given is known, asserted or derived.   *)
Known(facts) == {Triple(facts[i]) : i \in DOMAIN facts}

(* infer_run: phase 1 indexes every fact, phase 2 scans them from a        *)
(* rotating start and stops at a budget.  facts_scanned counts the fact    *)
(* whose candidate met the budget.                                         *)
InferRun(facts, startIndex, maxDepth, maxConc, maxCand) ==
    LET n == Len(facts)
        known == Known(facts)
        start == startIndex % n
        at(k) == facts[((start + k - 1) % n) + 1]
        TryCandidate(st, c) ==
            IF st.stop THEN st
            ELSE IF st.cands + 1 > maxCand
                 THEN [st EXCEPT !.cands = @ + 1, !.truncated = TRUE,
                                 !.stop = TRUE]
                 ELSE Offer([st EXCEPT !.cands = @ + 1], c, known, maxDepth,
                            maxConc)
        ScanFact(st, k) ==
            IF st.stop THEN st
            ELSE FoldLeft(TryCandidate, [st EXCEPT !.scanned = k],
                          CandidatesOf(facts, at(k)))
        nothing == [out |-> <<>>, cands |-> 0, scanned |-> 0,
                    truncated |-> FALSE, stop |-> FALSE]
    IN IF n = 0 THEN nothing
       ELSE FoldLeft(ScanFact, nothing, [k \in 1..n |-> k])

-----------------------------------------------------------------------------
(* Contradictions.                                                         *)

MutuallyExclusive(p, q) ==
    q \in Registry[p].mutex_with \/ p \in Registry[q].mutex_with

(* The order of cmp_subject_pred, predicates ranked by the order of names. *)
BySubjectPred(f, g) ==
    \/ f.s < g.s
    \/ f.s = g.s /\ PredicateRank[f.p] < PredicateRank[g.p]
    \/ f.s = g.s /\ f.p = g.p /\ f.id < g.id

(* The count taken before the pair is looked up in the list.               *)
ConflictAddUngated(cs, a, b) ==
    LET pair == <<Min({a, b}), Max({a, b})>>
    IN [cs EXCEPT !.noted = Append(@, pair),
                  !.list = IF pair \in ToSet(@) THEN @ ELSE Append(@, pair)]

(* conflict_set_add on [list, noted, truncated]: a known pair is neither   *)
(* listed nor counted again; past the cap it is counted only.              *)
ConflictAdd(cs, a, b) ==
    LET pair == <<Min({a, b}), Max({a, b})>>
    IN IF pair \in ToSet(cs.list) THEN cs
       ELSE IF Len(cs.list) >= ConflictCap
            THEN [cs EXCEPT !.truncated = TRUE, !.noted = Append(@, pair)]
            ELSE [cs EXCEPT !.list = Append(@, pair), !.noted = Append(@, pair)]

NoConflicts == [list |-> <<>>, noted |-> <<>>, truncated |-> FALSE]

(* find_conflicts over one namespace.  Each subject is scanned unless it   *)
(* has too many facts: first a star from the lowest record of each         *)
(* single-valued predicate, then every pair of mutually exclusive          *)
(* predicates.                                                             *)
StarPairs(facts) ==
    LET star(f, g) ==
            /\ f.p = g.p /\ f.id < g.id /\ f.o # g.o
            /\ f.p \in DOMAIN Registry /\ Registry[f.p].single_valued
            /\ \A h \in facts : h.p = f.p => f.id <= h.id
    IN {pr \in facts \X facts : star(pr[1], pr[2])}

MutexPairs(facts) ==
    {pr \in facts \X facts :
        /\ BySubjectPred(pr[1], pr[2])
        /\ {pr[1].p, pr[2].p} \subseteq DOMAIN Registry
        /\ MutuallyExclusive(pr[1].p, pr[2].p)}

FindConflicts(cs, facts) ==
    LET add(acc, pr) == ConflictAdd(acc, pr[1].id, pr[2].id)
        inOrder(S) == SetToSortSeq(S, LAMBDA x, y :
                        \/ BySubjectPred(x[1], y[1])
                        \/ x[1] = y[1] /\ BySubjectPred(x[2], y[2]))
        scanSubject(acc, s) ==
            LET mine == {f \in facts : f.s = s}
            IN IF Cardinality(mine) > MaxPerSubject THEN acc
               ELSE FoldLeft(add, acc, inOrder(StarPairs(mine))
                                         \o inOrder(MutexPairs(mine)))
    IN FoldLeft(scanSubject, cs, Ascending({f.s : f \in facts}))
=============================================================================
