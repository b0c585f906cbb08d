----------------------------- MODULE Admission -----------------------------
(***************************************************************************)
(* What stands between a request line and its handler: the operation       *)
(* table, the caller's identity, the read-only replica, the tenant's rate  *)
(* limit (src/src/query/qe_dispatch.c, src/src/util/tenant.c), and the     *)
(* token list that token_add and token_revoke change at run time and keep  *)
(* in the token file (src/src/util/config.c).                              *)
(***************************************************************************)
EXTENDS Integers, Sequences

CONSTANTS
    Names,        \* namespace names; one may be called "admin"
    Secrets,      \* token digests
    Files,        \* the token files the server may be started with
    Rates,        \* tenant_rate_qps, in parts of a request per tick
    Unit,         \* the parts of one request
    Delay,        \* the most a thread waits between reading the time and the lock
    MaxClock,     \* bound: ticks
    Asked,        \* bound: the operations requests ask for
    MaxChanges    \* bound: changes of the token list

VARIABLES
    tokens,     \* auth_tokens
    file,       \* the lines of the token file
    unsaved,    \* history: the last write of the file failed
    qps,        \* tenant_rate_qps
    readOnly,   \* read_only: a replica
    clock,
    bucket,     \* namespace |-> its Tenant entry
    served,     \* history: namespace |-> requests let through in a window
    first,      \* history: namespace |-> when the window was opened
    changes

avars == <<tokens, file, unsaved, qps, readOnly, clock, bucket, served, first, changes>>

NoNs == ""
Unseen == [level |-> 0, last |-> 0, since |-> 0]   \* since: history, the last admission

-----------------------------------------------------------------------------
(* The token file: a digest alone, or with a namespace and a scope.        *)
Render(t) == IF t.ns = NoNs THEN <<t.digest>> ELSE <<t.digest, t.ns, t.scope>>

Global(d) == [digest |-> d, ns |-> NoNs, scope |-> "admin"]

ParseAdminNs(line) ==
    IF Len(line) = 1 \/ line[2] = "admin" THEN Global(line[1])
    ELSE IF Len(line) = 2 THEN [digest |-> line[1], ns |-> line[2], scope |-> "rw"]
    ELSE IF line[3] = "admin" THEN Global(line[1])
    ELSE [digest |-> line[1], ns |-> line[2], scope |-> line[3]]

Parse(line) ==
    IF Len(line) = 1 \/ (Len(line) = 2 /\ line[2] = "admin") THEN Global(line[1])
    ELSE IF Len(line) = 2 THEN [digest |-> line[1], ns |-> line[2], scope |-> "rw"]
    ELSE IF line[3] = "admin" THEN Global(line[1])
    ELSE [digest |-> line[1], ns |-> line[2], scope |-> line[3]]

Load(f) == [i \in DOMAIN f |-> Parse(f[i])]
Rendered(ts) == [i \in DOMAIN ts |-> Render(ts[i])]

-----------------------------------------------------------------------------
(* The operation table, by flag.                                           *)
Plain == {"get", "history", "export", "search", "count", "traverse", "conflicts", "predicates"}
Writes == {"insert", "update", "delete", "purge", "consolidate", "forget", "promote", "relate"}
Globals == {"stats", "token_list", "token_add", "token_revoke", "snapshot"}
WriteTok == {"snapshot"}
NoAuth == {"ping"}

ASSUME AdmissionAssumption ==
    /\ Asked \subseteq Plain \cup Writes \cup Globals \cup NoAuth
    /\ Rates \subseteq Nat \ {0} /\ Unit \in Nat \ {0}
    /\ Delay \in Nat /\ MaxClock \in Nat /\ MaxChanges \in Nat

(* resolve_identity: no tokens, no authentication; of several matches the  *)
(* last.                                                                   *)
Matches(d) == {i \in DOMAIN tokens : tokens[i].digest = d}
Last(S) == CHOOSE i \in S : \A j \in S : j <= i
Anyone == [ns |-> NoNs, write |-> TRUE]
Identified(d) == tokens = <<>> \/ Matches(d) # {}
Identity(d) ==
    IF tokens = <<>> THEN Anyone
    ELSE LET t == tokens[Last(Matches(d))] IN [ns |-> t.ns, write |-> t.scope # "ro"]

(* dispatch_inner, the checks before the rate limit and those after it.    *)
PassesFirst(op, d) ==
    Identified(d) /\ (op \in Writes => Identity(d).write /\ ~readOnly)
PassesLast(op, who) ==
    (op \in Globals => who.ns = NoNs) /\ (op \in WriteTok => who.write)

(* tenant_rate_allow.                                                      *)
BurstOfRate == qps
Burst == IF qps < Unit THEN Unit ELSE qps

RefilledUncapped(b, now) ==
    IF b.last = 0 THEN [b EXCEPT !.level = Burst, !.last = now, !.since = now]
    ELSE IF now > b.last
    THEN LET full == b.level + (now - b.last) * qps
         IN  [b EXCEPT !.level = full, !.last = now]
    ELSE b

Refilled(b, now) ==
    IF b.last = 0 THEN [b EXCEPT !.level = Burst, !.last = now, !.since = now]
    ELSE IF now > b.last
    THEN LET full == b.level + (now - b.last) * qps
         IN  [b EXCEPT !.level = IF full > Burst THEN Burst ELSE full, !.last = now]
    ELSE b

Spends(b) == b.level >= Unit
Spent(b) == [level |-> b.level - Unit, last |-> b.last, since |-> b.last]

-----------------------------------------------------------------------------
Started(f) ==
    /\ file = f /\ tokens = Load(f) /\ unsaved = FALSE
    /\ bucket = [n \in Names |-> Unseen]
    /\ served = [n \in Names |-> 0] /\ first = [n \in Names |-> 1]

AdmissionInit ==
    /\ \E f \in Files : Started(f)
    /\ qps \in Rates /\ readOnly \in BOOLEAN
    /\ clock = 1 /\ changes = 0

(* Time passes; the history may start counting afresh.                     *)
Tick ==
    /\ clock < MaxClock
    /\ clock' = clock + 1
    /\ \E w \in SUBSET Names :
          /\ served' = [n \in Names |-> IF n \in w THEN 0 ELSE served[n]]
          /\ first' = [n \in Names |-> IF n \in w THEN clock + 1 ELSE first[n]]
    /\ UNCHANGED <<tokens, file, unsaved, qps, readOnly, bucket, changes>>

(* A request of a tenant that comes to the rate limit, with the time its   *)
(* thread read before it got the table's lock.  Callers without a          *)
(* namespace, and requests refused before, touch nothing.                  *)
Limited(op, d) == op \notin NoAuth /\ PassesFirst(op, d) /\ Identity(d).ns # NoNs

Request(op, d, now) ==
    LET n == Identity(d).ns
        b == Refilled(bucket[n], now)
    IN  /\ Limited(op, d)
        /\ bucket' = [bucket EXCEPT ![n] = IF Spends(b) THEN Spent(b) ELSE b]
        /\ served' = [served EXCEPT ![n] = IF Spends(b) THEN @ + 1 ELSE @]
        /\ UNCHANGED <<tokens, file, unsaved, qps, readOnly, clock, first, changes>>

(* token_add and token_revoke, under auth_lock: the list first, then the   *)
(* file, which is replaced whole or, when the write fails, not at all.     *)
Persisted(ts) ==
    \/ file' = Rendered(ts) /\ unsaved' = FALSE
    \/ unsaved' = TRUE /\ UNCHANGED file

MayRun(op, d) == PassesFirst(op, d) /\ PassesLast(op, Identity(d))

TokenAdd(caller, d, ns, scope) ==
    /\ MayRun("token_add", caller) /\ changes < MaxChanges
    /\ scope = "admin" \/ ns # NoNs
    /\ LET t == IF scope = "admin" THEN Global(d) ELSE [digest |-> d, ns |-> ns, scope |-> scope]
       IN  tokens' = Append(tokens, t)
    /\ Persisted(tokens') /\ changes' = changes + 1
    /\ UNCHANGED <<qps, readOnly, clock, bucket, served, first>>

Without(s, i) == SubSeq(s, 1, i - 1) \o SubSeq(s, i + 1, Len(s))

TokenRevoke(caller, d) ==
    /\ MayRun("token_revoke", caller) /\ changes < MaxChanges /\ Matches(d) # {}
    /\ tokens' = Without(tokens, CHOOSE i \in Matches(d) : \A j \in Matches(d) : i <= j)
    /\ Persisted(tokens') /\ changes' = changes + 1
    /\ UNCHANGED <<qps, readOnly, clock, bucket, served, first>>

(* The server is stopped or killed, and started again with the file.       *)
Restart ==
    /\ tokens' = Load(file) /\ unsaved' = FALSE
    /\ bucket' = [n \in Names |-> Unseen]
    /\ served' = [n \in Names |-> 0] /\ first' = [n \in Names |-> clock]
    /\ UNCHANGED <<file, qps, readOnly, clock, changes>>

AdmissionNext ==
    \/ Tick \/ Restart
    \/ \E op \in Asked, d \in Secrets, now \in 1 .. clock :
          now >= clock - Delay /\ Request(op, d, now)
    \/ \E c, d \in Secrets : TokenRevoke(c, d)
    \/ \E c, d \in Secrets, ns \in Names \cup {NoNs}, scope \in {"ro", "rw", "admin"} :
          TokenAdd(c, d, ns, scope)

AdmissionSpec == AdmissionInit /\ [][AdmissionNext]_avars

-----------------------------------------------------------------------------
(* The token file is the token list: a server started again knows every    *)
(* caller by the namespace and scope it had, unless the last change could  *)
(* not be saved, whichever names the tenants have and whatever form the    *)
(* file had before the server rewrote it.                                  *)
FileIsTokens == ~unsaved => Load(file) = tokens

(* In every window of time, however a tenant's requests are spread before  *)
(* and in it, and whichever order their threads get the lock in, no more   *)
(* are let through than a burst and what the rate gives in the window and  *)
(* in the time a thread may have been delayed.                             *)
RateBound == \A n \in Names : served[n] * Unit <= Burst + (clock - first[n] + Delay) * qps

(* A tenant that waits as long as the rate asks for is served: at no limit, *)
(* however low, can a namespace be locked out for good.                    *)
NeverLockedOut ==
    \A n \in Names : bucket[n].last # 0 =>
        \A w \in 1 .. Unit : w * qps >= Unit => Spends(Refilled(bucket[n], bucket[n].since + w))
=============================================================================
