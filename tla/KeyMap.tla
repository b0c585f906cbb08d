------------------------------- MODULE KeyMap -------------------------------
(***************************************************************************)
(* What every hash table of the server promises: a map from keys to values *)
(* that changes at the key of the last call only.                          *)
(***************************************************************************)
EXTENDS Integers

CONSTANTS Keys, Vals

VARIABLES
    m,      \* the map: a function on the keys present
    call    \* the last call

Put(k, v) ==
    /\ call' = <<"put", k, v>>
    /\ m' = [j \in DOMAIN m \cup {k} |-> IF j = k THEN v ELSE m[j]]

(* A put that keeps the value of a key that is present.                    *)
Track(k, v) ==
    /\ call' = <<"track", k, v>>
    /\ m' = IF k \in DOMAIN m THEN m
            ELSE [j \in DOMAIN m \cup {k} |-> IF j = k THEN v ELSE m[j]]

Delete(k) ==
    /\ call' = <<"delete", k, 0>>
    /\ m' = [j \in DOMAIN m \ {k} |-> m[j]]

Init == m = <<>> /\ call = <<"none", 0, 0>>

Next == \E k \in Keys : Delete(k) \/ \E v \in Vals : Put(k, v) \/ Track(k, v)

Spec == Init /\ [][Next]_<<m, call>>
=============================================================================
