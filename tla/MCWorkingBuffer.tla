-------------------------- MODULE MCWorkingBuffer --------------------------
(* WorkingBuffer with the bounds of the configurations. *)
EXTENDS WorkingBuffer

CONSTANTS w1, w2, s1, n1

MCWorkers2 == {w1, w2}
MCSessions1 == {s1}
MCNamespaces == {n1}
=============================================================================
