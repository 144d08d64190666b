----------------------------- MODULE MCKvStore -----------------------------
(* KvStore with records of which two share a unique constraint. *)
EXTENDS KvStore, TLC

CONSTANTS c1, c2, h1, p1

Shared == [k \in Keys |-> IF k = p1 THEN h1 ELSE k]

Interchange == Permutations(Clients)

=============================================================================
