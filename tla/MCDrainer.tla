----------------------------- MODULE MCDrainer -----------------------------
(* Small instances of Drainer for TLC.                                      *)
EXTENDS Drainer, TLC

CONSTANTS i1, i2, t1, t2, k1, k2

\* One key, or two keys, on one partition; two keys on two partitions.
OneShard == [k \in Keys |-> 0]
TwoShards == [k \in Keys |-> IF k = k1 THEN 0 ELSE 1]

\* Each process has one slot, or one process has two.
OneSlotEach == [t \in Tasks |-> IF t = t1 THEN i1 ELSE i2]
TwoSlots == [t \in Tasks |-> i1]

\* Exchanging the two processes with their slots changes nothing.
Swap == {[x \in {i1, i2, t1, t2} |-> x],
         (i1 :> i2) @@ (i2 :> i1) @@ (t1 :> t2) @@ (t2 :> t1)}
=============================================================================
