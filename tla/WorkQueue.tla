----------------------------- MODULE WorkQueue -----------------------------
(***************************************************************************)
(* What the drainer promises the application that fills its streams: a     *)
(* queue for each partition.  An entry waits from its XADD until it is     *)
(* executed, entries of a partition are executed in their order, none is   *)
(* dropped and none comes back.  Processes, flags, batches, repeated       *)
(* executions, trims and faults are not to be seen.                        *)
(***************************************************************************)
EXTENDS Naturals, Sequences

CONSTANTS
  Keys,      \* database rows
  Kinds,     \* what an entry carries
  Shard      \* the partition of a key

VARIABLES
  log,       \* every entry pushed so far, in order
  pending,   \* the entries that wait, by position in log
  done       \* the entries that were executed

vars == <<log, pending, done>>

Init == log = <<>> /\ pending = {} /\ done = {}

Enqueue(k, kind) ==
  /\ log' = Append(log, [key |-> k, kind |-> kind])
  /\ pending' = pending \cup {Len(log) + 1}
  /\ UNCHANGED done

SamePartition(i, j) == Shard[log[i].key] = Shard[log[j].key]

Execute(i) ==
  /\ i \in pending
  /\ \A j \in pending : SamePartition(i, j) => i <= j
  /\ pending' = pending \ {i}
  /\ done' = done \cup {i}
  /\ UNCHANGED log

Next ==
  \/ \E k \in Keys, kind \in Kinds : Enqueue(k, kind)
  \/ \E i \in pending : Execute(i)

Spec == Init /\ [][Next]_vars

=============================================================================
