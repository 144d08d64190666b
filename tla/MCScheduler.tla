---------------------------- MODULE MCScheduler ----------------------------
(***************************************************************************)
(* Small instances of Scheduler for TLC.                                   *)
(***************************************************************************)
EXTENDS Scheduler, TLC

\* Processes, producers and consumers are interchangeable.
Interchange ==
  Permutations(Processes) \cup Permutations(Producers) \cup Permutations(Consumers)

=============================================================================
