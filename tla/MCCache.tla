------------------------------ MODULE MCCache ------------------------------
(***************************************************************************)
(* Small instances of Cache for TLC.                                       *)
(***************************************************************************)
EXTENDS Cache, TLC

CONSTANTS i1, i2, r1, r2, w1

\* A reader in each process, the writer in the first one.
Spread == (r1 :> i1) @@ (r2 :> i2) @@ (w1 :> i1)

=============================================================================
