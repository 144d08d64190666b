---------------------------- MODULE MCComponents ----------------------------
(* A small instance of Components for TLC.                                  *)
EXTENDS Components, TLC

\* What requests write: a whole row, a token, nothing, a title, a revocation, a
\* use.
KeyUpdates ==
  {<<"Upsert", [token |-> "t1", title |-> 1, used |-> 0, revoked |-> 0]>>,
   <<"Upsert", [token |-> "t2"]>>,
   <<"Update", [f \in {} |-> 0]>>,
   <<"Update", [title |-> 1]>>,
   <<"Revoke", [revoked |-> 1]>>,
   <<"LastUsedUpdate", [used |-> 1]>>}

\* Lists of equal and of different lengths, with zeros, with counts that
\* overflow five bits once or twice, and with negative ones.
RetryMappings ==
  [start_after : {1}, frequency : {<<>>, <<2>>, <<2, 3>>, <<2, 3, 2, -4>>},
   count : UNION {[1..n -> {-9, 0, 3, 14, 15}] : n \in 0..4}]

MoneyAmounts == {-37, -1, 0, 1, 5, 29, 37, 100, 1001, 4095, 4096, 8191, 8192}

FloatScales == {2^i : i \in 0..28}

UtcOffsets == {-8, 0, 4}

Symmetry == Permutations(Requests) \cup Permutations(Ids)

=============================================================================
