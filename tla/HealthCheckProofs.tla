-------------------------- MODULE HealthCheckProofs --------------------------
(***************************************************************************)
(* What holds of the deep health checks of module HealthCheck for any      *)
(* number of checks, entries and failures: they do not make each other     *)
(* fail, and what they leave in the test stream is bounded.                *)
(***************************************************************************)
EXTENDS HealthCheck, FiniteSetTheorems, TLAPS

-----------------------------------------------------------------------------
(* The inductive invariants *)

TypeOK ==
  /\ appended \in Nat /\ faults \in Nat
  /\ check \in [Checks -> [at : Steps, id : Nat]]
  /\ clean \in [Checks -> BOOLEAN]

\* The stream is what was appended from some entry on, and the last entry is
\* never trimmed: no check trims to an id that nobody appended.
StreamInv ==
  /\ \E f \in Nat \ {0} :
       /\ stream = f..appended
       /\ appended > 0 => f <= appended
  /\ \A c \in Checks :
       /\ check[c].at = "read" => appended > 0
       /\ check[c].at = "trim" => check[c].id \in 1..appended

CheckInv == TypeOK /\ StreamInv /\ HealthyIsReported

Trimming == {c \in Checks : check[c].at = "trim"}

Pending == {c \in Checks : check[c].at \in {"read", "trim"}}

\* Suppose the checks of T, and no other, trim, and m is then the oldest entry:
\* what is left is bounded by what failed and the checks that are not done.
TrimInv ==
  \A m \in stream, T \in SUBSET Trimming :
    (\A c \in T : check[c].id <= m) =>
      appended + Cardinality(T) <= m + faults + Cardinality(Pending)

-----------------------------------------------------------------------------
(* What steps do *)

\* Every check but c is where it was.
Others(c) == \A d \in Checks \ {c} : check'[d] = check[d] /\ clean'[d] = clean[d]

LEMMA GoesEffect ==
  ASSUME TypeOK, NEW c \in Checks, NEW to \in Steps, check' = [check EXCEPT ![c].at = to]
  PROVE  /\ check' \in [Checks -> [at : Steps, id : Nat]]
         /\ check'[c].at = to /\ check'[c].id = check[c].id
         /\ \A d \in Checks \ {c} : check'[d] = check[d]
BY DEF TypeOK

LEMMA PutEffect ==
  ASSUME TypeOK, NEW c \in Checks, NEW to \in Steps, NEW id \in Nat,
         check' = [check EXCEPT ![c] = [at |-> to, id |-> id]]
  PROVE  /\ check' \in [Checks -> [at : Steps, id : Nat]]
         /\ check'[c].at = to /\ check'[c].id = id
         /\ \A d \in Checks \ {c} : check'[d] = check[d]
BY DEF TypeOK

\* The steps before XADD, and the expiry of the key, concern neither the stream
\* nor the result.
LEMMA QuietEffect ==
  ASSUME TypeOK, NEW c \in Checks,
         \/ Begin(c) \/ CheckDb(c) \/ RedisConnection(c)
         \/ SetTestKey(c) \/ GetTestKey(c) \/ DeleteTestKey(c)
  PROVE  /\ check' \in [Checks -> [at : Steps, id : Nat]] /\ Others(c)
         /\ check[c].at \notin {"read", "trim"}
         /\ check'[c].at \notin {"read", "trim", "DbError", "RedisError"}
         /\ UNCHANGED <<stream, appended, clean, faults>>
<1>1. /\ check[c].at \notin {"read", "trim"} /\ UNCHANGED <<stream, appended, clean, faults>>
      /\ \E to \in Steps \ {"read", "trim", "DbError", "RedisError"} :
           check' = [check EXCEPT ![c].at = to]
  BY DEF Begin, CheckDb, RedisConnection, SetTestKey, GetTestKey, DeleteTestKey, Goes, Steps
<1>2. PICK to \in Steps \ {"read", "trim", "DbError", "RedisError"} :
        check' = [check EXCEPT ![c].at = to]
  BY <1>1
<1>3. /\ check' \in [Checks -> [at : Steps, id : Nat]] /\ check'[c].at = to
      /\ \A d \in Checks \ {c} : check'[d] = check[d]
  BY <1>2, GoesEffect
<1>. QED BY <1>1, <1>2, <1>3 DEF Others

LEMMA AnswerEffect ==
  ASSUME TypeOK, NEW c \in Checks, Answer(c)
  PROVE  /\ TypeOK' /\ Others(c)
         /\ check[c].at \notin {"read", "trim"} /\ check'[c].at = "idle"
         /\ UNCHANGED <<stream, appended, faults>>
<1>1. /\ check' \in [Checks -> [at : Steps, id : Nat]] /\ check'[c].at = "idle"
      /\ \A d \in Checks \ {c} : check'[d] = check[d]
  BY PutEffect DEF Answer, Steps
<1>2. clean' \in [Checks -> BOOLEAN] /\ \A d \in Checks \ {c} : clean'[d] = clean[d]
  BY DEF Answer, TypeOK
<1>3. check[c].at \notin {"read", "trim"} /\ UNCHANGED <<stream, appended, faults>>
  BY DEF Answer
<1>. QED BY <1>1, <1>2, <1>3 DEF Others, TypeOK

\* A failed call, a dropped check.
LEMMA FailEffect ==
  ASSUME TypeOK, NEW c \in Checks, Fails(c) \/ Abort(c)
  PROVE  /\ TypeOK' /\ Others(c)
         /\ check'[c].at \notin {"read", "trim"} /\ clean'[c] = FALSE
         /\ UNCHANGED <<stream, appended>> /\ faults' = faults + 1
<1>1. /\ UNCHANGED <<stream, appended>> /\ faults' = faults + 1
      /\ clean' = [clean EXCEPT ![c] = FALSE]
  BY DEF Fails, Abort
<1>2. \E to \in {"DbError", "RedisError", "aborted"} : check' = [check EXCEPT ![c].at = to]
  BY DEF Fails, Abort
<1>3. PICK to \in {"DbError", "RedisError", "aborted"} : check' = [check EXCEPT ![c].at = to]
  BY <1>2
<1>4. to \in Steps
  BY DEF Steps
<1>5. /\ check' \in [Checks -> [at : Steps, id : Nat]] /\ check'[c].at = to
      /\ \A d \in Checks \ {c} : check'[d] = check[d]
  BY <1>3, <1>4, GoesEffect
<1>6. /\ clean' \in [Checks -> BOOLEAN] /\ clean'[c] = FALSE
      /\ \A d \in Checks \ {c} : clean'[d] = clean[d]
  BY <1>1 DEF TypeOK
<1>. QED BY <1>1, <1>5, <1>6 DEF Others, TypeOK

\* XADD, with the reply or without it.
LEMMA AppendEffect ==
  ASSUME TypeOK, NEW c \in Checks, AppendEntry(c) \/ AppendReplyLost(c)
  PROVE  /\ TypeOK' /\ Others(c) /\ check[c].at \notin {"read", "trim"}
         /\ stream' = stream \cup {appended + 1} /\ appended' = appended + 1
         /\ \/ check'[c].at = "read" /\ UNCHANGED faults
            \/ /\ check'[c].at = "RedisError" /\ clean'[c] = FALSE
               /\ faults' = faults + 1
<1>1. CASE AppendEntry(c)
  <2>1. /\ check' \in [Checks -> [at : Steps, id : Nat]] /\ check'[c].at = "read"
        /\ \A d \in Checks \ {c} : check'[d] = check[d]
    BY <1>1, GoesEffect DEF AppendEntry, Goes, Steps
  <2>2. /\ check[c].at \notin {"read", "trim"} /\ UNCHANGED <<clean, faults>>
        /\ stream' = stream \cup {appended + 1} /\ appended' = appended + 1
    BY <1>1 DEF AppendEntry, Goes
  <2>. QED BY <2>1, <2>2 DEF Others, TypeOK
<1>2. CASE AppendReplyLost(c)
  <2>1. /\ check' \in [Checks -> [at : Steps, id : Nat]] /\ check'[c].at = "RedisError"
        /\ \A d \in Checks \ {c} : check'[d] = check[d]
    BY <1>2, GoesEffect DEF AppendReplyLost, Goes, Steps
  <2>2. /\ check[c].at \notin {"read", "trim"} /\ faults' = faults + 1
        /\ stream' = stream \cup {appended + 1} /\ appended' = appended + 1
    BY <1>2 DEF AppendReplyLost, Goes
  <2>3. /\ clean' \in [Checks -> BOOLEAN] /\ clean'[c] = FALSE
        /\ \A d \in Checks \ {c} : clean'[d] = clean[d]
    BY <1>2 DEF AppendReplyLost, TypeOK
  <2>. QED BY <2>1, <2>2, <2>3 DEF Others, TypeOK
<1>. QED BY <1>1, <1>2

LEMMA TrimEffect ==
  ASSUME TypeOK, NEW c \in Checks, Trim(c)
  PROVE  /\ TypeOK' /\ Others(c) /\ check[c].at = "trim" /\ check'[c].at = "healthy"
         /\ stream' = {e \in stream : check[c].id <= e}
         /\ UNCHANGED <<appended, clean, faults>>
<1>1. /\ check' \in [Checks -> [at : Steps, id : Nat]] /\ check'[c].at = "healthy"
      /\ \A d \in Checks \ {c} : check'[d] = check[d]
  BY GoesEffect DEF Trim, Goes, Steps
<1>2. /\ check[c].at = "trim" /\ UNCHANGED <<appended, clean, faults>>
      /\ stream' = {e \in stream : check[c].id <= e}
  BY DEF Trim, Goes
<1>. QED BY <1>1, <1>2 DEF Others, TypeOK

\* XREAD of a stream that has an entry.
LEMMA ReadEffect ==
  ASSUME TypeOK, StreamInv, NEW c \in Checks, Read(c)
  PROVE  /\ TypeOK' /\ Others(c) /\ check[c].at = "read" /\ check'[c].at = "trim"
         /\ check'[c].id \in StreamReadEntries(ReadCount) \cap 1..appended
         /\ \A e \in StreamReadEntries(ReadCount) : e <= check'[c].id
         /\ UNCHANGED <<stream, appended, clean, faults>>
<1>1. check[c].at = "read" /\ UNCHANGED <<stream, appended, clean, faults>>
  BY DEF Read
<1>2. PICK f \in Nat \ {0} : stream = f..appended /\ (appended > 0 => f <= appended)
  BY DEF StreamInv
<1>3. appended > 0 /\ appended \in Nat
  BY <1>1 DEF StreamInv, TypeOK
<1>4. f \in stream
  BY <1>2, <1>3
<1>5. PICK last \in StreamReadEntries(ReadCount) :
        /\ \A e \in StreamReadEntries(ReadCount) : e <= last
        /\ check' = [check EXCEPT ![c] = [at |-> "trim", id |-> last]]
  BY <1>4 DEF Read
<1>6. last \in stream
  BY <1>5 DEF StreamReadEntries
<1>7. last \in 1..appended /\ last \in Nat
  BY <1>2, <1>3, <1>6
<1>8. /\ check' \in [Checks -> [at : Steps, id : Nat]] /\ check'[c].at = "trim"
      /\ check'[c].id = last /\ \A d \in Checks \ {c} : check'[d] = check[d]
  BY <1>5, <1>7, PutEffect DEF Steps
<1>. QED BY <1>1, <1>5, <1>7, <1>8 DEF Others, TypeOK

-----------------------------------------------------------------------------
(* No check makes another fail *)

LEMMA CheckInvInit ==
  ASSUME Init
  PROVE  CheckInv
<1>1. TypeOK
  BY DEF Init, TypeOK, Steps
<1>2. stream = 1..appended /\ appended = 0
  BY DEF Init
<1>3. \A c \in Checks : check[c].at = "idle"
  BY DEF Init
<1>. QED BY <1>1, <1>2, <1>3 DEF CheckInv, StreamInv, HealthyIsReported

\* If only c moves, c alone is in question.
LEMMA CheckStep ==
  ASSUME CheckInv, NEW c \in Checks, Others(c), TypeOK', appended <= appended',
         \E f \in Nat \ {0} : /\ stream' = f..appended'
                              /\ appended' > 0 => f <= appended',
         check'[c].at = "read" => appended' > 0,
         check'[c].at = "trim" => check'[c].id \in 1..appended',
         clean'[c] => check'[c].at \notin {"DbError", "RedisError"}
  PROVE  CheckInv'
<1>1. appended \in Nat /\ appended' \in Nat
  BY DEF CheckInv, TypeOK
<1>2. ASSUME NEW d \in Checks, d # c
      PROVE  /\ check'[d].at = "read" => appended' > 0
             /\ check'[d].at = "trim" => check'[d].id \in 1..appended'
             /\ clean'[d] => check'[d].at \notin {"DbError", "RedisError"}
  <2>1. check'[d] = check[d] /\ clean'[d] = clean[d]
    BY <1>2 DEF Others
  <2>2. /\ check[d].at = "read" => appended > 0
        /\ check[d].at = "trim" => check[d].id \in 1..appended
        /\ clean[d] => check[d].at \notin {"DbError", "RedisError"}
    BY DEF CheckInv, StreamInv, HealthyIsReported
  <2>. QED BY <1>1, <2>1, <2>2
<1>3. HealthyIsReported'
  BY <1>2 DEF HealthyIsReported
<1>4. StreamInv'
  BY <1>2 DEF StreamInv
<1>. QED BY <1>3, <1>4 DEF CheckInv

LEMMA CheckInvStep ==
  ASSUME CheckInv, [Next]_vars
  PROVE  CheckInv'
<1>1. TypeOK /\ StreamInv /\ HealthyIsReported
  BY DEF CheckInv
<1>2. PICK f \in Nat \ {0} : stream = f..appended /\ (appended > 0 => f <= appended)
  BY <1>1 DEF StreamInv
<1>3. appended \in Nat
  BY <1>1 DEF TypeOK
<1>4. CASE UNCHANGED vars \/ ExpireTestKey
  BY <1>1, <1>4 DEF vars, ExpireTestKey, CheckInv, TypeOK, StreamInv, HealthyIsReported
<1>5. ASSUME NEW c \in Checks,
             \/ Begin(c) \/ CheckDb(c) \/ RedisConnection(c)
             \/ SetTestKey(c) \/ GetTestKey(c) \/ DeleteTestKey(c)
      PROVE  CheckInv'
  <2>1. /\ check' \in [Checks -> [at : Steps, id : Nat]] /\ Others(c)
        /\ check'[c].at \notin {"read", "trim", "DbError", "RedisError"}
        /\ UNCHANGED <<stream, appended, clean, faults>>
    BY <1>1, <1>5, QuietEffect
  <2>2. TypeOK'
    BY <1>1, <2>1 DEF TypeOK
  <2>. QED BY <1>2, <1>3, <2>1, <2>2, CheckStep
<1>6. ASSUME NEW c \in Checks, Answer(c)
      PROVE  CheckInv'
  BY <1>1, <1>2, <1>3, <1>6, AnswerEffect, CheckStep
<1>7. ASSUME NEW c \in Checks, Fails(c) \/ Abort(c)
      PROVE  CheckInv'
  <2>1. /\ TypeOK' /\ Others(c)
        /\ check'[c].at \notin {"read", "trim"} /\ clean'[c] = FALSE
        /\ UNCHANGED <<stream, appended>>
    BY <1>1, <1>7, FailEffect
  <2>. QED BY <1>2, <1>3, <2>1, CheckStep
<1>8. ASSUME NEW c \in Checks, AppendEntry(c) \/ AppendReplyLost(c)
      PROVE  CheckInv'
  <2>1. /\ TypeOK' /\ Others(c)
        /\ stream' = stream \cup {appended + 1} /\ appended' = appended + 1
        /\ \/ check'[c].at = "read"
           \/ check'[c].at = "RedisError" /\ clean'[c] = FALSE
    BY <1>1, <1>8, AppendEffect
  <2>. DEFINE g == IF appended = 0 THEN 1 ELSE f
  <2>2. g \in Nat \ {0} /\ stream' = g..appended' /\ g <= appended'
    BY <1>2, <1>3, <2>1
  <2>3. appended' > 0 /\ appended <= appended'
    BY <1>3, <2>1
  <2>. HIDE DEF g
  <2>. QED BY <2>1, <2>2, <2>3, CheckStep
<1>9. ASSUME NEW c \in Checks, Read(c)
      PROVE  CheckInv'
  BY <1>1, <1>2, <1>3, <1>9, ReadEffect, CheckStep
<1>10. ASSUME NEW c \in Checks, Trim(c)
       PROVE  CheckInv'
  <2>1. /\ TypeOK' /\ Others(c) /\ check[c].at = "trim" /\ check'[c].at = "healthy"
        /\ stream' = {e \in stream : check[c].id <= e}
        /\ UNCHANGED <<appended, clean, faults>>
    BY <1>1, <1>10, TrimEffect
  <2>2. check[c].id \in 1..appended
    BY <1>1, <2>1 DEF StreamInv
  <2>. DEFINE g == IF check[c].id <= f THEN f ELSE check[c].id
  <2>3. g \in Nat \ {0} /\ stream' = g..appended' /\ g <= appended'
    BY <1>2, <1>3, <2>1, <2>2
  <2>. HIDE DEF g
  <2>. QED BY <1>3, <2>1, <2>3, CheckStep
<1>. QED BY <1>4, <1>5, <1>6, <1>7, <1>8, <1>9, <1>10 DEF Next

\* The invariant holds in every state, for any number of checks and failures.
THEOREM CheckInvariant == Spec => []CheckInv
<1>1. Init => CheckInv
  BY CheckInvInit
<1>2. CheckInv /\ [Next]_vars => CheckInv'
  BY CheckInvStep
<1>. QED BY <1>1, <1>2, PTL DEF Spec

\* A check none of whose calls failed is answered as healthy, however many run
\* with it: there is always an entry for it to read.
THEOREM ChecksIndependent == Spec => []HealthyIsReported
<1>1. CheckInv => HealthyIsReported
  BY DEF CheckInv
<1>. QED BY <1>1, CheckInvariant, PTL

-----------------------------------------------------------------------------
(* What the checks leave in the stream is bounded *)

\* Sets of checks are finite, and the ones that trim are not done.
LEMMA CheckSets ==
  ASSUME IsFiniteSet(Checks)
  PROVE  /\ IsFiniteSet(Pending) /\ Cardinality(Pending) \in Nat
         /\ \A T \in SUBSET Trimming :
              /\ IsFiniteSet(T) /\ Cardinality(T) \in Nat
              /\ Cardinality(T) <= Cardinality(Pending)
              /\ Cardinality(T) <= Cardinality(Checks)
<1>1. Pending \subseteq Checks /\ Trimming \subseteq Pending
  BY DEF Pending, Trimming
<1>2. IsFiniteSet(Pending) /\ Cardinality(Pending) \in Nat
  BY <1>1, FS_Subset, FS_CardinalityType
<1>3. ASSUME NEW T \in SUBSET Trimming
      PROVE  /\ IsFiniteSet(T) /\ Cardinality(T) \in Nat
             /\ Cardinality(T) <= Cardinality(Pending)
             /\ Cardinality(T) <= Cardinality(Checks)
  <2>1. T \subseteq Pending /\ T \subseteq Checks
    BY <1>1
  <2>2. IsFiniteSet(T) /\ Cardinality(T) <= Cardinality(Pending)
    BY <1>2, <2>1, FS_Subset
  <2>3. Cardinality(T) <= Cardinality(Checks)
    BY <2>1, FS_Subset
  <2>. QED BY <2>2, <2>3, FS_CardinalityType
<1>. QED BY <1>2, <1>3

\* The same after a step.
LEMMA CheckSetsNext ==
  ASSUME IsFiniteSet(Checks)
  PROVE  /\ IsFiniteSet(Pending') /\ Cardinality(Pending') \in Nat
         /\ \A T \in SUBSET Trimming' :
              /\ IsFiniteSet(T) /\ Cardinality(T) \in Nat
              /\ Cardinality(T) <= Cardinality(Pending')
              /\ Cardinality(T) <= Cardinality(Checks)
<1>1. Pending' \subseteq Checks /\ Trimming' \subseteq Pending'
  BY DEF Pending, Trimming
<1>2. IsFiniteSet(Pending') /\ Cardinality(Pending') \in Nat
  BY <1>1, FS_Subset, FS_CardinalityType
<1>3. ASSUME NEW T \in SUBSET Trimming'
      PROVE  /\ IsFiniteSet(T) /\ Cardinality(T) \in Nat
             /\ Cardinality(T) <= Cardinality(Pending')
             /\ Cardinality(T) <= Cardinality(Checks)
  <2>1. T \subseteq Pending' /\ T \subseteq Checks
    BY <1>1
  <2>2. IsFiniteSet(T) /\ Cardinality(T) <= Cardinality(Pending')
    BY <1>2, <2>1, FS_Subset
  <2>3. Cardinality(T) <= Cardinality(Checks)
    BY <2>1, FS_Subset
  <2>. QED BY <2>2, <2>3, FS_CardinalityType
<1>. QED BY <1>2, <1>3

\* Where c is tells whether it is in one of the sets, and the others stay.
LEMMA SetsStep ==
  ASSUME IsFiniteSet(Checks), NEW c \in Checks, Others(c)
  PROVE  /\ check[c].at \notin {"read", "trim"} /\ check'[c].at \notin {"read", "trim"}
              => Trimming' = Trimming /\ Pending' = Pending
         /\ check[c].at \in {"read", "trim"} /\ check'[c].at \notin {"read", "trim"}
              => /\ Trimming' = Trimming \ {c}
                 /\ Cardinality(Pending') + 1 = Cardinality(Pending)
         /\ check[c].at \notin {"read", "trim"} /\ check'[c].at = "read"
              => /\ Trimming' = Trimming
                 /\ Cardinality(Pending') = Cardinality(Pending) + 1
         /\ check[c].at = "read" /\ check'[c].at = "trim"
              => Trimming' = Trimming \cup {c} /\ Pending' = Pending
         /\ \A d \in Checks \ {c} : check'[d].id = check[d].id
<1>1. \A d \in Checks \ {c} : check'[d] = check[d]
  BY DEF Others
<1>2. IsFiniteSet(Pending) /\ Cardinality(Pending) \in Nat
  BY CheckSets
<1>3. ASSUME check[c].at \in {"read", "trim"}, check'[c].at \notin {"read", "trim"}
      PROVE  /\ Trimming' = Trimming \ {c}
             /\ Cardinality(Pending') + 1 = Cardinality(Pending)
  <2>1. Pending' = Pending \ {c} /\ c \in Pending
    BY <1>1, <1>3 DEF Pending
  <2>2. Cardinality(Pending') = Cardinality(Pending) - 1
    BY <1>2, <2>1, FS_RemoveElement
  <2>3. Trimming' = Trimming \ {c}
    BY <1>1, <1>3 DEF Trimming
  <2>. QED BY <1>2, <2>2, <2>3
<1>4. ASSUME check[c].at \notin {"read", "trim"}, check'[c].at = "read"
      PROVE  /\ Trimming' = Trimming
             /\ Cardinality(Pending') = Cardinality(Pending) + 1
  <2>1. Pending' = Pending \cup {c} /\ c \notin Pending
    BY <1>1, <1>4 DEF Pending
  <2>2. Cardinality(Pending') = Cardinality(Pending) + 1
    BY <1>2, <2>1, FS_AddElement
  <2>3. Trimming' = Trimming
    BY <1>1, <1>4 DEF Trimming
  <2>. QED BY <2>2, <2>3
<1>5. ASSUME check[c].at \notin {"read", "trim"}, check'[c].at \notin {"read", "trim"}
      PROVE  Trimming' = Trimming /\ Pending' = Pending
  BY <1>1, <1>5 DEF Trimming, Pending
<1>6. ASSUME check[c].at = "read", check'[c].at = "trim"
      PROVE  Trimming' = Trimming \cup {c} /\ Pending' = Pending
  BY <1>1, <1>6 DEF Trimming, Pending
<1>. QED BY <1>1, <1>3, <1>4, <1>5, <1>6

\* The numbers the bound is made of.
LEMMA Numbers ==
  ASSUME CheckInv
  PROVE  appended \in Nat /\ faults \in Nat /\ stream \subseteq 1..appended
<1>1. PICK f \in Nat \ {0} : stream = f..appended
  BY DEF CheckInv, StreamInv
<1>2. appended \in Nat /\ faults \in Nat
  BY DEF CheckInv, TypeOK
<1>. QED BY <1>1, <1>2

\* A step that leaves the stream alone and lets no check read: the bound only
\* rises.
LEMMA TrimKept ==
  ASSUME IsFiniteSet(Checks), CheckInv, CheckInv', TrimInv, UNCHANGED <<stream, appended>>,
         Trimming' \subseteq Trimming, \A d \in Trimming' : check'[d].id = check[d].id,
         faults + Cardinality(Pending) <= faults' + Cardinality(Pending')
  PROVE  TrimInv'
<1>. SUFFICES ASSUME NEW m \in stream, NEW T \in SUBSET Trimming',
                     \A c \in T : check'[c].id <= m
              PROVE  appended + Cardinality(T) <= m + faults' + Cardinality(Pending')
  BY DEF TrimInv
<1>1. T \in SUBSET Trimming /\ \A c \in T : check[c].id <= m
  OBVIOUS
<1>2. appended + Cardinality(T) <= m + faults + Cardinality(Pending)
  BY <1>1 DEF TrimInv
<1>3. /\ appended \in Nat /\ faults \in Nat /\ faults' \in Nat /\ m \in Nat
      /\ Cardinality(Pending) \in Nat /\ Cardinality(Pending') \in Nat
      /\ Cardinality(T) \in Nat
  <2>1. appended \in Nat /\ faults \in Nat /\ stream \subseteq 1..appended
    BY Numbers
  <2>2. faults' \in Nat
    BY DEF CheckInv, TypeOK
  <2>3. Cardinality(Pending) \in Nat /\ Cardinality(Pending') \in Nat /\ Cardinality(T) \in Nat
    BY <1>1, CheckSets, CheckSetsNext
  <2>. QED BY <2>1, <2>2, <2>3
<1>. QED BY <1>2, <1>3

\* XADD: one entry more, and one check that is not done or one failure more.
LEMMA AppendTrim ==
  ASSUME IsFiniteSet(Checks), CheckInv, CheckInv', TrimInv, NEW c \in Checks,
         AppendEntry(c) \/ AppendReplyLost(c)
  PROVE  TrimInv'
<1>1. /\ Others(c) /\ check[c].at \notin {"read", "trim"}
      /\ stream' = stream \cup {appended + 1} /\ appended' = appended + 1
      /\ \/ check'[c].at = "read" /\ UNCHANGED faults
         \/ check'[c].at = "RedisError" /\ faults' = faults + 1
  BY AppendEffect DEF CheckInv
<1>2. appended \in Nat /\ faults \in Nat /\ stream \subseteq 1..appended
  BY Numbers
<1>3. Cardinality(Pending) \in Nat /\ Cardinality(Pending') \in Nat
  BY CheckSets, CheckSetsNext
<1>4. /\ Trimming' = Trimming
      /\ faults' + Cardinality(Pending') = faults + Cardinality(Pending) + 1
  <2>1. CASE check'[c].at = "read" /\ UNCHANGED faults
    <3>1. Trimming' = Trimming /\ Cardinality(Pending') = Cardinality(Pending) + 1
      BY <1>1, <2>1, SetsStep
    <3>. QED BY <1>2, <1>3, <2>1, <3>1
  <2>2. CASE check'[c].at = "RedisError" /\ faults' = faults + 1
    <3>1. Trimming' = Trimming /\ Pending' = Pending
      BY <1>1, <2>2, SetsStep
    <3>. QED BY <1>2, <1>3, <2>2, <3>1
  <2>. QED BY <1>1, <2>1, <2>2
<1>5. \A d \in Trimming : check'[d].id = check[d].id
  BY <1>1 DEF Trimming, Others
<1>6. faults' \in Nat
  BY DEF CheckInv, TypeOK
<1>. SUFFICES ASSUME NEW m \in stream', NEW T \in SUBSET Trimming',
                     \A d \in T : check'[d].id <= m
              PROVE  appended' + Cardinality(T) <= m + faults' + Cardinality(Pending')
  BY DEF TrimInv
<1>7. T \in SUBSET Trimming /\ \A d \in T : check[d].id <= m
  BY <1>4, <1>5
<1>8. Cardinality(T) \in Nat /\ Cardinality(T) <= Cardinality(Pending)
  BY <1>7, CheckSets
<1>9. CASE m \in stream
  <2>1. appended + Cardinality(T) <= m + faults + Cardinality(Pending)
    BY <1>7, <1>9 DEF TrimInv
  <2>2. m \in Nat
    BY <1>2, <1>9
  <2>. QED BY <1>1, <1>2, <1>3, <1>4, <1>6, <1>8, <2>1, <2>2
<1>10. CASE m = appended + 1
  BY <1>1, <1>2, <1>3, <1>4, <1>6, <1>8, <1>10
<1>. QED BY <1>1, <1>9, <1>10

\* The last entry that XREAD returns is the newest of the stream, or ReadCount - 1
\* entries above the oldest.
LEMMA ReadIsFar ==
  ASSUME ReadCount \in Nat \ {0}, NEW f \in Nat \ {0}, NEW a \in Nat, f <= a,
         stream = f..a, NEW last \in StreamReadEntries(ReadCount),
         \A e \in StreamReadEntries(ReadCount) : e <= last
  PROVE  last = a \/ last + 1 >= f + ReadCount
<1>. SUFFICES ASSUME last # a, last + 1 < f + ReadCount
              PROVE  FALSE
  BY DEF StreamReadEntries
<1>1. last \in f..a /\ last \in Nat
  BY DEF StreamReadEntries
<1>2. last + 1 \in stream
  BY <1>1
<1>3. {j \in stream : j < last + 1} = f..last
  BY <1>1
<1>4. Cardinality(f..last) = last - f + 1
  BY <1>1, FS_Interval
<1>5. last - f + 1 < ReadCount
  BY <1>1
<1>6. last + 1 \in StreamReadEntries(ReadCount)
  BY <1>2, <1>3, <1>4, <1>5 DEF StreamReadEntries
<1>. QED BY <1>1, <1>6

\* XREAD: a check that trims to the newest entry leaves only that; one that
\* trims below it takes ReadCount - 1 entries away, as many as there are checks.
LEMMA ReadTrim ==
  ASSUME IsFiniteSet(Checks), ReadCount \in Nat, Cardinality(Checks) < ReadCount,
         CheckInv, CheckInv', TrimInv, NEW c \in Checks, Read(c)
  PROVE  TrimInv'
<1>1. /\ Others(c) /\ check[c].at = "read" /\ check'[c].at = "trim"
      /\ check'[c].id \in StreamReadEntries(ReadCount) \cap 1..appended
      /\ \A e \in StreamReadEntries(ReadCount) : e <= check'[c].id
      /\ UNCHANGED <<stream, appended, faults>>
  BY ReadEffect DEF CheckInv
<1>2. appended \in Nat /\ faults \in Nat /\ stream \subseteq 1..appended
  BY Numbers
<1>3. /\ Trimming' = Trimming \cup {c} /\ Pending' = Pending
      /\ \A d \in Checks \ {c} : check'[d].id = check[d].id
  BY <1>1, SetsStep
<1>4. Cardinality(Pending) \in Nat /\ Cardinality(Checks) \in Nat
  BY CheckSets, FS_CardinalityType
<1>5. c \notin Trimming /\ Trimming \subseteq Checks
  BY <1>1 DEF Trimming
<1>. SUFFICES ASSUME NEW m \in stream, NEW T \in SUBSET Trimming',
                     \A d \in T : check'[d].id <= m
              PROVE  appended + Cardinality(T) <= m + faults + Cardinality(Pending)
  BY <1>1, <1>3 DEF TrimInv
<1>6. /\ Cardinality(T) \in Nat /\ Cardinality(T) <= Cardinality(Pending)
      /\ Cardinality(T) <= Cardinality(Checks)
  BY <1>3, CheckSetsNext
<1>7. m \in Nat /\ m <= appended
  BY <1>2
<1>8. CASE c \notin T
  <2>1. T \in SUBSET Trimming /\ \A d \in T : check[d].id <= m
    BY <1>3, <1>5, <1>8
  <2>. QED BY <2>1 DEF TrimInv
<1>9. CASE c \in T
  <2>1. PICK f \in Nat \ {0} : stream = f..appended /\ (appended > 0 => f <= appended)
    BY DEF CheckInv, StreamInv
  <2>2. f <= appended /\ f \in stream
    BY <1>2, <1>7, <2>1
  <2>3. appended <= f + faults + Cardinality(Pending)
    <3>1. appended + Cardinality({}) <= f + faults + Cardinality(Pending)
      BY <2>2 DEF TrimInv
    <3>. QED BY <1>2, <1>4, <3>1, FS_EmptySet
  <2>4. check'[c].id = appended \/ check'[c].id + 1 >= f + ReadCount
    BY <1>1, <1>2, <1>4, <2>1, <2>2, ReadIsFar
  <2>5. check'[c].id <= m /\ check'[c].id \in Nat
    BY <1>1, <1>9
  <2>. QED BY <1>2, <1>4, <1>6, <1>7, <2>3, <2>4, <2>5
<1>. QED BY <1>8, <1>9

\* XTRIM: what the check trims was counted with it.
LEMMA TrimTrim ==
  ASSUME IsFiniteSet(Checks), CheckInv, CheckInv', TrimInv, NEW c \in Checks, Trim(c)
  PROVE  TrimInv'
<1>1. /\ Others(c) /\ check[c].at = "trim" /\ check'[c].at = "healthy"
      /\ stream' = {e \in stream : check[c].id <= e}
      /\ UNCHANGED <<appended, faults>>
  BY TrimEffect DEF CheckInv
<1>2. appended \in Nat /\ faults \in Nat /\ stream \subseteq 1..appended
  BY Numbers
<1>3. /\ Trimming' = Trimming \ {c} /\ Cardinality(Pending') + 1 = Cardinality(Pending)
      /\ \A d \in Checks \ {c} : check'[d].id = check[d].id
  BY <1>1, SetsStep
<1>4. Cardinality(Pending) \in Nat /\ Cardinality(Pending') \in Nat
  BY CheckSets, CheckSetsNext
<1>5. c \in Trimming /\ Trimming \subseteq Checks
  BY <1>1 DEF Trimming
<1>. SUFFICES ASSUME NEW m \in stream', NEW T \in SUBSET Trimming',
                     \A d \in T : check'[d].id <= m
              PROVE  appended + Cardinality(T) <= m + faults + Cardinality(Pending')
  BY <1>1 DEF TrimInv
<1>. DEFINE U == T \cup {c}
<1>6. U \in SUBSET Trimming /\ c \notin T
  BY <1>3, <1>5
<1>7. m \in stream /\ m \in Nat /\ check[c].id <= m
  <2>1. m \in {e \in stream : check[c].id <= e}
    BY <1>1
  <2>2. m \in stream /\ check[c].id <= m
    BY <2>1
  <2>3. m \in 1..appended
    BY <1>2, <2>2
  <2>4. m \in Nat
    BY <2>3
  <2>. QED BY <2>2, <2>4
<1>8. \A d \in U : check[d].id <= m
  BY <1>3, <1>5, <1>6, <1>7
<1>9. appended + Cardinality(U) <= m + faults + Cardinality(Pending)
  BY <1>6, <1>7, <1>8 DEF TrimInv
<1>10. IsFiniteSet(T) /\ Cardinality(T) \in Nat
  BY CheckSetsNext
<1>11. Cardinality(U) = Cardinality(T) + 1
  BY <1>6, <1>10, FS_AddElement
<1>. QED BY <1>2, <1>3, <1>4, <1>7, <1>9, <1>10, <1>11

LEMMA TrimInvStep ==
  ASSUME IsFiniteSet(Checks), ReadCount \in Nat, Cardinality(Checks) < ReadCount,
         CheckInv, CheckInv', TrimInv, [Next]_vars
  PROVE  TrimInv'
<1>1. TypeOK /\ faults \in Nat
  BY DEF CheckInv, TypeOK
<1>2. Cardinality(Pending) \in Nat /\ Cardinality(Pending') \in Nat
  BY CheckSets, CheckSetsNext
<1>3. CASE UNCHANGED vars \/ ExpireTestKey
  BY <1>3 DEF vars, ExpireTestKey, TrimInv, Trimming, Pending
<1>4. ASSUME NEW c \in Checks, Others(c), check[c].at \notin {"read", "trim"},
             check'[c].at \notin {"read", "trim"}, UNCHANGED <<stream, appended, faults>>
      PROVE  TrimInv'
  <2>1. Trimming' = Trimming /\ Pending' = Pending
    BY <1>4, SetsStep
  <2>2. \A d \in Trimming' : check'[d].id = check[d].id
    BY <1>4, <2>1 DEF Trimming, Others
  <2>. QED BY <1>1, <1>2, <1>4, <2>1, <2>2, TrimKept
<1>5. ASSUME NEW c \in Checks,
             \/ Begin(c) \/ CheckDb(c) \/ RedisConnection(c)
             \/ SetTestKey(c) \/ GetTestKey(c) \/ DeleteTestKey(c)
      PROVE  TrimInv'
  <2>1. /\ Others(c) /\ check[c].at \notin {"read", "trim"}
        /\ check'[c].at \notin {"read", "trim"} /\ UNCHANGED <<stream, appended, faults>>
    BY <1>1, <1>5, QuietEffect
  <2>. QED BY <1>4, <2>1
<1>6. ASSUME NEW c \in Checks, Answer(c)
      PROVE  TrimInv'
  <2>1. /\ Others(c) /\ check[c].at \notin {"read", "trim"} /\ check'[c].at = "idle"
        /\ UNCHANGED <<stream, appended, faults>>
    BY <1>1, <1>6, AnswerEffect
  <2>. QED BY <1>4, <2>1
<1>7. ASSUME NEW c \in Checks, Fails(c) \/ Abort(c)
      PROVE  TrimInv'
  <2>1. /\ Others(c) /\ check'[c].at \notin {"read", "trim"}
        /\ UNCHANGED <<stream, appended>> /\ faults' = faults + 1
    BY <1>1, <1>7, FailEffect
  <2>2. /\ Trimming' \subseteq Trimming
        /\ \/ Pending' = Pending
           \/ Cardinality(Pending') + 1 = Cardinality(Pending)
    BY <2>1, SetsStep
  <2>3. faults + Cardinality(Pending) <= faults' + Cardinality(Pending')
    BY <1>1, <1>2, <2>1, <2>2
  <2>4. c \notin Trimming' /\ Trimming' \subseteq Checks
    BY <2>1 DEF Trimming
  <2>5. \A d \in Trimming' : check'[d].id = check[d].id
    BY <2>1, <2>4 DEF Others
  <2>. QED BY <2>1, <2>2, <2>3, <2>5, TrimKept
<1>8. ASSUME NEW c \in Checks, AppendEntry(c) \/ AppendReplyLost(c)
      PROVE  TrimInv'
  BY <1>8, AppendTrim
<1>9. ASSUME NEW c \in Checks, Read(c)
      PROVE  TrimInv'
  BY <1>9, ReadTrim
<1>10. ASSUME NEW c \in Checks, Trim(c)
       PROVE  TrimInv'
  BY <1>10, TrimTrim
<1>. QED BY <1>3, <1>5, <1>6, <1>7, <1>8, <1>9, <1>10 DEF Next

\* From the invariant with nobody trimming and the oldest entry.
LEMMA BoundFollows ==
  ASSUME IsFiniteSet(Checks), CheckInv, TrimInv
  PROVE  LeftoverBounded
<1>1. PICK f \in Nat \ {0} : stream = f..appended /\ (appended > 0 => f <= appended)
  BY DEF CheckInv, StreamInv
<1>2. appended \in Nat /\ faults \in Nat
  BY Numbers
<1>3. Cardinality(Pending) \in Nat
  BY CheckSets
<1>4. Cardinality(stream) <= 1 + faults + Cardinality(Pending)
  <2>1. CASE appended = 0
    <3>1. stream = {}
      BY <1>1, <2>1
    <3>2. Cardinality(stream) = 0
      BY <3>1, FS_EmptySet
    <3>. QED BY <1>2, <1>3, <3>2
  <2>2. CASE appended > 0
    <3>1. f \in stream /\ f <= appended
      BY <1>1, <1>2, <2>2
    <3>2. appended + Cardinality({}) <= f + faults + Cardinality(Pending)
      BY <3>1 DEF TrimInv
    <3>3. Cardinality({}) = 0
      BY FS_EmptySet
    <3>4. Cardinality(stream) = appended - f + 1
      BY <1>1, <1>2, <3>1, FS_Interval
    <3>. QED BY <1>2, <1>3, <3>1, <3>2, <3>3, <3>4
  <2>. QED BY <1>2, <2>1, <2>2
<1>. QED BY <1>4 DEF LeftoverBounded, Pending

\* As long as fewer checks run at a time than one XREAD returns entries, the
\* test stream holds one entry, those of the checks under way and those of the
\* checks that failed, however many checks there were.
THEOREM StreamBounded ==
  ASSUME IsFiniteSet(Checks), ReadCount \in Nat
  PROVE  Spec => []LeftoverBounded
<1>1. CASE Cardinality(Checks) < ReadCount
  <2>1. Init => TrimInv
    BY DEF Init, TrimInv
  <2>2. TrimInv /\ CheckInv /\ CheckInv' /\ [Next]_vars => TrimInv'
    BY <1>1, TrimInvStep
  <2>3. CheckInv /\ TrimInv => LeftoverBounded
    BY BoundFollows
  <2>. QED BY <2>1, <2>2, <2>3, CheckInvariant, PTL DEF Spec
<1>2. CASE ~(Cardinality(Checks) < ReadCount)
  <2>1. LeftoverBounded
    BY <1>2 DEF LeftoverBounded
  <2>. QED BY <2>1, PTL
<1>. QED BY <1>1, <1>2

=============================================================================
