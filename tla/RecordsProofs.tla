---------------------------- MODULE RecordsProofs ----------------------------
(***************************************************************************)
(* What holds of the api keys and users of module Records for any number   *)
(* of requests, rows and connections: no request waits for a connection    *)
(* while it holds one, a row that is there is found, a revocation stays.   *)
(* Of the constants it is assumed only that the pool has a size.           *)
(***************************************************************************)
EXTENDS Records, FiniteSetTheorems, TLAPS

-----------------------------------------------------------------------------
(* Types *)

Stages == {"connect", "query", "find", "done"}

Results == {"pending", "ok", "NotFound", "ValueNotFound", "ConnectionError",
            "UniqueViolation", "Others"}

Calls == [kind : Kinds, id : Ids \cup {NoId}, update : Updates \cup {NoUpdate},
          at : Stages, result : Results, alive : BOOLEAN]

TypeOK ==
  /\ DOMAIN rows = Ids
  /\ req \in [Requests -> {None} \cup Calls]
  /\ holds \subseteq Requests
  /\ free \in Nat

-----------------------------------------------------------------------------
(* The inductive invariant *)

\* The requests between Connect and the end of their query.
AtWork == {r \in Requests : req[r] # None /\ req[r].at \in {"query", "find"}}

\* They hold a connection each, and the others are in the pool.
HoldInv ==
  /\ holds = AtWork
  /\ IsFiniteSet(holds)
  /\ free + Cardinality(holds) = PoolSize

\* While a request that found its row has not ended, the row is there.
AliveInv ==
  \A r \in Requests :
    req[r] # None /\ req[r].kind \in Named /\ req[r].alive =>
      /\ req[r].at # "done" => req[r].id \in Present
      /\ req[r].at = "done" => req[r].result \notin {"NotFound", "ValueNotFound"}

RecordsInv == TypeOK /\ HoldInv /\ AliveInv

-----------------------------------------------------------------------------
(* What steps do *)

\* Every request but r is where it was.
Others(r) == \A q \in Requests \ {r} : req'[q] = req[q]

\* A request that is not idle is a call.
LEMMA CallIsCall ==
  ASSUME TypeOK, NEW r \in Requests
  PROVE  /\ req[r] # None <=> req[r] \in Calls
         /\ \A c \in Calls : c # None
<1>1. \A c \in Calls : c.kind # "none"
  BY DEF Calls, Kinds
<1>2. None.kind = "none"
  BY DEF None
<1>3. \A c \in Calls : c # None
  BY <1>1, <1>2
<1>. QED BY <1>3 DEF TypeOK

\* Receive: the request is new and waits for a connection.
LEMMA ReceiveEffect ==
  ASSUME TypeOK, NEW r \in Requests, NEW kind \in Kinds, NEW id \in Ids \cup {NoId},
         NEW update \in Updates \cup {NoUpdate}, Receive(r, kind, id, update)
  PROVE  /\ TypeOK' /\ Others(r) /\ req[r] = None /\ req'[r] \in Calls
         /\ req'[r].kind = kind /\ req'[r].id = id /\ req'[r].at = "connect"
         /\ req'[r].alive = (kind \in Named /\ id \in Present)
         /\ UNCHANGED <<table, rows, free, holds>>
<1>. DEFINE new == [kind |-> kind, id |-> id, update |-> update, at |-> "connect",
                    result |-> "pending", alive |-> kind \in Named /\ id \in Present]
<1>1. new \in Calls
  BY DEF Calls, Stages, Results
<1>2. req' = [req EXCEPT ![r] = new] /\ req[r] = None
  BY DEF Receive
<1>3. UNCHANGED <<table, rows, free, holds>>
  BY DEF Receive
<1>4. req'[r] = new /\ Others(r) /\ req' \in [Requests -> {None} \cup Calls]
  BY <1>1, <1>2 DEF TypeOK, Others
<1>5. TypeOK'
  BY <1>3, <1>4 DEF TypeOK
<1>6. /\ new.kind = kind /\ new.id = id /\ new.at = "connect"
      /\ new.alive = (kind \in Named /\ id \in Present)
  OBVIOUS
<1>. QED BY <1>1, <1>2, <1>3, <1>4, <1>5, <1>6

\* A call that gets another place or result keeps its request.
LEMMA AtEffect ==
  ASSUME TypeOK, NEW r \in Requests, req[r] \in Calls, NEW at \in Stages,
         req' = [req EXCEPT ![r].at = at]
  PROVE  /\ req' \in [Requests -> {None} \cup Calls] /\ Others(r)
         /\ req'[r] \in Calls /\ req'[r].at = at /\ req'[r].kind = req[r].kind
         /\ req'[r].id = req[r].id /\ req'[r].alive = req[r].alive
         /\ req'[r].result = req[r].result
<1>. DEFINE new == [req[r] EXCEPT !.at = at]
<1>1. new \in Calls /\ new.at = at /\ new.kind = req[r].kind /\ new.id = req[r].id
      /\ new.alive = req[r].alive /\ new.result = req[r].result
  BY DEF Calls
<1>2. req' = [req EXCEPT ![r] = new]
  OBVIOUS
<1>3. req'[r] = new /\ Others(r) /\ req' \in [Requests -> {None} \cup Calls]
  BY <1>1, <1>2 DEF TypeOK, Others
<1>. QED BY <1>1, <1>3

\* Finish: the request has its result and its connection is back in the pool.
LEMMA FinishEffect ==
  ASSUME TypeOK, NEW r \in Requests, req[r] \in Calls, NEW result \in Results,
         Finish(r, result)
  PROVE  /\ req' \in [Requests -> {None} \cup Calls] /\ Others(r)
         /\ req'[r] \in Calls /\ req'[r].at = "done" /\ req'[r].kind = req[r].kind
         /\ req'[r].id = req[r].id /\ req'[r].alive = req[r].alive
         /\ req'[r].result = result
         /\ free' = free + 1 /\ holds' = holds \ {r}
<1>. DEFINE update == IF req[r].kind = "upsert" /\ result = "NotFound"
                        THEN req[r].update ELSE NoUpdate
            new == [req[r] EXCEPT !.at = "done", !.result = result, !.update = update]
<1>1. update \in Updates \cup {NoUpdate}
  BY DEF Calls
<1>2. new \in Calls /\ new.at = "done" /\ new.kind = req[r].kind /\ new.id = req[r].id
      /\ new.alive = req[r].alive /\ new.result = result
  <2>. HIDE DEF update
  <2>. QED BY <1>1 DEF Calls, Stages
<1>3. req' = [req EXCEPT ![r] = new]
  BY DEF Finish
<1>4. req'[r] = new /\ Others(r) /\ req' \in [Requests -> {None} \cup Calls]
  <2>. HIDE DEF new
  <2>. QED BY <1>2, <1>3 DEF TypeOK, Others
<1>5. free' = free + 1 /\ holds' = holds \ {r}
  BY DEF Finish, Release
<1>. QED BY <1>2, <1>4, <1>5

-----------------------------------------------------------------------------
(* The parts of the invariant *)

\* A connection that is taken leaves the pool, one that is returned comes back,
\* and no other moves.
LEMMA HoldStep ==
  ASSUME PoolSize \in Nat, TypeOK, HoldInv, NEW r \in Requests,
         \A q \in Requests \ {r} : q \in AtWork' <=> q \in AtWork,
         \/ (r \in AtWork' <=> r \in AtWork) /\ UNCHANGED <<free, holds>>
         \/ /\ r \notin AtWork /\ r \in AtWork'
            /\ free > 0 /\ free' = free - 1 /\ holds' = holds \cup {r}
         \/ /\ r \in AtWork /\ r \notin AtWork'
            /\ free' = free + 1 /\ holds' = holds \ {r}
  PROVE  HoldInv' /\ free' \in Nat /\ holds' \subseteq Requests
<1>1. AtWork \subseteq Requests /\ AtWork' \subseteq Requests
  BY DEF AtWork
<1>2. holds = AtWork /\ IsFiniteSet(holds) /\ free + Cardinality(holds) = PoolSize
  BY DEF HoldInv
<1>3. free \in Nat /\ Cardinality(holds) \in Nat
  BY <1>2, FS_CardinalityType DEF TypeOK
<1>4. CASE (r \in AtWork' <=> r \in AtWork) /\ UNCHANGED <<free, holds>>
  <2>1. AtWork' = AtWork
    BY <1>1, <1>4
  <2>. QED BY <1>1, <1>2, <1>3, <1>4, <2>1 DEF HoldInv
<1>5. CASE /\ r \notin AtWork /\ r \in AtWork'
           /\ free > 0 /\ free' = free - 1 /\ holds' = holds \cup {r}
  <2>1. AtWork' = AtWork \cup {r}
    BY <1>1, <1>5
  <2>2. holds' = AtWork' /\ r \notin holds
    BY <1>2, <1>5, <2>1
  <2>3. IsFiniteSet(holds') /\ Cardinality(holds') = Cardinality(holds) + 1
    BY <1>2, <1>5, <2>2, FS_AddElement
  <2>4. free' \in Nat /\ free' + Cardinality(holds') = PoolSize
    BY <1>2, <1>3, <1>5, <2>3
  <2>. QED BY <1>1, <2>2, <2>3, <2>4 DEF HoldInv
<1>6. CASE /\ r \in AtWork /\ r \notin AtWork'
           /\ free' = free + 1 /\ holds' = holds \ {r}
  <2>1. AtWork' = AtWork \ {r}
    BY <1>1, <1>6
  <2>2. holds' = AtWork' /\ r \in holds
    BY <1>2, <1>6, <2>1
  <2>3. IsFiniteSet(holds') /\ Cardinality(holds') = Cardinality(holds) - 1
    BY <1>2, <1>6, <2>2, FS_RemoveElement
  <2>4. free' \in Nat /\ free' + Cardinality(holds') = PoolSize
    BY <1>2, <1>3, <1>6, <2>3
  <2>. QED BY <1>1, <2>2, <2>3, <2>4 DEF HoldInv
<1>. QED BY <1>4, <1>5, <1>6

\* Which requests are at work is told by where they are.
LEMMA WorkOf ==
  ASSUME TypeOK, NEW r \in Requests
  PROVE  /\ req[r] = None => r \notin AtWork
         /\ req[r] \in Calls => (r \in AtWork <=> req[r].at \in {"query", "find"})
BY CallIsCall DEF AtWork

\* The others are at work if they were.
LEMMA OthersWork ==
  ASSUME NEW r \in Requests, Others(r)
  PROVE  \A q \in Requests \ {r} : q \in AtWork' <=> q \in AtWork
BY DEF Others, AtWork

\* If no row goes, only the request that moved is in question.
LEMMA AliveStep ==
  ASSUME AliveInv, NEW r \in Requests, Others(r), Present \subseteq Present',
         req'[r] # None /\ req'[r].kind \in Named /\ req'[r].alive =>
           /\ req'[r].at # "done" => req'[r].id \in Present'
           /\ req'[r].at = "done" => req'[r].result \notin {"NotFound", "ValueNotFound"}
  PROVE  AliveInv'
<1>. SUFFICES ASSUME NEW q \in Requests, q # r, req'[q] # None,
                     req'[q].kind \in Named, req'[q].alive
              PROVE  /\ req'[q].at # "done" => req'[q].id \in Present'
                     /\ req'[q].at = "done"
                          => req'[q].result \notin {"NotFound", "ValueNotFound"}
  BY DEF AliveInv
<1>1. req'[q] = req[q]
  BY DEF Others
<1>. QED BY <1>1 DEF AliveInv

\* A statement that ends leaves the invariant true if it takes no row away and
\* answers NotFound only for a row that was missing at some moment.
LEMMA FinishStep ==
  ASSUME PoolSize \in Nat, RecordsInv, NEW r \in Requests, req[r] \in Calls,
         req[r].at \in {"query", "find"}, NEW result \in Results, Finish(r, result),
         DOMAIN rows' = Ids, Present \subseteq Present',
         req[r].kind \in Named /\ req[r].alive => result \notin {"NotFound", "ValueNotFound"}
  PROVE  RecordsInv'
<1>1. TypeOK /\ HoldInv /\ AliveInv
  BY DEF RecordsInv
<1>2. /\ req' \in [Requests -> {None} \cup Calls] /\ Others(r)
      /\ req'[r] \in Calls /\ req'[r].at = "done" /\ req'[r].kind = req[r].kind
      /\ req'[r].alive = req[r].alive /\ req'[r].result = result
      /\ free' = free + 1 /\ holds' = holds \ {r}
  BY <1>1, FinishEffect
<1>3. r \in AtWork /\ r \notin AtWork'
  <2>1. r \in AtWork
    BY <1>1, WorkOf
  <2>. QED BY <1>2, <2>1 DEF AtWork
<1>4. \A q \in Requests \ {r} : q \in AtWork' <=> q \in AtWork
  BY <1>2, OthersWork
<1>5. HoldInv' /\ free' \in Nat /\ holds' \subseteq Requests
  BY <1>1, <1>2, <1>3, <1>4, HoldStep
<1>6. AliveInv'
  BY <1>1, <1>2, AliveStep
<1>. QED BY <1>2, <1>5, <1>6 DEF RecordsInv, TypeOK

\* A step that takes no connection and changes no row leaves the invariant true
\* if the request that moves is at work after it exactly if it was before.
LEMMA QuietStep ==
  ASSUME PoolSize \in Nat, RecordsInv, NEW r \in Requests, Others(r),
         req' \in [Requests -> {None} \cup Calls],
         r \in AtWork' <=> r \in AtWork, UNCHANGED <<rows, free, holds>>,
         req'[r] # None /\ req'[r].kind \in Named /\ req'[r].alive =>
           /\ req'[r].at # "done" => req'[r].id \in Present
           /\ req'[r].at = "done" => req'[r].result \notin {"NotFound", "ValueNotFound"}
  PROVE  RecordsInv'
<1>1. TypeOK /\ HoldInv /\ AliveInv
  BY DEF RecordsInv
<1>2. \A q \in Requests \ {r} : q \in AtWork' <=> q \in AtWork
  BY OthersWork
<1>3. HoldInv' /\ free' \in Nat /\ holds' \subseteq Requests
  BY <1>1, <1>2, HoldStep
<1>4. Present' = Present
  BY DEF Present
<1>5. AliveInv'
  BY <1>1, <1>4, AliveStep
<1>6. DOMAIN rows' = Ids
  BY <1>1 DEF TypeOK
<1>. QED BY <1>3, <1>5, <1>6 DEF RecordsInv, TypeOK

-----------------------------------------------------------------------------
(* The actions *)

\* The operations of the services: each is a Receive.
Operations(r) ==
  \/ RetrieveApiKey(r) \/ ListApiKeys(r) \/ InsertApiKey(r) \/ UpsertApiKey(r)
  \/ UpdateApiKey(r) \/ DeleteApiKey(r) \/ AuthenticateApiKey(r)
  \/ RetrieveUser(r) \/ ListUsers(r) \/ InsertUser(r) \/ UpdateUser(r) \/ DeleteUser(r)

LEMMA OperationStep ==
  ASSUME PoolSize \in Nat, RecordsInv, NEW r \in Requests, Operations(r)
  PROVE  RecordsInv'
<1>. DEFINE Us == Updates \cup {NoUpdate}
            IdsOrNone == Ids \cup {NoId}
<1>1. TypeOK
  BY DEF RecordsInv
<1>2. ASSUME NEW kind \in Kinds, NEW id \in IdsOrNone, NEW update \in Us,
             Receive(r, kind, id, update)
      PROVE  RecordsInv'
  <2>1. /\ TypeOK' /\ Others(r) /\ req[r] = None /\ req'[r] \in Calls
        /\ req'[r].id = id /\ req'[r].at = "connect"
        /\ req'[r].alive = (kind \in Named /\ id \in Present)
        /\ UNCHANGED <<table, rows, free, holds>>
    BY <1>1, <1>2, ReceiveEffect
  <2>2. r \notin AtWork /\ r \notin AtWork'
    BY <2>1 DEF AtWork
  <2>3. req' \in [Requests -> {None} \cup Calls]
    BY <2>1 DEF TypeOK
  <2>. QED BY <2>1, <2>2, <2>3, QuietStep
<1>3. \A u \in Rows : u \in Us
  BY DEF Rows
<1>4. /\ NoUpdate \in Us /\ NoId \in IdsOrNone
      /\ \A id \in Ids : id \in IdsOrNone
      /\ \A u \in Updates : u \in Us
  OBVIOUS
<1>5. \E kind \in Kinds, id \in IdsOrNone, update \in Us : Receive(r, kind, id, update)
  <2>. USE DEF Kinds
  <2>. HIDE DEF Us, IdsOrNone
  <2>1. CASE RetrieveApiKey(r) \/ RetrieveUser(r)
    BY <1>4, <2>1 DEF RetrieveApiKey, RetrieveUser
  <2>2. CASE ListApiKeys(r) \/ ListUsers(r)
    BY <1>4, <2>2 DEF ListApiKeys, ListUsers
  <2>3. CASE InsertApiKey(r) \/ InsertUser(r)
    BY <1>3, <1>4, <2>3 DEF InsertApiKey, InsertUser
  <2>4. CASE UpsertApiKey(r)
    BY <1>4, <2>4 DEF UpsertApiKey
  <2>5. CASE UpdateApiKey(r) \/ UpdateUser(r)
    BY <1>4, <2>5 DEF UpdateApiKey, UpdateUser
  <2>6. CASE DeleteApiKey(r) \/ DeleteUser(r)
    BY <1>4, <2>6 DEF DeleteApiKey, DeleteUser
  <2>7. CASE AuthenticateApiKey(r)
    BY <1>3, <1>4, <2>7 DEF AuthenticateApiKey
  <2>. QED BY <2>1, <2>2, <2>3, <2>4, <2>5, <2>6, <2>7 DEF Operations
<1>. QED BY <1>2, <1>5

LEMMA ConnectStep ==
  ASSUME PoolSize \in Nat, RecordsInv, NEW r \in Requests, Connect(r)
  PROVE  RecordsInv'
<1>1. TypeOK /\ HoldInv /\ AliveInv
  BY DEF RecordsInv
<1>2. req[r] \in Calls /\ req[r].at = "connect"
  BY <1>1, CallIsCall DEF Connect, Is
<1>3. /\ req' = [req EXCEPT ![r].at = "query"] /\ "query" \in Stages
      /\ free > 0 /\ free' = free - 1 /\ holds' = holds \cup {r} /\ UNCHANGED rows
  BY DEF Connect, Stages
<1>4. /\ req' \in [Requests -> {None} \cup Calls] /\ Others(r)
      /\ req'[r] \in Calls /\ req'[r].at = "query" /\ req'[r].kind = req[r].kind
      /\ req'[r].id = req[r].id /\ req'[r].alive = req[r].alive
  BY <1>1, <1>2, <1>3, AtEffect
<1>5. r \notin AtWork /\ r \in AtWork'
  <2>1. \A c \in Calls : c # None
    BY <1>1, CallIsCall
  <2>. QED BY <1>2, <1>4, <2>1 DEF AtWork
<1>6. HoldInv' /\ free' \in Nat /\ holds' \subseteq Requests
  BY <1>1, <1>3, <1>4, <1>5, OthersWork, HoldStep
<1>7. Present' = Present
  BY <1>3 DEF Present
<1>8. AliveInv'
  <2>1. req[r].kind \in Named /\ req[r].alive => req[r].id \in Present
    BY <1>1, <1>2, CallIsCall DEF AliveInv
  <2>. QED BY <1>1, <1>4, <1>7, <2>1, AliveStep
<1>. QED BY <1>1, <1>3, <1>4, <1>6, <1>8 DEF RecordsInv, TypeOK

LEMMA ConnectTimesOutStep ==
  ASSUME PoolSize \in Nat, RecordsInv, NEW r \in Requests, ConnectTimesOut(r)
  PROVE  RecordsInv'
<1>1. TypeOK
  BY DEF RecordsInv
<1>2. req[r] \in Calls /\ req[r].at = "connect"
  BY <1>1, CallIsCall DEF ConnectTimesOut, Is
<1>. DEFINE new == [req[r] EXCEPT !.at = "done", !.result = "ConnectionError"]
<1>3. req' = [req EXCEPT ![r] = new] /\ UNCHANGED <<rows, free, holds>>
  BY DEF ConnectTimesOut
<1>4. new \in Calls /\ new.at = "done" /\ new.result = "ConnectionError"
  BY <1>2 DEF Calls, Stages, Results
<1>5. req'[r] = new /\ Others(r) /\ req' \in [Requests -> {None} \cup Calls]
  <2>. HIDE DEF new
  <2>. QED BY <1>1, <1>3, <1>4 DEF TypeOK, Others
<1>6. r \notin AtWork /\ r \notin AtWork'
  BY <1>2, <1>4, <1>5 DEF AtWork
<1>7. req'[r].at = "done" /\ req'[r].result \notin {"NotFound", "ValueNotFound"}
  BY <1>4, <1>5
<1>. QED BY <1>3, <1>5, <1>6, <1>7, QuietStep

LEMMA RespondStep ==
  ASSUME PoolSize \in Nat, RecordsInv, NEW r \in Requests, Respond(r)
  PROVE  RecordsInv'
<1>1. TypeOK
  BY DEF RecordsInv
<1>2. req[r] \in Calls /\ req[r].at = "done"
  BY <1>1, CallIsCall DEF Respond, Is
<1>3. req' = [req EXCEPT ![r] = None] /\ UNCHANGED <<rows, free, holds>>
  BY DEF Respond
<1>4. req'[r] = None /\ Others(r) /\ req' \in [Requests -> {None} \cup Calls]
  BY <1>1, <1>3 DEF TypeOK, Others
<1>5. r \notin AtWork /\ r \notin AtWork'
  BY <1>2, <1>4 DEF AtWork
<1>. QED BY <1>3, <1>4, <1>5, QuietStep

LEMMA UpdateNothingStep ==
  ASSUME PoolSize \in Nat, RecordsInv, NEW r \in Requests, UpdateNothing(r)
  PROVE  RecordsInv'
<1>1. TypeOK /\ AliveInv
  BY DEF RecordsInv
<1>2. req[r] \in Calls /\ req[r].at = "query"
  BY <1>1, CallIsCall DEF UpdateNothing, Is
<1>3. /\ req' = [req EXCEPT ![r].at = "find"] /\ "find" \in Stages
      /\ UNCHANGED <<rows, free, holds>>
  BY DEF UpdateNothing, Stages
<1>4. /\ req' \in [Requests -> {None} \cup Calls] /\ Others(r)
      /\ req'[r] \in Calls /\ req'[r].at = "find" /\ req'[r].kind = req[r].kind
      /\ req'[r].id = req[r].id /\ req'[r].alive = req[r].alive
  BY <1>1, <1>2, <1>3, AtEffect
<1>5. \A c \in Calls : c # None
  BY <1>1, CallIsCall
<1>6. r \in AtWork /\ r \in AtWork'
  BY <1>2, <1>4, <1>5 DEF AtWork
<1>7. req[r].kind \in Named /\ req[r].alive => req[r].id \in Present
  BY <1>1, <1>2, <1>5 DEF AliveInv
<1>. QED BY <1>3, <1>4, <1>6, <1>7, QuietStep

\* An upsert goes on to insert only if its row was missing.
LEMMA UpsertInsertsStep ==
  ASSUME PoolSize \in Nat, RecordsInv, NEW r \in Requests, UpsertInserts(r)
  PROVE  RecordsInv'
<1>1. TypeOK /\ AliveInv
  BY DEF RecordsInv
<1>2. /\ req[r] # None /\ req[r].kind = "upsert" /\ req[r].at = "done"
      /\ req[r].result = "NotFound" /\ UNCHANGED <<rows, free, holds>>
  BY DEF UpsertInserts, Is
<1>3. req[r] \in Calls
  BY <1>1, <1>2, CallIsCall
<1>4. ~req[r].alive
  BY <1>1, <1>2 DEF AliveInv, Named
<1>5. PICK new \in Calls : /\ req' = [req EXCEPT ![r] = new]
                           /\ new.at \in {"connect", "done"} /\ new.alive = req[r].alive
  <2>. DEFINE ins == [req[r] EXCEPT !.kind = "insert", !.at = "connect", !.result = "pending"]
              err == [req[r] EXCEPT !.result = "ValueNotFound"]
  <2>1. ins \in Calls /\ ins.at = "connect" /\ ins.alive = req[r].alive
    BY <1>3 DEF Calls, Kinds, Stages, Results
  <2>2. err \in Calls /\ err.at = "done" /\ err.alive = req[r].alive
    BY <1>2, <1>3 DEF Calls, Results
  <2>3. req' = [req EXCEPT ![r] = ins] \/ req' = [req EXCEPT ![r] = err]
    BY DEF UpsertInserts
  <2>. HIDE DEF ins, err
  <2>. QED BY <2>1, <2>2, <2>3
<1>6. req'[r] = new /\ Others(r) /\ req' \in [Requests -> {None} \cup Calls]
  BY <1>1, <1>5 DEF TypeOK, Others
<1>7. r \notin AtWork /\ r \notin AtWork'
  BY <1>2, <1>5, <1>6 DEF AtWork
<1>8. ~req'[r].alive
  BY <1>4, <1>5, <1>6
<1>. QED BY <1>2, <1>6, <1>7, <1>8, QuietStep

\* A request at work is a call, and its row is there if it always was.
LEMMA AtWorkFacts ==
  ASSUME RecordsInv, NEW r \in Requests, req[r] # None, req[r].at \in {"query", "find"}
  PROVE  /\ req[r] \in Calls
         /\ req[r].kind \in Named /\ req[r].alive => req[r].id \in Present
         /\ DOMAIN rows = Ids
BY CallIsCall DEF RecordsInv, AliveInv, TypeOK

\* The statements that write nothing.
LEMMA ReadStep ==
  ASSUME PoolSize \in Nat, RecordsInv, NEW r \in Requests,
         Find(r) \/ Authenticate(r) \/ Filter(r) \/ QueryFails(r)
  PROVE  RecordsInv'
<1>1. req[r] # None /\ req[r].at \in {"query", "find"} /\ UNCHANGED rows
  BY DEF Find, Authenticate, Filter, QueryFails, Is
<1>2. /\ req[r] \in Calls
      /\ req[r].kind \in Named /\ req[r].alive => req[r].id \in Present
  BY <1>1, AtWorkFacts
<1>3. Present \subseteq Present' /\ DOMAIN rows' = Ids
  BY <1>1, AtWorkFacts DEF Present
<1>4. PICK result \in Results :
        /\ Finish(r, result)
        /\ req[r].kind \in Named /\ req[r].alive => result \notin {"NotFound", "ValueNotFound"}
  <2>. USE DEF Results
  <2>1. CASE Find(r)
    BY <1>2, <2>1 DEF Find
  <2>2. CASE Authenticate(r)
    BY <2>2 DEF Authenticate, Is, Named
  <2>3. CASE Filter(r)
    BY <2>3 DEF Filter
  <2>4. CASE QueryFails(r)
    BY <2>4 DEF QueryFails, ErrorOf, Named
  <2>. QED BY <2>1, <2>2, <2>3, <2>4
<1>. QED BY <1>1, <1>2, <1>3, <1>4, FinishStep

LEMMA InsertStep ==
  ASSUME PoolSize \in Nat, RecordsInv, NEW r \in Requests, Insert(r)
  PROVE  RecordsInv'
<1>1. req[r] # None /\ req[r].at \in {"query", "find"} /\ req[r].kind = "insert"
  BY DEF Insert, Is
<1>2. req[r] \in Calls /\ DOMAIN rows = Ids
  BY <1>1, AtWorkFacts
<1>3. Present \subseteq Present' /\ DOMAIN rows' = Ids
  <2>1. CASE UNCHANGED rows
    BY <1>2, <2>1 DEF Present
  <2>2. ASSUME NEW id \in Ids \ Present, NEW row, rows' = [rows EXCEPT ![id] = row]
        PROVE  Present \subseteq Present' /\ DOMAIN rows' = Ids
    <3>1. \A other \in Ids \ {id} : rows'[other] = rows[other]
      BY <1>2, <2>2
    <3>2. DOMAIN rows' = Ids
      BY <1>2, <2>2
    <3>. QED BY <3>1, <3>2 DEF Present
  <2>3. UNCHANGED rows \/ \E id \in Ids \ Present :
                            rows' = [rows EXCEPT ![id] = req[r].update[2]]
    BY DEF Insert
  <2>. QED BY <2>1, <2>2, <2>3
<1>4. PICK result \in Results : Finish(r, result)
  BY DEF Insert, Results
<1>5. req[r].kind \notin Named
  BY <1>1 DEF Named
<1>. QED BY <1>1, <1>2, <1>3, <1>4, <1>5, FinishStep

\* A row that was changed has all the columns, so it is a row still.
LEMMA ChangedIsRow ==
  ASSUME NEW row, NEW values
  PROVE  Changed(row, values) # NoRow
<1>1. DOMAIN Changed(row, values) = Fields
  BY DEF Changed
<1>2. DOMAIN NoRow = {"token"} /\ "title" \in Fields
  BY DEF NoRow, Fields
<1>. QED BY <1>1, <1>2

LEMMA UpdateStep ==
  ASSUME PoolSize \in Nat, RecordsInv, NEW r \in Requests, Update(r)
  PROVE  RecordsInv'
<1>. DEFINE values == Internal(req[r].update)
            id     == req[r].id
<1>1. req[r] # None /\ req[r].at \in {"query", "find"}
  BY DEF Update, Is
<1>2. /\ req[r] \in Calls /\ DOMAIN rows = Ids
      /\ req[r].kind \in Named /\ req[r].alive => req[r].id \in Present
  BY <1>1, AtWorkFacts
<1>3. Present \subseteq Present' /\ DOMAIN rows' = Ids
  <2>1. CASE UNCHANGED rows
    BY <1>2, <2>1 DEF Present
  <2>2. CASE rows' = [rows EXCEPT ![id] = Changed(@, values)]
    <3>1. \A other \in Ids \ {id} : rows'[other] = rows[other]
      BY <1>2, <2>2
    <3>2. DOMAIN rows' = Ids
      BY <1>2, <2>2
    <3>3. id \in Ids => rows'[id] = Changed(rows[id], values)
      BY <1>2, <2>2
    <3>. QED BY <3>1, <3>2, <3>3, ChangedIsRow DEF Present
  <2>3. UNCHANGED rows \/ rows' = [rows EXCEPT ![id] = Changed(@, values)]
    BY DEF Update
  <2>. QED BY <2>1, <2>2, <2>3
<1>4. PICK result \in Results :
        Finish(r, result) /\ (result \in {"NotFound", "ValueNotFound"} => id \notin Present)
  BY DEF Update, Results
<1>. QED BY <1>1, <1>2, <1>3, <1>4, FinishStep

\* A deletion is seen by every request that named the row.
LEMMA DeleteStep ==
  ASSUME PoolSize \in Nat, RecordsInv, NEW r \in Requests, Delete(r)
  PROVE  RecordsInv'
<1>. DEFINE id     == req[r].id
            result == IF id \in Present THEN "ok" ELSE "NotFound"
<1>1. TypeOK /\ HoldInv /\ AliveInv
  BY DEF RecordsInv
<1>2. /\ req[r] # None /\ req[r].at = "query"
      /\ rows' = [rows EXCEPT ![id] = NoRow] /\ free' = free + 1 /\ holds' = holds \ {r}
  BY DEF Delete, Is, Release
<1>3. /\ req[r] \in Calls /\ DOMAIN rows = Ids
      /\ req[r].kind \in Named /\ req[r].alive => id \in Present
  BY <1>2, AtWorkFacts
<1>4. /\ req'[r] \in Calls /\ req'[r].at = "done" /\ req'[r].alive = req[r].alive
      /\ req'[r].kind = req[r].kind /\ req'[r].result = result
  <2>1. req'[r] = [req[r] EXCEPT !.at = "done", !.result = result]
    BY DEF Delete
  <2>2. result \in Results
    BY DEF Results
  <2>. HIDE DEF result
  <2>. QED BY <1>3, <2>1, <2>2 DEF Calls, Stages
<1>5. ASSUME NEW q \in Requests, q # r, req[q] # None
      PROVE  /\ req'[q] \in Calls /\ req'[q].at = req[q].at /\ req'[q].kind = req[q].kind
             /\ req'[q].id = req[q].id /\ req'[q].result = req[q].result
             /\ req'[q].alive => req[q].alive /\ req[q].id # id
  <2>1. req[q] \in Calls
    BY <1>1, <1>5, CallIsCall
  <2>2. CASE req[q].id = id
    <3>1. req'[q] = [req[q] EXCEPT !.alive = FALSE]
      BY <1>5, <2>2 DEF Delete
    <3>. QED BY <2>1, <3>1 DEF Calls
  <2>3. CASE req[q].id # id
    <3>1. req'[q] = req[q]
      BY <1>5, <2>3 DEF Delete
    <3>. QED BY <2>1, <2>3, <3>1
  <2>. QED BY <2>2, <2>3
<1>6. \A q \in Requests : q # r /\ req[q] = None => req'[q] = None
  BY DEF Delete
<1>7. \A c \in Calls : c # None
  BY <1>1, CallIsCall
<1>8. req' \in [Requests -> {None} \cup Calls]
  <2>1. \A q \in Requests : req'[q] \in {None} \cup Calls
    BY <1>4, <1>5, <1>6
  <2>2. req' = [q \in Requests |-> req'[q]]
    BY DEF Delete
  <2>. QED BY <2>1, <2>2
<1>9. r \in AtWork /\ r \notin AtWork'
  BY <1>2, <1>4 DEF AtWork
<1>10. \A q \in Requests \ {r} : q \in AtWork' <=> q \in AtWork
  BY <1>5, <1>6, <1>7 DEF AtWork
<1>11. HoldInv' /\ free' \in Nat /\ holds' \subseteq Requests
  BY <1>1, <1>2, <1>9, <1>10, HoldStep
<1>12. Present \ {id} \subseteq Present' /\ DOMAIN rows' = Ids
  <2>1. \A other \in Ids \ {id} : rows'[other] = rows[other]
    BY <1>2, <1>3
  <2>2. DOMAIN rows' = Ids
    BY <1>2, <1>3
  <2>. QED BY <2>1, <2>2 DEF Present
<1>13. AliveInv'
  <2>. SUFFICES ASSUME NEW q \in Requests, req'[q] # None,
                       req'[q].kind \in Named, req'[q].alive
                PROVE  /\ req'[q].at # "done" => req'[q].id \in Present'
                       /\ req'[q].at = "done"
                            => req'[q].result \notin {"NotFound", "ValueNotFound"}
    BY DEF AliveInv
  <2>1. CASE q = r
    BY <1>3, <1>4, <2>1
  <2>2. CASE q # r
    <3>1. req[q] # None
      BY <1>6, <2>2
    <3>2. /\ req[q].at # "done" => req[q].id \in Present
          /\ req[q].at = "done" => req[q].result \notin {"NotFound", "ValueNotFound"}
      BY <1>1, <1>5, <2>2, <3>1 DEF AliveInv
    <3>. HIDE DEF id
    <3>. QED BY <1>5, <1>12, <2>2, <3>1, <3>2
  <2>. QED BY <2>1, <2>2
<1>. QED BY <1>8, <1>11, <1>12, <1>13 DEF RecordsInv, TypeOK

-----------------------------------------------------------------------------
(* The theorems *)

LEMMA RecordsInvInit ==
  ASSUME PoolSize \in Nat, Init
  PROVE  RecordsInv
<1>1. /\ DOMAIN rows = Ids /\ req \in [Requests -> {None} \cup Calls]
      /\ \A r \in Requests : req[r] = None
      /\ holds = {} /\ free = PoolSize
  BY DEF Init
<1>2. IsFiniteSet({}) /\ Cardinality({}) = 0
  BY FS_EmptySet
<1>3. AtWork = {}
  BY <1>1 DEF AtWork
<1>. QED BY <1>1, <1>2, <1>3 DEF RecordsInv, TypeOK, HoldInv, AliveInv

\* The inductive invariant is preserved by every step of the services.
LEMMA RecordsInvStep ==
  ASSUME PoolSize \in Nat, RecordsInv, [Next]_vars
  PROVE  RecordsInv'
<1>1. CASE UNCHANGED vars
  BY <1>1 DEF vars, RecordsInv, TypeOK, HoldInv, AliveInv, AtWork, Present
<1>2. ASSUME NEW r \in Requests, Operations(r)
      PROVE  RecordsInv'
  BY <1>2, OperationStep
<1>3. ASSUME NEW r \in Requests,
             \/ Connect(r) \/ ConnectTimesOut(r)
             \/ Find(r) \/ Authenticate(r) \/ Filter(r) \/ Insert(r)
             \/ UpdateNothing(r) \/ Update(r)
             \/ UpsertInserts(r) \/ Delete(r) \/ QueryFails(r) \/ Respond(r)
      PROVE  RecordsInv'
  BY <1>3, ConnectStep, ConnectTimesOutStep, ReadStep, InsertStep, UpdateNothingStep,
     UpdateStep, UpsertInsertsStep, DeleteStep, RespondStep
<1>. QED BY <1>1, <1>2, <1>3 DEF Next, Operations

\* Whatever the requests, rows and updates, and for any number of failures: the
\* inductive invariant holds in every state.
THEOREM RecordsInvariant ==
  ASSUME PoolSize \in Nat
  PROVE  Spec => []RecordsInv
<1>1. Init => RecordsInv
  BY RecordsInvInit
<1>2. RecordsInv /\ [Next]_vars => RecordsInv'
  BY RecordsInvStep
<1>. QED BY <1>1, <1>2, PTL DEF Spec

\* No connection of the pool is lost or given twice, and a request that waits
\* for one holds none: upserts cannot starve each other, however small the pool.
THEOREM ConnectionsKept ==
  ASSUME PoolSize \in Nat
  PROVE  Spec => []NoHoldAndWait
<1>1. RecordsInv => NoHoldAndWait
  BY DEF RecordsInv, HoldInv, AtWork, NoHoldAndWait, Is
<1>. QED BY <1>1, RecordsInvariant, PTL

\* A request whose row existed from its start to its end is never answered that
\* there is no such row.
THEOREM FoundIfThere ==
  ASSUME PoolSize \in Nat
  PROVE  Spec => []NotFoundIsHonest
<1>1. RecordsInv => NotFoundIsHonest
  BY DEF RecordsInv, AliveInv, NotFoundIsHonest, Is
<1>. QED BY <1>1, RecordsInvariant, PTL

=============================================================================
