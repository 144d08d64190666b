------------------------------ MODULE Records ------------------------------
(***************************************************************************)
(* The rows of api keys and of users: the services of src/crates/modules   *)
(* over the generic queries of src/crates/diesel_models/src/generics.rs    *)
(* and the connection pool of src/crates/storage_impl/src/connection.rs.   *)
(* A behaviour is about one of the two tables.                             *)
(*                                                                         *)
(* A row has a token (a user's email), a title (which stands for           *)
(* every other column an insert requires), a time of last use and a        *)
(* revocation, each set (1) or null (0).  An SQL statement is atomic; what *)
(* happens between two of them, and between a statement and its            *)
(* connection, is not.                                                     *)
(***************************************************************************)
EXTENDS Naturals, FiniteSets, Functions

CONSTANTS
  Requests,      \* requests that run at the same time
  Ids,           \* identifiers
  Tokens,        \* hashed api keys
  Updates,       \* the <<variant, values>> that requests carry
  PoolSize,      \* connections of the master pool
  MaxFaults      \* bound on failed statements

Fields == {"token", "title", "used", "revoked"}

Kinds == {"retrieve", "list", "insert", "update", "upsert", "delete", "authenticate"}

NoRow == [token |-> "none"]

VARIABLES
  table,       \* "api_key" or "user"
  rows,        \* its rows
  generated,   \* the column id has a default
  req,         \* what each request is doing
  free,        \* idle connections of the pool
  holds,       \* the requests with a connection
  faults

vars == <<table, rows, generated, req, free, holds, faults>>

Present == {id \in Ids : rows[id] # NoRow}

None == [kind |-> "none"]

NoUpdate == <<"Update", <<>>>>

\* For the requests that name no row.
NoId == "none"

\* The migrations declare id as text without a default, with which no insert
\* succeeds; a database where it has one is considered too.
Init ==
  /\ table \in {"api_key", "user"}
  /\ rows = [id \in Ids |-> NoRow]
  /\ generated \in BOOLEAN
  /\ req = [r \in Requests |-> None]
  /\ free = PoolSize /\ holds = {}
  /\ faults = 0

-----------------------------------------------------------------------------
(* Values *)

\* From<UserUpdate>: the email cannot be set.
UserInternal(update) == Restrict(update[2], DOMAIN update[2] \cap {"title"})

\* From<ApiKeyUpdate>: the fields a variant can set.
ApiKeyInternal(update) ==
  LET allowed == CASE update[1] = "Update"         -> Fields \ {"token"}
                   [] update[1] = "Upsert"         -> Fields
                   [] update[1] = "Revoke"         -> {"revoked"}
                   [] update[1] = "LastUsedUpdate" -> {"used"}
  IN  Restrict(update[2], DOMAIN update[2] \cap allowed)

Internal(update) ==
  IF table = "user" THEN UserInternal(update) ELSE ApiKeyInternal(update)

\* TryFrom<ApiKeyUpdateInternal> for ApiKeyNew.
Complete(values) == DOMAIN values = Fields

\* AsChangeset: a field that is None is left alone.
Changed(row, values) ==
  [f \in Fields |-> IF f \in DOMAIN values THEN values[f] ELSE row[f]]

\* The unique index on token; the one on a user's email is not unique.
Clash(id, row) ==
  table = "api_key" /\ \E other \in Present \ {id} : rows[other].token = row.token

-----------------------------------------------------------------------------
(* A request *)

Is(r, kinds, at) == req[r] # None /\ req[r].kind \in kinds /\ req[r].at = at

Named == {"retrieve", "update", "upsert", "delete"}

\* alive: the row it names existed at every moment since the request came.
Receive(r, kind, id, update) ==
  /\ req[r] = None
  /\ req' = [req EXCEPT ![r] =
               [kind |-> kind, id |-> id, update |-> update, at |-> "connect",
                result |-> "pending", alive |-> kind \in Named /\ id \in Present]]
  /\ UNCHANGED <<table, rows, generated, free, holds, faults>>

\* pool.get()
Connect(r) ==
  /\ Is(r, Kinds, "connect") /\ free > 0
  /\ free' = free - 1 /\ holds' = holds \cup {r}
  /\ req' = [req EXCEPT ![r].at = "query"]
  /\ UNCHANGED <<table, rows, generated, faults>>

\* No connection within the pool's timeout: DatabaseConnectionError.
ConnectTimesOut(r) ==
  /\ Is(r, Kinds, "connect") /\ free = 0
  /\ req' = [req EXCEPT ![r].at = "done", ![r].result = "ConnectionError"]
  /\ UNCHANGED <<table, rows, generated, free, holds, faults>>

\* The function returns and its connection goes back to the pool.
Release(r) == free' = free + 1 /\ holds' = holds \ {r}

\* The values go with the call; upsert_api_key has a clone if nothing was found.
Finish(r, result) ==
  /\ Release(r)
  /\ req' = [req EXCEPT ![r].at = "done", ![r].result = result,
                        ![r].update = IF req[r].kind = "upsert" /\ result = "NotFound"
                                       THEN @ ELSE NoUpdate]

\* find_by_id and find_optional_by_hashed_api_key.
Find(r) ==
  /\ Is(r, {"retrieve"}, "query") \/ Is(r, {"update", "upsert"}, "find")
  /\ Finish(r, IF req[r].id \in Present THEN "ok" ELSE "NotFound")
  /\ UNCHANGED <<table, rows, generated, faults>>

Authenticate(r) ==
  /\ Is(r, {"authenticate"}, "query")
  /\ Finish(r, IF \E id \in Present : rows[id].token = req[r].update[2].token
                 THEN "ok" ELSE "NotFound")
  /\ UNCHANGED <<table, rows, generated, faults>>

Filter(r) ==
  /\ Is(r, {"list"}, "query")
  /\ Finish(r, "ok")
  /\ UNCHANGED <<table, rows, generated, faults>>

\* generic_insert: under an id of the database's choice.
Insert(r) ==
  /\ Is(r, {"insert"}, "query")
  /\ LET row == req[r].update[2] IN
     IF generated /\ ~Clash(NoId, row)
       THEN \E id \in Ids \ Present :
              /\ rows' = [rows EXCEPT ![id] = row]
              /\ Finish(r, "ok")
       ELSE /\ Finish(r, IF generated THEN "UniqueViolation" ELSE "Others")
            /\ UNCHANGED rows
  /\ UNCHANGED <<table, generated, faults>>

\* A changeset without a field is NoFieldsToUpdate, for which update_by_id
\* looks the row up, on the connection it has.
UpdateNothing(r) ==
  /\ Is(r, {"update", "upsert"}, "query")
  /\ DOMAIN Internal(req[r].update) = {}
  /\ req' = [req EXCEPT ![r].at = "find"]
  /\ UNCHANGED <<table, rows, generated, free, holds, faults>>

\* generic_update_by_id: a violated index is Others.
Update(r) ==
  LET values == Internal(req[r].update)
      id     == req[r].id
  IN
  /\ Is(r, {"update", "upsert"}, "query")
  /\ DOMAIN values # {}
  /\ \/ /\ id \in Present
        /\ ~Clash(id, Changed(rows[id], values))
        /\ rows' = [rows EXCEPT ![id] = Changed(@, values)]
        /\ Finish(r, "ok")
     \/ /\ id \in Present
        /\ Clash(id, Changed(rows[id], values))
        /\ Finish(r, "Others")
        /\ UNCHANGED rows
     \/ /\ id \notin Present
        /\ Finish(r, "NotFound")
        /\ UNCHANGED rows
  /\ UNCHANGED <<table, generated, faults>>

\* Mutant of UpsertInserts: the insert runs inside the update's scope.
UpsertKeepsConnection(r) ==
  /\ Is(r, {"upsert"}, "done") /\ req[r].result = "NotFound"
  /\ req' = [req EXCEPT ![r].kind = "insert", ![r].at = "connect", ![r].result = "pending"]
  /\ free' = free - 1 /\ holds' = holds \cup {r}
  /\ UNCHANGED <<table, rows, generated, faults>>

\* upsert_api_key: update_api_key answered NotFound and has returned its
\* connection; the values become a new row if none is missing.
UpsertInserts(r) ==
  LET values == Internal(req[r].update) IN
  /\ Is(r, {"upsert"}, "done") /\ req[r].result = "NotFound"
  /\ req' = IF Complete(values)
              THEN [req EXCEPT ![r].kind = "insert", ![r].at = "connect",
                               ![r].result = "pending"]
              ELSE [req EXCEPT ![r].result = "ValueNotFound"]
  /\ UNCHANGED <<table, rows, generated, free, holds, faults>>

\* generic_delete.
Delete(r) ==
  LET id == req[r].id IN
  /\ Is(r, {"delete"}, "query")
  /\ rows' = [rows EXCEPT ![id] = NoRow]
  /\ Release(r)
  /\ req' = [q \in Requests |->
               IF q = r THEN [req[q] EXCEPT !.at = "done",
                                !.result = IF id \in Present THEN "ok" ELSE "NotFound"]
               ELSE IF req[q] # None /\ req[q].id = id THEN [req[q] EXCEPT !.alive = FALSE]
               ELSE req[q]]
  /\ UNCHANGED <<table, generated, faults>>

\* Mutant of ErrorOf: every query does what generic_filter does.
ErrorOfFilter(kind) == "NotFound"

\* What an error of the database becomes.
ErrorOf(kind) == IF kind = "list" THEN "NotFound" ELSE "Others"

\* The statement fails and changes nothing.  (One that is committed although its
\* answer is lost is the same request after it was done, but for the answer.)
QueryFails(r) ==
  /\ Is(r, Kinds, "query") \/ Is(r, Kinds, "find")
  /\ faults < MaxFaults /\ faults' = faults + 1
  /\ Finish(r, ErrorOf(req[r].kind))
  /\ UNCHANGED <<table, rows, generated>>

\* The answer is sent.
Respond(r) ==
  /\ Is(r, Kinds, "done")
  /\ ~(req[r].kind = "upsert" /\ req[r].result = "NotFound")
  /\ req' = [req EXCEPT ![r] = None]
  /\ UNCHANGED <<table, rows, generated, free, holds, faults>>

-----------------------------------------------------------------------------
(* The operations of ApiKeyInterface and UserInterface *)

Rows == {u \in Updates : Complete(u[2])}

RetrieveApiKey(r) == table = "api_key" /\ \E id \in Ids : Receive(r, "retrieve", id, NoUpdate)

ListApiKeys(r) == table = "api_key" /\ Receive(r, "list", NoId, NoUpdate)

InsertApiKey(r) == table = "api_key" /\ \E u \in Rows : Receive(r, "insert", NoId, u)

UpsertApiKey(r) ==
  table = "api_key" /\ \E id \in Ids, u \in Updates : Receive(r, "upsert", id, u)

UpdateApiKey(r) ==
  table = "api_key" /\ \E id \in Ids, u \in Updates : Receive(r, "update", id, u)

DeleteApiKey(r) == table = "api_key" /\ \E id \in Ids : Receive(r, "delete", id, NoUpdate)

AuthenticateApiKey(r) ==
  table = "api_key" /\ \E u \in Rows : Receive(r, "authenticate", NoId, u)

RetrieveUser(r) == table = "user" /\ \E id \in Ids : Receive(r, "retrieve", id, NoUpdate)

ListUsers(r) == table = "user" /\ Receive(r, "list", NoId, NoUpdate)

InsertUser(r) == table = "user" /\ \E u \in Rows : Receive(r, "insert", NoId, u)

UpdateUser(r) ==
  table = "user" /\ \E id \in Ids, u \in Updates :
    u[1] = "Update" /\ Receive(r, "update", id, u)

DeleteUser(r) == table = "user" /\ \E id \in Ids : Receive(r, "delete", id, NoUpdate)

Next ==
  \E r \in Requests :
    \/ RetrieveApiKey(r) \/ ListApiKeys(r) \/ InsertApiKey(r) \/ UpsertApiKey(r)
    \/ UpdateApiKey(r) \/ DeleteApiKey(r) \/ AuthenticateApiKey(r)
    \/ RetrieveUser(r) \/ ListUsers(r) \/ InsertUser(r) \/ UpdateUser(r) \/ DeleteUser(r)
    \/ Connect(r) \/ ConnectTimesOut(r)
    \/ Find(r) \/ Authenticate(r) \/ Filter(r) \/ Insert(r)
    \/ UpdateNothing(r) \/ Update(r)
    \/ UpsertInserts(r) \/ Delete(r) \/ QueryFails(r) \/ Respond(r)

Spec == Init /\ [][Next]_vars

-----------------------------------------------------------------------------
(* Properties *)

\* A connection is with one request or idle, and a request that waits for one
\* holds none: update_api_key has returned its own before upsert_api_key goes
\* on to insert, so that upserts cannot starve each other, or themselves in a
\* pool of one.
NoHoldAndWait ==
  /\ free + Cardinality(holds) = PoolSize
  /\ \A r \in Requests : Is(r, Kinds, "connect") => r \notin holds

\* A row that existed during the whole request is not answered with NotFound,
\* whatever others did and whichever statement failed; only a list is.
NotFoundIsHonest ==
  \A r \in Requests :
    (Is(r, Named, "done") /\ req[r].alive)
      => req[r].result \notin {"NotFound", "ValueNotFound"}

=============================================================================
