------------------------------ MODULE KvStore ------------------------------
(***************************************************************************)
(* kv_wrapper of src/crates/storage_impl (redis/kv_store.rs): a record is  *)
(* written to Redis, its query is appended to the drainer's stream, and    *)
(* the row in the database follows when the drainer has executed it.       *)
(* Every Redis command of an operation is a step of its own.               *)
(*                                                                         *)
(* A record is a key of Redis: a field of a hash (Hset, HSetNx, HGet,      *)
(* Scan) or a plain key (SetNx, Get).  Its values are numbered in the      *)
(* order in which they are written to Redis.  The drainer appears only by  *)
(* what Drainer shows of it: it executes the stream in order, at least     *)
(* once, and stops at an update whose row is missing.                      *)
(***************************************************************************)
EXTENDS Naturals, Sequences, FiniteSets

CONSTANTS
  Clients,       \* requests that run at the same time
  HashKeys,      \* records kept in a hash
  PlainKeys,     \* records kept under a key of their own
  Constraint,    \* unique_constraints of a record: the one member it adds
  SafeTTL,       \* a key outlives the entries of its record in the stream
  MaxWrites,     \* bound on the values written
  MaxFaults      \* bound on failed commands, lost connections and crashes

Keys == HashKeys \cup PlainKeys

ASSUME ClientsAssumption == IsFiniteSet(Clients)
ASSUME KeysAssumption == Keys # {} /\ HashKeys \cap PlainKeys = {}
ASSUME LimitsAssumption == MaxWrites \in Nat /\ MaxFaults \in Nat
ASSUME FlagAssumption == SafeTTL \in BOOLEAN

VARIABLES
  kv,          \* the value in Redis, 0 when there is none
  timed,       \* the keys with an expiry
  members,     \* the set unique_constraint:<table>
  log,         \* every entry that was appended to the stream
  trimmed,     \* how many of them were removed from it
  executed,    \* how far the drainer has come since it last started
  db,          \* the row, 0 when there is none
  op,          \* what each client is doing
  writes,      \* values written so far
  floor,       \* the latest acknowledged value of a record
  seen,        \* the records some client knows of
  early,       \* records updated before their insert was acknowledged
  torn,        \* records with a write that failed after Redis had it
  link,        \* the pool is connected
  signalled,   \* on_error has sent its signal
  available,   \* is_redis_available
  faults

store == <<kv, timed, members>>
drain == <<log, trimmed, executed, db>>
history == <<floor, seen, early, torn>>
health == <<link, signalled, available>>
vars == <<store, drain, op, writes, history, health, faults>>

Entry(kind, k, v) == [kind |-> kind, key |-> k, val |-> v]

Idle == [kind |-> "none", key |-> CHOOSE k \in Keys : TRUE,
         at |-> "done", lo |-> 0, val |-> 0]

\* The first step of an operation.
First(kind, k) ==
  CASE kind = "insert" -> IF k \in HashKeys THEN "check" ELSE "write"
    [] kind = "update" -> "write"
    [] OTHER           -> "get"

Init ==
  /\ kv = [k \in Keys |-> 0] /\ timed = {} /\ members = {}
  /\ log = <<>> /\ trimmed = 0 /\ executed = 0
  /\ db = [k \in Keys |-> 0]
  /\ op = [c \in Clients |-> Idle]
  /\ writes = 0
  /\ floor = [k \in Keys |-> 0] /\ seen = {} /\ early = {} /\ torn = {}
  /\ link = TRUE /\ signalled = FALSE /\ available = TRUE
  /\ faults = 0

At(c, at) == op[c].at = at

\* The client may still write a value.
Writing(c) ==
  /\ op[c].kind \in {"insert", "update"} /\ op[c].at \in {"check", "write"}
  /\ op[c].val = 0

Goto(c, at) == op' = [op EXCEPT ![c].at = at]

-----------------------------------------------------------------------------
(* The operations *)

\* kv_wrapper: get_redis_conn, then the first command.  A client updates only
\* a record it has been told of.
Begin(c, kind, k) ==
  /\ At(c, "done") /\ available
  /\ kind \in {"update", "scan"} => k \in HashKeys
  /\ kind = "update" => k \in seen
  /\ kind \in {"insert", "update"} =>
       writes + Cardinality({d \in Clients : Writing(d)}) < MaxWrites
  /\ op' = [op EXCEPT ![c] = [kind |-> kind, key |-> k, at |-> First(kind, k),
                               lo |-> floor[k], val |-> 0]]
  /\ early' = IF kind = "update" /\ floor[k] = 0 THEN early \cup {k} ELSE early
  /\ UNCHANGED <<store, drain, writes, floor, seen, torn, health, faults>>

\* get_redis_conn answers RedisConnectionError, and so does the operation; a
\* read does not go to the database for that.
Unavailable(c) ==
  /\ At(c, "done") /\ ~available /\ op[c] # Idle
  /\ op' = [op EXCEPT ![c] = Idle]
  /\ UNCHANGED <<store, drain, writes, history, health, faults>>

\* Mutant of Sadd: a member that was there counts as added.
SaddAlways(k) == TRUE

\* SADD replies how many members were added: 1 is KeySet, 0 is KeyNotSet.
Sadd(k) == Constraint[k] \notin members

\* check_for_constraints.  HSetNx asks first, SetNx after its SET.
Check(c) ==
  LET k == op[c].key IN
  /\ At(c, "check") /\ link
  /\ members' = members \cup {Constraint[k]}
  /\ Goto(c, IF Sadd(k) /\ k \in HashKeys THEN "write"
             ELSE IF Sadd(k) /\ op[c].val # 0 THEN "push"
             ELSE "error")
  /\ UNCHANGED <<kv, timed, drain, writes, history, health, faults>>

\* The command takes effect if set; the operation goes on with the reply.
Stored(c, set, next) ==
  LET k == op[c].key IN
  /\ kv' = IF set THEN [kv EXCEPT ![k] = writes + 1] ELSE kv
  /\ writes' = IF set THEN writes + 1 ELSE writes
  /\ op' = [op EXCEPT ![c].val = IF set THEN writes + 1 ELSE 0, ![c].at = next]
  /\ UNCHANGED <<members, drain, history, health, faults>>

\* set_hash_fields: HSET; the expiry is a command of its own.
SetHashFields(c) ==
  /\ At(c, "write") /\ link /\ op[c].kind = "update"
  /\ Stored(c, TRUE, "expire")
  /\ UNCHANGED timed

\* set_hash_field_if_not_exist: HSETNX.
SetHashFieldIfNotExist(c) ==
  /\ At(c, "write") /\ link /\ op[c].kind = "insert" /\ op[c].key \in HashKeys
  /\ Stored(c, kv[op[c].key] = 0, "expire")
  /\ UNCHANGED timed

\* serialize_and_set_key_if_not_exist: SET NX EX.
SetKeyIfNotExist(c) ==
  LET k == op[c].key IN
  /\ At(c, "write") /\ link /\ op[c].kind = "insert" /\ k \in PlainKeys
  /\ Stored(c, kv[k] = 0, "check")
  /\ timed' = IF kv[k] = 0 THEN timed \cup {k} ELSE timed

\* set_expiry, for a value that was refused too; EXPIRE of a key that is gone
\* changes nothing.
SetExpiry(c) ==
  LET k == op[c].key IN
  /\ At(c, "expire") /\ link
  /\ timed' = IF kv[k] = 0 THEN timed ELSE timed \cup {k}
  /\ Goto(c, IF op[c].val # 0 THEN "push" ELSE "error")
  /\ UNCHANGED <<kv, members, drain, writes, history, health, faults>>

\* Mutant of Push: an error of the stream is logged and the write acknowledged.
PushUnchecked(c) ==
  LET k == op[c].key IN
  /\ At(c, "push")
  /\ log' \in {log, Append(log, Entry(op[c].kind, k, op[c].val))}
  /\ floor' = [floor EXCEPT ![k] = IF @ < op[c].val THEN op[c].val ELSE @]
  /\ seen' = seen \cup {k}
  /\ op' = [op EXCEPT ![c] = Idle]
  /\ UNCHANGED <<store, trimmed, executed, db, writes, early, torn, health, faults>>

\* push_to_drainer_stream, and the answer.
Push(c) ==
  LET k == op[c].key IN
  /\ At(c, "push") /\ link
  /\ log' = Append(log, Entry(op[c].kind, k, op[c].val))
  /\ floor' = [floor EXCEPT ![k] = IF @ < op[c].val THEN op[c].val ELSE @]
  /\ seen' = seen \cup {k}
  /\ op' = [op EXCEPT ![c] = Idle]
  /\ UNCHANGED <<store, trimmed, executed, db, writes, early, torn, health, faults>>

\* Mutant of Get: a miss is answered as not found.
GetOnly(c) ==
  LET k == op[c].key IN
  /\ At(c, "get") /\ link
  /\ op' = [op EXCEPT ![c].at = "done", ![c].val = kv[k]]
  /\ seen' = IF kv[k] = 0 THEN seen ELSE seen \cup {k}
  /\ UNCHANGED <<store, drain, writes, floor, early, torn, health, faults>>

\* HGET, GET or HSCAN.
Get(c) ==
  LET k == op[c].key IN
  /\ At(c, "get") /\ link
  /\ IF kv[k] = 0
       THEN Goto(c, "db") /\ seen' = seen
       ELSE /\ op' = [op EXCEPT ![c].at = "done", ![c].val = kv[k]]
            /\ seen' = seen \cup {k}
  /\ UNCHANGED <<store, drain, writes, floor, early, torn, health, faults>>

\* try_redis_get_else_try_database_get: NotFound in Redis.
DatabaseGet(c) ==
  LET k == op[c].key IN
  /\ At(c, "db")
  /\ op' = [op EXCEPT ![c].at = "done", ![c].val = db[k]]
  /\ seen' = IF db[k] = 0 THEN seen ELSE seen \cup {k}
  /\ UNCHANGED <<store, drain, writes, floor, early, torn, health, faults>>

\* The error is answered.
Answer(c) ==
  /\ At(c, "error")
  /\ op' = [op EXCEPT ![c] = Idle]
  /\ UNCHANGED <<store, drain, writes, history, health, faults>>

\* Its value is in Redis and not in the stream yet.
Pending(c) == op[c].kind \in {"insert", "update"} /\ op[c].val # 0
              /\ op[c].at \in {"expire", "check", "push"}

\* hscan logs an error and looks empty, which sends the caller to the database.
ScanFails(c) ==
  /\ At(c, "get") /\ op[c].kind = "scan"
  /\ link => faults < MaxFaults
  /\ faults' = IF link THEN faults + 1 ELSE faults
  /\ Goto(c, "db")
  /\ UNCHANGED <<store, drain, writes, history, health>>

\* A command of another operation fails, which answers the error.
Fail(c) ==
  /\ op[c].kind # "scan"
  /\ op[c].at \in {"get", "check", "write", "expire", "push"}
  /\ link => faults < MaxFaults
  /\ faults' = IF link THEN faults + 1 ELSE faults
  /\ Goto(c, "error")
  /\ torn' = IF Pending(c) THEN torn \cup {op[c].key} ELSE torn
  /\ UNCHANGED <<store, drain, writes, floor, seen, early, health>>

\* The entry is in the stream, the reply is lost.
PushLost(c) ==
  /\ At(c, "push") /\ link /\ faults < MaxFaults
  /\ faults' = faults + 1
  /\ log' = Append(log, Entry(op[c].kind, op[c].key, op[c].val))
  /\ Goto(c, "error")
  /\ UNCHANGED <<store, trimmed, executed, db, writes, history, health>>

-----------------------------------------------------------------------------
(* Redis, the drainer, the process *)

InStream(k) == \E i \in (trimmed + 1)..Len(log) : log[i].key = k

Expire(k) ==
  /\ k \in timed
  /\ SafeTTL => ~InStream(k) /\ \A c \in Clients : Pending(c) => op[c].key # k
  /\ kv' = [kv EXCEPT ![k] = 0]
  /\ timed' = timed \ {k}
  /\ UNCHANGED <<members, drain, op, writes, history, health, faults>>

\* The next entry is an update of a row that is not there.
Blocked ==
  /\ executed < Len(log)
  /\ log[executed + 1].kind = "update" /\ db[log[executed + 1].key] = 0

Execute ==
  LET e == log[executed + 1] IN
  /\ executed < Len(log) /\ ~Blocked
  /\ db' = IF e.kind = "insert" /\ db[e.key] # 0 THEN db
           ELSE [db EXCEPT ![e.key] = e.val]
  /\ executed' = executed + 1
  /\ UNCHANGED <<store, log, trimmed, op, writes, history, health, faults>>

\* Mutant of Trim: the whole stream is removed.
TrimAll ==
  /\ trimmed < executed
  /\ trimmed' = Len(log)
  /\ UNCHANGED <<store, log, executed, db, op, writes, history, health, faults>>

\* trim_from_stream, at the end of a session.
Trim ==
  /\ trimmed < executed
  /\ trimmed' = executed
  /\ UNCHANGED <<store, log, executed, db, op, writes, history, health, faults>>

\* The drainer restarts before it has trimmed what it executed.
Redeliver ==
  /\ trimmed < executed /\ faults < MaxFaults
  /\ executed' = trimmed /\ faults' = faults + 1
  /\ UNCHANGED <<store, log, trimmed, db, op, writes, history, health>>

\* The pool gives up reconnecting.
Disconnect ==
  /\ link /\ faults < MaxFaults
  /\ link' = FALSE /\ faults' = faults + 1
  /\ UNCHANGED <<store, drain, op, writes, history, signalled, available>>

\* on_error: the signal first, whether or not anybody holds its receiver (in the
\* application nobody does), the flag afterwards.
OnErrorSend ==
  /\ ~link /\ ~signalled
  /\ signalled' = TRUE
  /\ UNCHANGED <<store, drain, op, writes, history, link, available, faults>>

OnErrorStore ==
  /\ signalled /\ available
  /\ available' = FALSE
  /\ UNCHANGED <<store, drain, op, writes, history, link, signalled, faults>>

\* What the process held is gone; RedisConnectionPool::new connects again.
Restarted ==
  /\ op' = [c \in Clients |-> Idle]
  /\ torn' = torn \cup {op[c].key : c \in {d \in Clients : Pending(d)}}
  /\ link' = TRUE /\ signalled' = FALSE /\ available' = TRUE
  /\ UNCHANGED <<store, drain, writes, floor, seen, early>>

\* Whoever runs the process may start it again once it has lost Redis.  Nothing
\* in the code makes sure that it happens.
Restart ==
  /\ ~link /\ Restarted
  /\ UNCHANGED faults

Crash ==
  /\ faults < MaxFaults /\ Restarted
  /\ faults' = faults + 1

-----------------------------------------------------------------------------

Step(c) ==
  \/ Check(c) \/ SetHashFields(c) \/ SetHashFieldIfNotExist(c) \/ SetKeyIfNotExist(c)
  \/ SetExpiry(c) \/ Push(c)
  \/ Get(c) \/ DatabaseGet(c) \/ Answer(c)
  \/ ~link /\ (Fail(c) \/ ScanFails(c))

Next ==
  \/ \E c \in Clients, kind \in {"insert", "update", "read", "scan"}, k \in Keys :
       Begin(c, kind, k)
  \/ \E c \in Clients : Step(c) \/ Unavailable(c) \/ (link /\ (Fail(c) \/ ScanFails(c))) \/ PushLost(c)
  \/ \E k \in Keys : Expire(k)
  \/ Execute \/ Trim \/ Redeliver
  \/ Disconnect \/ OnErrorSend \/ OnErrorStore \/ Restart \/ Crash

Spec == Init /\ [][Next]_vars

\* A request under way is polled; the drainer keeps draining.
Fairness ==
  /\ \A c \in Clients : WF_vars(Step(c))
  /\ WF_vars(Execute) /\ WF_vars(Trim)

FairSpec == Spec /\ Fairness

-----------------------------------------------------------------------------
(* Properties *)

Values == 0..MaxWrites

Entries == [kind : {"insert", "update"}, key : Keys, val : Values \ {0}]

Ops ==
  [kind: {"none", "insert", "update", "read", "scan"}, key: Keys,
   at: {"check", "write", "expire", "push", "get", "db", "error", "done"},
   lo: Values, val: Values]

\* Every variable has its type: no more values are written than the bound
\* allows, only a key that exists has an expiry, and the drainer is never ahead
\* of the stream nor behind what was removed from it.
TypeOK ==
  /\ kv \in [Keys -> Values] /\ db \in [Keys -> Values] /\ floor \in [Keys -> Values]
  /\ writes \in Values
  /\ timed \subseteq {k \in Keys : kv[k] # 0}
  /\ members \subseteq {Constraint[k] : k \in Keys}
  /\ log \in Seq(Entries)
  /\ trimmed \in 0..executed /\ executed \in 0..Len(log)
  /\ op \in [Clients -> Ops]
  /\ seen \subseteq Keys /\ early \subseteq Keys /\ torn \subseteq Keys
  /\ link \in BOOLEAN /\ signalled \in BOOLEAN /\ available \in BOOLEAN
  /\ faults \in 0..MaxFaults

\* The stream never holds two inserts with the same unique constraint, of one
\* record or of two, although Redis forgets the record after its TTL and every
\* command of HSetNx and SetNx may fail or be the last before a crash.
UniqueInserted ==
  \A i, j \in 1..Len(log) :
    (i # j /\ log[i].kind = "insert" /\ log[j].kind = "insert") =>
      Constraint[log[i].key] # Constraint[log[j].key]

\* Two updates whose pushes overtook each other.
Overtaken(k) ==
  \E i, j \in 1..Len(log) :
    i < j /\ log[i].key = k /\ log[j].key = k /\ log[i].val > log[j].val

\* A read answers at least the latest value acknowledged before it began, be
\* it from Redis or, after the expiry, from the database, unless two updates of
\* the record overtook each other between HSET and XADD.  A scan does so only
\* as long as no command fails, for it takes an error for an empty hash.
ReadsAcknowledged ==
  \A c \in Clients :
    LET o == op[c] IN
    (/\ SafeTTL /\ At(c, "done") /\ ~Overtaken(o.key)
     /\ o.kind = "read" \/ (o.kind = "scan" /\ faults = 0))
      => o.val >= o.lo

\* What Redis shows of a record is in the stream or on its way to it, unless a
\* command failed or the process ended between the two; or it is a plain key
\* whose constraint was taken, for SetNx writes the value before it asks and
\* leaves it there.
RedisIsLogged ==
  \A k \in Keys \ torn :
    kv[k] # 0 =>
      \/ \E i \in 1..Len(log) : log[i].key = k /\ log[i].val = kv[k]
      \/ \E c \in Clients : Pending(c) /\ op[c].key = k /\ op[c].val = kv[k]
      \/ k \in PlainKeys /\ Constraint[k] \in members

\* The drainer stands before an update without a row only where a client had
\* updated a record it read before its insert was acknowledged.
BlockedIsEarly == Blocked => log[executed + 1].key \in early

\* What was acknowledged reaches the database, unless the partition is blocked
\* or the update was overtaken.
EventuallyPersisted ==
  \A k \in Keys :
    (db[k] < floor[k]) ~> (db[k] >= floor[k] \/ Blocked \/ Overtaken(k))

=============================================================================
