---------------------------- MODULE HealthCheck ----------------------------
(***************************************************************************)
(* The deep health checks of a drainer: src/crates/drainer/src/            *)
(* health_check.rs.  Checks run at the same time and share one test key    *)
(* and one test stream, so that one may read, delete or trim what another  *)
(* wrote.  Entries of the stream are their numbers, in the order of XADD.    *)
(***************************************************************************)
EXTENDS Naturals, FiniteSets

CONSTANTS
  Checks,      \* requests for /health/ready that run at the same time
  ReadCount,   \* entries of one XREAD
  MaxAppends,  \* bound on the entries ever appended
  MaxFaults    \* bound on the checks that fail

VARIABLES
  key,         \* test_key exists
  stream,      \* the entries of TEST_STREAM_0
  appended,    \* entries ever appended
  check,       \* where each check is, and the id it will trim to
  clean,       \* no call of the check has failed
  faults

vars == <<key, stream, appended, check, clean, faults>>

Steps == {"idle", "db", "connect", "set", "get", "delete", "append", "read", "trim",
          "healthy", "DbError", "RedisError", "aborted"}

Init ==
  /\ key = FALSE /\ stream = {} /\ appended = 0
  /\ check = [c \in Checks |-> [at |-> "idle", id |-> 0]]
  /\ clean = [c \in Checks |-> TRUE]
  /\ faults = 0

Goes(c, from, to) == check[c].at = from /\ check' = [check EXCEPT ![c].at = to]

\* GET /health/ready
Begin(c) ==
  /\ Goes(c, "idle", "db")
  /\ UNCHANGED <<key, stream, appended, clean, faults>>

\* The transaction of health_check_db.
CheckDb(c) ==
  /\ Goes(c, "db", "connect")
  /\ UNCHANGED <<key, stream, appended, clean, faults>>

\* redis_connection: a pool of its own for every check.
RedisConnection(c) ==
  /\ Goes(c, "connect", "set")
  /\ UNCHANGED <<key, stream, appended, clean, faults>>

SetTestKey(c) ==
  /\ Goes(c, "set", "get")
  /\ key' = TRUE
  /\ UNCHANGED <<stream, appended, clean, faults>>

\* The value is read as (): a key that is gone is no error.
GetTestKey(c) ==
  /\ Goes(c, "get", "delete")
  /\ UNCHANGED <<key, stream, appended, clean, faults>>

\* KeyNotDeleted is no error.
DeleteTestKey(c) ==
  /\ Goes(c, "delete", "append")
  /\ key' = FALSE
  /\ UNCHANGED <<stream, appended, clean, faults>>

\* The key lives for 30 seconds.
ExpireTestKey ==
  /\ key /\ key' = FALSE
  /\ UNCHANGED <<stream, appended, check, clean, faults>>

AppendEntry(c) ==
  /\ appended < MaxAppends
  /\ Goes(c, "append", "read")
  /\ appended' = appended + 1
  /\ stream' = stream \cup {appended + 1}
  /\ UNCHANGED <<key, clean, faults>>

\* The entry is appended and the reply is lost.
AppendReplyLost(c) ==
  /\ appended < MaxAppends /\ faults < MaxFaults
  /\ Goes(c, "append", "RedisError")
  /\ appended' = appended + 1 /\ faults' = faults + 1
  /\ stream' = stream \cup {appended + 1}
  /\ clean' = [clean EXCEPT ![c] = FALSE]
  /\ UNCHANGED key

\* XREAD COUNT n from 0-0: the n oldest entries.
StreamReadEntries(n) == {i \in stream : Cardinality({j \in stream : j < i}) < n}

\* The id of the last entry read is the one to trim to, and an empty stream is
\* StreamReadFailed.
Read(c) ==
  /\ check[c].at = "read"
  /\ \/ /\ stream = {}
        /\ check' = [check EXCEPT ![c].at = "RedisError"]
     \/ \E last \in StreamReadEntries(ReadCount) :
          /\ \A e \in StreamReadEntries(ReadCount) : e <= last
          /\ check' = [check EXCEPT ![c] = [at |-> "trim", id |-> last]]
  /\ UNCHANGED <<key, stream, appended, clean, faults>>

\* Mutant of Trim: the last entry that was read goes too.
TrimAfter(c) ==
  /\ Goes(c, "trim", "healthy")
  /\ stream' = {e \in stream : e > check[c].id}
  /\ UNCHANGED <<key, appended, clean, faults>>

\* Mutant of Trim: the id of the oldest entry is passed.
TrimNothing(c) ==
  /\ Goes(c, "trim", "healthy")
  /\ UNCHANGED <<key, stream, appended, clean, faults>>

\* XTRIM MINID = id: what is older goes, the entry itself stays.
Trim(c) ==
  /\ Goes(c, "trim", "healthy")
  /\ stream' = {e \in stream : check[c].id <= e}
  /\ UNCHANGED <<key, appended, clean, faults>>

\* A statement of the transaction or a command of Redis fails.
Fails(c) ==
  /\ check[c].at \in {"db", "set", "get", "delete", "append", "read", "trim"}
  /\ faults < MaxFaults /\ faults' = faults + 1
  /\ check' = [check EXCEPT ![c].at = IF @ = "db" THEN "DbError" ELSE "RedisError"]
  /\ clean' = [clean EXCEPT ![c] = FALSE]
  /\ UNCHANGED <<key, stream, appended>>

\* No connection: pg_connection and redis_connection panic.  A caller that
\* hangs up drops the check where it stands.
Abort(c) ==
  /\ check[c].at \in {"db", "connect", "set", "get", "delete", "append", "read", "trim"}
  /\ faults < MaxFaults /\ faults' = faults + 1
  /\ check' = [check EXCEPT ![c].at = "aborted"]
  /\ clean' = [clean EXCEPT ![c] = FALSE]
  /\ UNCHANGED <<key, stream, appended>>

\* The answer: 200, or 500 with the error.
Answer(c) ==
  /\ check[c].at \in {"healthy", "DbError", "RedisError", "aborted"}
  /\ check' = [check EXCEPT ![c] = [at |-> "idle", id |-> 0]]
  /\ clean' = [clean EXCEPT ![c] = TRUE]
  /\ UNCHANGED <<key, stream, appended, faults>>

Next ==
  \/ ExpireTestKey
  \/ \E c \in Checks :
       \/ Begin(c) \/ CheckDb(c) \/ RedisConnection(c)
       \/ SetTestKey(c) \/ GetTestKey(c) \/ DeleteTestKey(c)
       \/ AppendEntry(c) \/ AppendReplyLost(c) \/ Read(c) \/ Trim(c)
       \/ Fails(c) \/ Abort(c) \/ Answer(c)

Spec == Init /\ [][Next]_vars

-----------------------------------------------------------------------------
(* Properties *)

\* A check all of whose calls succeed is answered as healthy, although others
\* delete its key and trim its entry while it runs.
HealthyIsReported ==
  \A c \in Checks : clean[c] => check[c].at \notin {"DbError", "RedisError"}

\* The test stream does not grow with the number of checks: it holds one
\* entry, those of the checks that are not done, and one for each that failed,
\* although checks at the same time trim to the same entry.  It takes fewer
\* checks at a time than one XREAD returns entries (ten): as many that all read
\* before the first trims leave more behind than they take away.
LeftoverBounded ==
  Cardinality(Checks) < ReadCount =>
    Cardinality(stream)
      <= 1 + faults + Cardinality({c \in Checks : check[c].at \in {"read", "trim"}})

=============================================================================
