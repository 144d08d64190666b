------------------------------ MODULE Drainer ------------------------------
(***************************************************************************)
(* The drainer (src/crates/drainer): processes that move queries from the  *)
(* partitions of a Redis stream into PostgreSQL.                           *)
(*                                                                         *)
(* A process runs one loop (Handler::spawn) that visits the partitions in  *)
(* turn.  It takes a partition by SET NX on its "in use" flag and then     *)
(* spawns a handler task (drainer_handler) that reads a batch, executes    *)
(* its entries in order, trims what it executed and deletes the flag.  A   *)
(* listener task waits for a shutdown request and stops the loop.          *)
(*                                                                         *)
(* Entry identifiers are 1, 2, 3, ... in the order of their XADD; log[i]   *)
(* is the query carried by entry i.  Every awaited call is one step, so    *)
(* that other tasks, other processes, a crash, a lost reply or the expiry  *)
(* of a flag may come between any two of them.                             *)
(***************************************************************************)
EXTENDS Integers, Sequences, FiniteSets

CONSTANTS
  Instances,       \* drainer processes
  Tasks,           \* slots for handler tasks (bound: tokio::spawn has none)
  Owner,           \* the process a slot belongs to
  NumPartitions,   \* DrainerSettings.num_partitions, a u8
  MaxReadCount,    \* DrainerSettings.max_read_count
  Keys,            \* database rows
  Shard,           \* the partition of a key (kv_store.rs, shard_key)
  Kinds,           \* what the entries carry: insert, update or garbage
  SafeTTL,         \* does a flag outlive the handler that relies on it?
  MaxEntries,      \* bound on pushed entries
  MaxFaults,       \* bound on Redis and database errors, panics and crashes
  MaxShutdowns     \* bound on shutdown requests

Streams == 0 .. NumPartitions - 1

AllKinds == {"insert", "update", "garbage"}

ASSUME PartitionsAssumption == NumPartitions \in 1 .. 255
ASSUME ReadCountAssumption == MaxReadCount \in Nat \ {0}
ASSUME OwnerAssumption == Owner \in [Tasks -> Instances]
ASSUME ShardAssumption == Shard \in [Keys -> Streams]
ASSUME KindsAssumption == Kinds \subseteq AllKinds
ASSUME SafeTTLAssumption == SafeTTL \in BOOLEAN
ASSUME BoundsAssumption ==
  MaxEntries \in Nat /\ MaxFaults \in Nat /\ MaxShutdowns \in Nat

VARIABLES
  log,        \* every entry pushed so far, in order
  stream,     \* Redis: the entries each partition still holds
  flag,       \* Redis: is the partition's "in use" key set?
  row,        \* PostgreSQL: the entry that last wrote a row, 0 if there is none
  done,       \* history: the entries some handler counted as processed
  loop,       \* each process: where its loop stands, or "down"
  idx,        \* each process: stream_index
  running,    \* each process: Handler.running
  active,     \* each process: Handler.active_tasks
  listener,   \* each process: where shutdown_listener stands
  pc,         \* each handler task: its next step
  on,         \* each handler task: its partition
  batch,      \* each handler task: the entries it read
  last,       \* each handler task: last_processed_id, 0 for the empty string
  trimmed,    \* each handler task: what XTRIM answered
  faults, shutdowns

redis     == <<stream, flag>>
database  == <<row, done>>
process   == <<loop, idx, running, active, listener>>
handler   == <<pc, on, batch, last, trimmed>>
budget    == <<faults, shutdowns>>
vars      == <<log, redis, database, process, handler, budget>>

-----------------------------------------------------------------------------
(* Redis and PostgreSQL *)

Entry == [key : Keys, kind : AllKinds]

Ids == 1 .. Len(log)

StreamOf(i) == Shard[log[i].key]

\* XREAD COUNT n from 0-0: the n oldest entries of a partition.
StreamReadEntries(S, n) == {i \in S : Cardinality({j \in S : j < i}) < n}

\* XTRIM MINID m: the entries from m on remain.
StreamTrimEntries(S, m) == {i \in S : m <= i}

\* XDEL m.
StreamDeleteEntries(S, m) == S \ {m}

Fault == faults < MaxFaults /\ faults' = faults + 1

-----------------------------------------------------------------------------
(* The tasks of a process *)

\* The steps at which a handler owns its partition: from the SET NX that led
\* to it until its DEL of the flag.
HoldingSteps == {"spawned", "read", "exec", "trim", "del", "unlock"}

Holding(t) == pc[t] \in HoldingSteps

\* The entries of the batch that the handler has not processed yet.
Todo(t) == {i \in batch[t] : last[t] < i}

\* Mutants: the wrap tested one too late; the index never advanced.
IncrementTooFar(x) == IF x = NumPartitions THEN 0 ELSE x + 1
IncrementStuck(x) == x

IncrementStreamIndex(x) == IF x = NumPartitions - 1 THEN 0 ELSE x + 1

\* Handler tasks end and their slots are free: they returned, panicked, or
\* their runtime was dropped.
Idle(T) ==
  /\ pc' = [t \in Tasks |-> IF t \in T THEN "idle" ELSE pc[t]]
  /\ on' = [t \in Tasks |-> IF t \in T THEN 0 ELSE on[t]]
  /\ batch' = [t \in Tasks |-> IF t \in T THEN {} ELSE batch[t]]
  /\ last' = [t \in Tasks |-> IF t \in T THEN 0 ELSE last[t]]
  /\ trimmed' = [t \in Tasks |-> IF t \in T THEN 0 ELSE trimmed[t]]

\* The process ends: its tasks are dropped where they stand and its memory is
\* lost.  Whatever its tasks had set in Redis stays.
Die(i) ==
  /\ Idle({t \in Tasks : Owner[t] = i})
  /\ loop' = [loop EXCEPT ![i] = "down"]
  /\ idx' = [idx EXCEPT ![i] = 0]
  /\ running' = [running EXCEPT ![i] = TRUE]
  /\ active' = [active EXCEPT ![i] = 0]
  /\ listener' = [listener EXCEPT ![i] = "recv"]
  /\ UNCHANGED <<log, redis, database>>

-----------------------------------------------------------------------------
Init ==
  /\ log = <<>>
  /\ stream = [s \in Streams |-> {}]
  /\ flag = [s \in Streams |-> FALSE]
  /\ row = [k \in Keys |-> 0]
  /\ done = {}
  /\ loop = [i \in Instances |-> "check"]
  /\ idx = [i \in Instances |-> 0]
  /\ running = [i \in Instances |-> TRUE]
  /\ active = [i \in Instances |-> 0]
  /\ listener = [i \in Instances |-> "recv"]
  /\ pc = [t \in Tasks |-> "idle"]
  /\ on = [t \in Tasks |-> 0]
  /\ batch = [t \in Tasks |-> {}]
  /\ last = [t \in Tasks |-> 0]
  /\ trimmed = [t \in Tasks |-> 0]
  /\ faults = 0
  /\ shutdowns = 0

-----------------------------------------------------------------------------
(* The application that fills the streams (push_to_drainer_stream) *)

Push(k, kind) ==
  /\ Len(log) < MaxEntries
  /\ log' = Append(log, [key |-> k, kind |-> kind])
  /\ stream' = [stream EXCEPT ![Shard[k]] = @ \cup {Len(log) + 1}]
  /\ UNCHANGED <<flag, database, process, handler, budget>>

\* The flag's expiry runs out.  Under SafeTTL only a flag that no live handler
\* relies on gets that old: one left by a process that died, by a task that
\* panicked or by a call whose reply was lost.
Expire(s) ==
  /\ flag[s]
  /\ SafeTTL => \A t \in Tasks : Holding(t) => on[t] # s
  /\ flag' = [flag EXCEPT ![s] = FALSE]
  /\ UNCHANGED <<log, stream, database, process, handler, budget>>

-----------------------------------------------------------------------------
(* Handler::spawn *)

LoopCheck(i) ==
  /\ loop[i] = "check"
  /\ loop' = [loop EXCEPT ![i] = IF running[i] THEN "lock" ELSE "exit"]
  /\ UNCHANGED <<log, redis, database, idx, running, active, listener,
                 handler, budget>>

\* The loop's turn ends with the next partition, whatever became of this one.
NextPartition(i) ==
  /\ loop[i] = "lock"
  /\ loop' = [loop EXCEPT ![i] = "check"]
  /\ idx' = [idx EXCEPT ![i] = IncrementStreamIndex(idx[i])]
  /\ UNCHANGED <<log, stream, database, running, active, listener, shutdowns>>

\* Mutant: the flag is set without NX.
TakeStreamAnyway(i, t) ==
  /\ Owner[t] = i /\ pc[t] = "idle"
  /\ flag' = [flag EXCEPT ![idx[i]] = TRUE]
  /\ pc' = [pc EXCEPT ![t] = "spawned"]
  /\ on' = [on EXCEPT ![t] = idx[i]]
  /\ UNCHANGED <<batch, last, trimmed, faults>>
  /\ NextPartition(i)

\* SET NX answers that the key was set: a handler is spawned.
TakeStream(i, t) ==
  /\ ~flag[idx[i]]
  /\ Owner[t] = i /\ pc[t] = "idle"
  /\ flag' = [flag EXCEPT ![idx[i]] = TRUE]
  /\ pc' = [pc EXCEPT ![t] = "spawned"]
  /\ on' = [on EXCEPT ![t] = idx[i]]
  /\ UNCHANGED <<batch, last, trimmed, faults>>
  /\ NextPartition(i)

StreamTaken(i) ==
  /\ flag[idx[i]]
  /\ UNCHANGED <<flag, handler, faults>>
  /\ NextPartition(i)

\* The call fails, before or after the key was set.
LockFails(i) ==
  /\ Fault
  /\ \/ UNCHANGED flag
     \/ flag' = [flag EXCEPT ![idx[i]] = TRUE]
  /\ UNCHANGED handler
  /\ NextPartition(i)

-----------------------------------------------------------------------------
(* drainer_handler and drainer *)

\* A handler step that leaves the process, the flags and the budgets alone.
OnlyData == UNCHANGED <<log, flag, process, budget>>

\* Mutant: the handler is not counted.
StartUncounted(t) ==
  /\ pc[t] = "spawned"
  /\ pc' = [pc EXCEPT ![t] = "read"]
  /\ UNCHANGED <<log, redis, database, process, on, batch, last, trimmed,
                 budget>>

Start(t) ==
  /\ pc[t] = "spawned"
  /\ active' = [active EXCEPT ![Owner[t]] = @ + 1]
  /\ pc' = [pc EXCEPT ![t] = "read"]
  /\ UNCHANGED <<log, redis, database, loop, idx, running, listener,
                 on, batch, last, trimmed, budget>>

\* An empty stream is an answer of its own, which ends the session.
Read(t) ==
  /\ pc[t] = "read"
  /\ LET B == StreamReadEntries(stream[on[t]], MaxReadCount) IN
       /\ batch' = [batch EXCEPT ![t] = B]
       /\ pc' = [pc EXCEPT ![t] = IF B = {} THEN "unlock" ELSE "exec"]
  /\ OnlyData
  /\ UNCHANGED <<stream, database, on, last, trimmed>>

\* A call of the session fails: drainer returns the error and drainer_handler
\* goes on to release the partition.
SessionFails(t) ==
  /\ Fault
  /\ pc' = [pc EXCEPT ![t] = "unlock"]
  /\ UNCHANGED <<log, flag, database, process, on, batch, last, trimmed,
                 shutdowns>>

ReadFails(t) ==
  /\ pc[t] = "read"
  /\ SessionFails(t)
  /\ UNCHANGED stream

\* After the loop over the entries: trim up to the last processed one, if any.
AfterLoop(l) == IF l = 0 THEN "unlock" ELSE "trim"

\* The loop over the entries has come to entry e.
Executing(t, e) ==
  /\ pc[t] = "exec"
  /\ e \in Todo(t)
  /\ \A j \in Todo(t) : e <= j

\* The query succeeded, or it is an insert whose row exists: the unique
\* violation cannot be repaired, so the entry counts as processed.
Processed(t, e) ==
  /\ last' = [last EXCEPT ![t] = e]
  /\ done' = done \cup {e}
  /\ OnlyData
  /\ UNCHANGED <<stream, pc, on, batch, trimmed>>

Applies(e) ==
  \/ log[e].kind = "insert" /\ row[log[e].key] = 0
  \/ log[e].kind = "update" /\ row[log[e].key] # 0

Apply(t, e) ==
  /\ Executing(t, e)
  /\ Applies(e)
  /\ row' = [row EXCEPT ![log[e].key] = e]
  /\ Processed(t, e)

UniqueViolation(t, e) ==
  /\ Executing(t, e)
  /\ log[e].kind = "insert" /\ row[log[e].key] # 0
  /\ Processed(t, e)
  /\ UNCHANGED row

\* The loop over the entries breaks.
Break(t) ==
  /\ pc' = [pc EXCEPT ![t] = AfterLoop(last[t])]
  /\ UNCHANGED <<log, redis, process, on, batch, last, trimmed, shutdowns>>

\* An entry that does not deserialize, or an update of a row that does not
\* exist (NotFound), breaks the loop before it is processed.
Blocked(e) ==
  \/ log[e].kind = "garbage"
  \/ log[e].kind = "update" /\ row[log[e].key] = 0

\* Mutant: an entry that cannot be executed is skipped, as a unique violation is.
SkipEntry(t, e) ==
  /\ Executing(t, e)
  /\ Blocked(e)
  /\ last' = [last EXCEPT ![t] = e]
  /\ OnlyData
  /\ UNCHANGED <<stream, database, pc, on, batch, trimmed>>

BreakOnEntry(t, e) ==
  /\ Executing(t, e)
  /\ Blocked(e)
  /\ Break(t)
  /\ UNCHANGED <<database, faults>>

\* Mutant: every database error counts as processed.
QueryErrorIgnored(t, e) ==
  /\ Executing(t, e)
  /\ Fault
  /\ last' = [last EXCEPT ![t] = e]
  /\ done' = done \cup {e}
  /\ UNCHANGED <<log, redis, row, process, pc, on, batch, trimmed, shutdowns>>

\* Any other database error; the statement may have been committed.
QueryFails(t, e) ==
  /\ Executing(t, e)
  /\ log[e].kind # "garbage"
  /\ Fault
  /\ \/ UNCHANGED row
     \/ Applies(e) /\ row' = [row EXCEPT ![log[e].key] = e]
  /\ Break(t)
  /\ UNCHANGED done

\* pg_connection: expect() on the pool's timeout panics in the task, which
\* ends without releasing the partition and without leaving active_tasks.
ConnectionPanics(t, e) ==
  /\ Executing(t, e)
  /\ log[e].kind # "garbage"
  /\ Fault
  /\ Idle({t})
  /\ UNCHANGED <<log, redis, database, process, shutdowns>>

EndOfBatch(t) ==
  /\ pc[t] = "exec" /\ Todo(t) = {}
  /\ Break(t)
  /\ UNCHANGED <<database, faults>>

\* Mutant: the whole batch is trimmed, not the processed part of it.
TrimWholeBatch(t) ==
  /\ pc[t] = "trim"
  /\ stream' = [stream EXCEPT ![on[t]] = @ \ batch[t]]
  /\ pc' = [pc EXCEPT ![t] = "del"]
  /\ OnlyData
  /\ UNCHANGED <<database, on, batch, last, trimmed>>

Trim(t) ==
  /\ pc[t] = "trim"
  /\ LET S == StreamTrimEntries(stream[on[t]], last[t]) IN
       /\ stream' = [stream EXCEPT ![on[t]] = S]
       /\ trimmed' = [trimmed EXCEPT ![t] = Cardinality(stream[on[t]] \ S)]
  /\ pc' = [pc EXCEPT ![t] = "del"]
  /\ OnlyData
  /\ UNCHANGED <<database, on, batch, last>>

TrimFails(t) ==
  /\ pc[t] = "trim"
  /\ SessionFails(t)
  /\ \/ UNCHANGED stream
     \/ stream' = [stream EXCEPT ![on[t]] = StreamTrimEntries(@, last[t])]

Delete(t) ==
  /\ pc[t] = "del"
  /\ stream' = [stream EXCEPT ![on[t]] = StreamDeleteEntries(@, last[t])]
  /\ pc' = [pc EXCEPT ![t] = "unlock"]
  /\ OnlyData
  /\ UNCHANGED <<database, on, batch, last, trimmed>>

DeleteFails(t) ==
  /\ pc[t] = "del"
  /\ SessionFails(t)
  /\ \/ UNCHANGED stream
     \/ stream' = [stream EXCEPT ![on[t]] = StreamDeleteEntries(@, last[t])]

\* make_stream_available: DEL, whoever set the flag.
Unlock(t) ==
  /\ pc[t] = "unlock"
  /\ flag' = [flag EXCEPT ![on[t]] = FALSE]
  /\ pc' = [pc EXCEPT ![t] = "leave"]
  /\ UNCHANGED <<log, stream, database, process, on, batch, last, trimmed,
                 budget>>

UnlockFails(t) ==
  /\ pc[t] = "unlock"
  /\ Fault
  /\ \/ UNCHANGED flag
     \/ flag' = [flag EXCEPT ![on[t]] = FALSE]
  /\ pc' = [pc EXCEPT ![t] = "leave"]
  /\ UNCHANGED <<log, stream, database, process, on, batch, last, trimmed,
                 shutdowns>>

Leave(t) ==
  /\ pc[t] = "leave"
  /\ active' = [active EXCEPT ![Owner[t]] = @ - 1]
  /\ Idle({t})
  /\ UNCHANGED <<log, redis, database, loop, idx, running, listener, budget>>

-----------------------------------------------------------------------------
(* Shutdown, crash and restart of a process *)

\* A signal, or the loss of the Redis connection, sends to the listener.
ShutdownRequest(i) ==
  /\ shutdowns < MaxShutdowns /\ shutdowns' = shutdowns + 1
  /\ loop[i] # "down" /\ listener[i] = "recv"
  /\ listener' = [listener EXCEPT ![i] = "wait"]
  /\ UNCHANGED <<log, redis, database, loop, idx, running, active, handler,
                 faults>>

ListenerSeesIdle(i) ==
  /\ listener[i] = "wait" /\ active[i] = 0
  /\ listener' = [listener EXCEPT ![i] = "close"]
  /\ UNCHANGED <<log, redis, database, loop, idx, running, active, handler,
                 budget>>

Close(i) ==
  /\ listener[i] = "close"
  /\ running' = [running EXCEPT ![i] = FALSE]
  /\ listener' = [listener EXCEPT ![i] = "done"]
  /\ UNCHANGED <<log, redis, database, loop, idx, active, handler, budget>>

\* start_drainer returns and main with it: the runtime drops its tasks.
Exit(i) ==
  /\ loop[i] = "exit"
  /\ Die(i)
  /\ UNCHANGED budget

Crash(i) ==
  /\ loop[i] # "down"
  /\ Fault
  /\ Die(i)
  /\ UNCHANGED shutdowns

Restart(i) ==
  /\ loop[i] = "down"
  /\ loop' = [loop EXCEPT ![i] = "check"]
  /\ UNCHANGED <<log, redis, database, idx, running, active, listener,
                 handler, budget>>

-----------------------------------------------------------------------------
IsStreamAvailable(i) ==
  \/ \E t \in Tasks : TakeStream(i, t)
  \/ StreamTaken(i)

LoopStep(i) == LoopCheck(i) \/ IsStreamAvailable(i)

ExecuteEntry(t) ==
  \E e \in Ids : Apply(t, e) \/ UniqueViolation(t, e) \/ BreakOnEntry(t, e)

ExecutionFault(t) ==
  \E e \in Ids : QueryFails(t, e) \/ ConnectionPanics(t, e)

HandlerStep(t) ==
  \/ Start(t) \/ Read(t) \/ ExecuteEntry(t) \/ EndOfBatch(t)
  \/ Trim(t) \/ Delete(t) \/ Unlock(t) \/ Leave(t)

HandlerFault(t) ==
  \/ ReadFails(t) \/ ExecutionFault(t)
  \/ TrimFails(t) \/ DeleteFails(t) \/ UnlockFails(t)

ListenerStep(i) == ListenerSeesIdle(i) \/ Close(i)

Next ==
  \/ \E k \in Keys, kind \in Kinds : Push(k, kind)
  \/ \E s \in Streams : Expire(s)
  \/ \E i \in Instances :
       \/ LoopStep(i) \/ LockFails(i)
       \/ ShutdownRequest(i) \/ ListenerStep(i)
       \/ Exit(i) \/ Crash(i) \/ Restart(i)
  \/ \E t \in Tasks : HandlerStep(t) \/ HandlerFault(t)

Spec == Init /\ [][Next]_vars

\* Tokio schedules every task that can run, the loop polls until it is stopped
\* and start_drainer then returns, an expiry runs out, and a process that ended
\* is started again by its orchestrator.  Nothing is assumed of requests, entries
\* and faults.
Fairness ==
  /\ \A i \in Instances : WF_vars(LoopStep(i)) /\ WF_vars(Exit(i)) /\ WF_vars(Restart(i))
  /\ \A t \in Tasks : WF_vars(HandlerStep(t))
  /\ \A s \in Streams : WF_vars(Expire(s))

FairSpec == Spec /\ Fairness

\* As FairSpec, and the listener does not miss for ever the moments at which
\* no task is active: more than its polling guarantees.
ShutdownSpec ==
  /\ FairSpec
  /\ \A i \in Instances :
       SF_vars(ListenerSeesIdle(i)) /\ WF_vars(Close(i))

-----------------------------------------------------------------------------
(* Properties *)

\* Every variable has its type; ids name entries that were pushed.
TypeOK ==
  /\ log \in Seq(Entry)
  /\ stream \in [Streams -> SUBSET Ids]
  /\ flag \in [Streams -> BOOLEAN]
  /\ row \in [Keys -> Ids \cup {0}]
  /\ done \subseteq Ids
  /\ loop \in [Instances -> {"check", "lock", "exit", "down"}]
  /\ idx \in [Instances -> Streams]
  /\ running \in [Instances -> BOOLEAN]
  /\ active \in [Instances -> Int]
  /\ listener \in [Instances -> {"recv", "wait", "close", "done"}]
  /\ pc \in [Tasks -> HoldingSteps \cup {"idle", "leave"}]
  /\ on \in [Tasks -> Streams]
  /\ batch \in [Tasks -> SUBSET Ids]
  /\ last \in [Tasks -> Ids \cup {0}]
  /\ trimmed \in [Tasks -> Nat]
  /\ faults \in Nat /\ shutdowns \in Nat

\* No query is lost: an entry leaves its stream only after some handler counted
\* it as processed.  The trim of drainer() deletes by id, not by what this
\* handler read, so this must survive crashes between execution and trim, lost
\* replies, and two handlers on one partition after the flag expired.
NoLoss == \A i \in Ids : i \in stream[StreamOf(i)] \/ i \in done

\* Queries of one partition are processed in the order they were pushed: the
\* `break` on a failed entry keeps every later one behind it, for whichever
\* handler reads the stream next.
ProcessedInOrder ==
  \A i \in done : \A j \in Ids :
    j < i /\ StreamOf(j) = StreamOf(i) => j \in done

\* At most one handler is at work on a partition, the promise of
\* is_stream_available.  It needs SafeTTL: the flag has an expiry and its DEL
\* does not check who set it.
MutualExclusion ==
  \A t, u \in Tasks : Holding(t) /\ Holding(u) /\ on[t] = on[u] => t = u

UpdatesOf(k) == {i \in Ids : log[i].key = k /\ log[i].kind = "update"}
InsertsOf(k) == {i \in Ids : log[i].key = k /\ log[i].kind = "insert"}

CountedSteps == {"read", "exec", "trim", "del", "unlock", "leave"}

Counted(i) == {t \in Tasks : Owner[t] = i /\ pc[t] \in CountedSteps}

\* active_tasks never reports fewer handlers than have started: the listener
\* that reads zero stops no session, and the u64 never goes below zero, however
\* starts, panics and ends of handlers interleave.
ActiveTasksCounted ==
  \A i \in Instances : Cardinality(Counted(i)) <= active[i]

\* Once the stream holds no entry of a row, the row is the one its last update
\* wrote, or its first insert: entries executed again after a failed trim, and
\* the older values they write on the way, leave no trace (needs SafeTTL).
DrainedRowIsLatest ==
  \A k \in Keys :
    (\A i \in stream[Shard[k]] : log[i].key # k) =>
      /\ InsertsOf(k) # {} => row[k] # 0
      /\ \A i \in UpdatesOf(k) : i <= row[k]
      /\ row[k] # 0 => row[k] \in UpdatesOf(k) \/ UpdatesOf(k) = {}

\* An entry no handler can ever process: it does not deserialize, or it updates
\* a row that no earlier entry inserts.
Poison(i) ==
  \/ log[i].kind = "garbage"
  \/ log[i].kind = "update" /\ \A j \in InsertsOf(log[i].key) : i < j

\* Every entry with no poison at or before it in its partition leaves the
\* stream, although errors, panics and crashes may interrupt any session,
\* leave the flag set and have the batch executed again.
EventuallyDrained ==
  \A i \in 1 .. MaxEntries :
    (i \in Ids /\ \A j \in Ids :
                     j <= i /\ StreamOf(j) = StreamOf(i) => ~Poison(j))
      ~> (i \in Ids /\ i \notin stream[StreamOf(i)])

\* The entries that are in a stream and were not executed yet.
Pending == {i \in Ids : i \in stream[StreamOf(i)] /\ i \notin done}

Queue == INSTANCE WorkQueue WITH pending <- Pending

\* The drainer implements a queue for each partition: however many processes
\* and handlers are at work, crash, execute a batch again or trim it late, an
\* entry goes from waiting to executed once and in its order, and no step of
\* theirs makes a waiting entry vanish or an executed one wait again.
ImplementsQueue == Queue!Spec

\* A shutdown that was asked for completes.  (handler.rs:13 "Handler handles
\* the spawning and closing of drainer")
ShutdownCompletes ==
  \A i \in Instances : listener[i] = "wait" ~> loop[i] = "down"

\* A process that shuts down ends only when no handler of it is at work.
\* (handler.rs:97 "Check until the active tasks are zero.")
GracefulExit ==
  [][\A i \in Instances :
       Exit(i) => \A t \in Tasks : Owner[t] = i => pc[t] = "idle"]_vars

=============================================================================
