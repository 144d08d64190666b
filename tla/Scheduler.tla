----------------------------- MODULE Scheduler -----------------------------
(***************************************************************************)
(* The process tracker (src/crates/scheduler): producers that queue the    *)
(* processes that are due, consumers that run their workflows.             *)
(*                                                                         *)
(* A producer takes a lock in Redis, reads the due processes from          *)
(* PostgreSQL, marks them Processing batch by batch and appends each batch *)
(* to a Redis stream.  A consumer reads one batch through a consumer       *)
(* group, acknowledges and deletes it, marks its processes ProcessStarted  *)
(* and runs one workflow for each.  What travels through the stream is a   *)
(* snapshot of the row, taken when the producer read it.                   *)
(*                                                                         *)
(* The stream is modelled by the batches the group has still to deliver:   *)
(* the code only ever reads undelivered entries, so one that was delivered *)
(* is never seen again, acknowledged or not.                               *)
(***************************************************************************)
EXTENDS Naturals, Sequences, FiniteSets

CONSTANTS
  Processes,      \* ids of process tracker rows
  Producers, Consumers,
  BatchSize,      \* ProducerSettings.batch_size
  GroupExists,    \* does the consumer group exist when the system starts?
  SafeTTL,        \* does the lock outlive the producer that relies on it?
  HiddenWrites,   \* may a failed database call have been committed?
  Late,           \* may a process fall out of the fetch window unseen?
  MaxRetries,     \* bound on retries of a process
  MaxFaults       \* bound on failed calls, panics and crashes

ASSUME BatchSizeAssumption == BatchSize \in Nat \ {0}
ASSUME FlagsAssumption ==
  /\ GroupExists \in BOOLEAN /\ SafeTTL \in BOOLEAN
  /\ HiddenWrites \in BOOLEAN /\ Late \in BOOLEAN
ASSUME LimitsAssumption == MaxRetries \in Nat /\ MaxFaults \in Nat

VARIABLES
  status,     \* PostgreSQL: ProcessTrackerStatus, "none" before the insert
  retry,      \* PostgreSQL: retry_count
  business,   \* PostgreSQL: business_status, "Pending" or any "other"
  window,     \* schedule_time against the fetch window: before, in or after
  lock,       \* Redis: is the producer lock set?
  group,      \* Redis: does the consumer group exist?
  queue,      \* Redis: the batches the group has to deliver
  ppc,        \* each producer: its next step
  fetched,    \* each producer: the snapshots it has still to divide
  batch,      \* each producer: the batch it is appending
  cpc,        \* each consumer: its next step
  received,   \* each consumer: the snapshots of the batch it read
  work,       \* each consumer: its workflows, each with its snapshot
  faults

rows      == <<status, retry, business, window>>
redis     == <<lock, group, queue>>
producer  == <<ppc, fetched, batch>>
consumer  == <<cpc, received, work>>
vars      == <<rows, redis, producer, consumer, faults>>

Statuses == {"none", "New", "Pending", "Processing", "ProcessStarted", "Finish"}

Snapshot == [id : Processes, retry : Nat, business : {"Pending", "other"}]

Batches == {B \in SUBSET Snapshot : Cardinality(B) <= BatchSize}

Workflow == [of : Snapshot, at : {"run", "error", "fallback"}]

Fault == faults < MaxFaults /\ faults' = faults + 1

-----------------------------------------------------------------------------
(* The rows *)

\* Mutant of SnapshotOf: the count does not travel.
SnapshotUncounted(p) == [id |-> p, retry |-> 0, business |-> business[p]]

SnapshotOf(p) == [id |-> p, retry |-> retry[p], business |-> business[p]]

IdsOf(B) == {s.id : s \in B}

\* find_processes_by_time_status: the rows of a status within the window.
FindByTimeStatus(st) ==
  {SnapshotOf(p) : p \in {q \in Processes : status[q] = st /\ window[q] = "in"}}

\* update_process_status_by_ids: whatever the rows' status is by now.
UpdateStatusByIds(ids, st) ==
  status' = [p \in Processes |-> IF p \in ids THEN st ELSE status[p]]

\* The outcome of a database call that reports an error.
FailedUpdate(ids, st) ==
  \/ UNCHANGED status
  \/ HiddenWrites /\ UpdateStatusByIds(ids, st)

\* finish_process_with_business_status, also the form of consumer_error_handler.
FinishProcess(p) ==
  /\ status' = [status EXCEPT ![p] = "Finish"]
  /\ business' = [business EXCEPT ![p] = "other"]
  /\ UNCHANGED <<retry, window>>

\* Mutant of RetryProcess: the attempt is counted twice.
RetryCountedTwice(s) ==
  /\ status' = [status EXCEPT ![s.id] = "Pending"]
  /\ retry' = [retry EXCEPT ![s.id] = s.retry + 2]
  /\ window' = [window EXCEPT ![s.id] = "before"]
  /\ UNCHANGED business

\* retry_process: the count comes from the caller's snapshot.
RetryProcess(s) ==
  /\ status' = [status EXCEPT ![s.id] = "Pending"]
  /\ retry' = [retry EXCEPT ![s.id] = s.retry + 1]
  /\ window' = [window EXCEPT ![s.id] = "before"]
  /\ UNCHANGED business

ResetProcess(s) ==
  /\ status' = [status EXCEPT ![s.id] = "New"]
  /\ retry' = [retry EXCEPT ![s.id] = 0]
  /\ window' = [window EXCEPT ![s.id] = "before"]
  /\ UNCHANGED business

-----------------------------------------------------------------------------
Init ==
  /\ status = [p \in Processes |-> "none"]
  /\ retry = [p \in Processes |-> 0]
  /\ business = [p \in Processes |-> "Pending"]
  /\ window = [p \in Processes |-> "before"]
  /\ lock = FALSE
  /\ group = GroupExists
  /\ queue = <<>>
  /\ ppc = [p \in Producers |-> "idle"]
  /\ fetched = [p \in Producers |-> {}]
  /\ batch = [p \in Producers |-> {}]
  /\ cpc = [c \in Consumers |-> "idle"]
  /\ received = [c \in Consumers |-> {}]
  /\ work = [c \in Consumers |-> {}]
  /\ faults = 0

-----------------------------------------------------------------------------
(* The application and the clock *)

CreateTask(p) ==
  /\ status[p] = "none"
  /\ status' = [status EXCEPT ![p] = "New"]
  /\ UNCHANGED <<retry, business, window, redis, producer, consumer, faults>>

\* The schedule time enters the window, or falls out of it unseen.  The window
\* is read only of rows that wait to be fetched.
TimePasses(p) ==
  /\ status[p] \in {"New", "Pending"}
  /\ \/ window[p] = "before" /\ window' = [window EXCEPT ![p] = "in"]
     \/ window[p] = "in" /\ Late /\ window' = [window EXCEPT ![p] = "after"]
  /\ UNCHANGED <<status, retry, business, redis, producer, consumer, faults>>

\* The steps at which a producer relies on the lock.
LockedSteps == {"expiry", "new", "pending", "divide", "append", "restore", "release"}

ExpireLock ==
  /\ lock
  /\ SafeTTL => \A p \in Producers : ppc[p] \notin LockedSteps
  /\ lock' = FALSE
  /\ UNCHANGED <<rows, group, queue, producer, consumer, faults>>

-----------------------------------------------------------------------------
(* run_producer_flow *)

Goto(p, step) == ppc' = [ppc EXCEPT ![p] = step]

\* Mutant of AcquirePtLock: SET without NX.
AcquireAnyway(p) ==
  /\ ppc[p] = "idle"
  /\ lock' = TRUE
  /\ Goto(p, "expiry")
  /\ UNCHANGED <<rows, group, queue, fetched, batch, consumer, faults>>

AcquirePtLock(p) ==
  /\ ppc[p] = "idle"
  /\ ~lock /\ lock' = TRUE
  /\ Goto(p, "expiry")
  /\ UNCHANGED <<rows, group, queue, fetched, batch, consumer, faults>>

\* SET NX fails, before or after it took effect: no lock for this producer.
AcquireFails(p) ==
  /\ ppc[p] = "idle"
  /\ ~lock /\ lock' = TRUE
  /\ Fault
  /\ UNCHANGED <<rows, group, queue, producer, consumer>>

SetExpiry(p) ==
  /\ ppc[p] = "expiry"
  /\ Goto(p, "new")
  /\ UNCHANGED <<rows, redis, fetched, batch, consumer, faults>>

\* Mutant of SetExpiryFails: the lock is given up and taken for held.
ExpiryFailureIgnored(p) ==
  /\ ppc[p] = "expiry"
  /\ Fault
  /\ lock' = FALSE
  /\ Goto(p, "new")
  /\ UNCHANGED <<rows, group, queue, fetched, batch, consumer>>

\* Without the expiry the lock is deleted again, in a step that is the same as
\* that of release_pt_lock.
SetExpiryFails(p) ==
  /\ ppc[p] = "expiry"
  /\ Fault
  /\ Goto(p, "release")
  /\ UNCHANGED <<rows, redis, fetched, batch, consumer>>

FetchNew(p) ==
  /\ ppc[p] = "new"
  /\ fetched' = [fetched EXCEPT ![p] = FindByTimeStatus("New")]
  /\ Goto(p, "pending")
  /\ UNCHANGED <<rows, redis, batch, consumer, faults>>

\* Mutant of FetchPending: the new tasks are forgotten.
FetchPendingOnly(p) ==
  /\ ppc[p] = "pending"
  /\ fetched' = [fetched EXCEPT ![p] = FindByTimeStatus("Pending")]
  /\ Goto(p, "divide")
  /\ UNCHANGED <<rows, redis, batch, consumer, faults>>

FetchPending(p) ==
  /\ ppc[p] = "pending"
  /\ fetched' = [fetched EXCEPT ![p] = @ \cup FindByTimeStatus("Pending")]
  /\ Goto(p, "divide")
  /\ UNCHANGED <<rows, redis, batch, consumer, faults>>

FetchFails(p) ==
  /\ ppc[p] \in {"new", "pending"}
  /\ Fault
  /\ fetched' = [fetched EXCEPT ![p] = {}]
  /\ Goto(p, "release")
  /\ UNCHANGED <<rows, redis, batch, consumer>>

\* divide_into_batches: the next chunk of the rows, in the order the database
\* returned them.
NextChunk(p, B) ==
  /\ ppc[p] = "divide"
  /\ B \subseteq fetched[p] /\ B # {}
  /\ Cardinality(B) <= BatchSize
  /\ Cardinality(B) = BatchSize \/ B = fetched[p]

\* Mutant of UpdateStatus: the batch is appended without being marked.
UpdateSkipped(p, B) ==
  /\ NextChunk(p, B)
  /\ batch' = [batch EXCEPT ![p] = B]
  /\ fetched' = [fetched EXCEPT ![p] = @ \ B]
  /\ Goto(p, "append")
  /\ UNCHANGED <<rows, redis, consumer, faults>>

\* update_status_and_append.
UpdateStatus(p, B) ==
  /\ NextChunk(p, B)
  /\ UpdateStatusByIds(IdsOf(B), "Processing")
  /\ batch' = [batch EXCEPT ![p] = B]
  /\ fetched' = [fetched EXCEPT ![p] = @ \ B]
  /\ Goto(p, "append")
  /\ UNCHANGED <<retry, business, window, redis, consumer, faults>>

\* The batch is given up; the producer goes on with the next one.
UpdateStatusFails(p, B) ==
  /\ NextChunk(p, B)
  /\ Fault
  /\ FailedUpdate(IdsOf(B), "Processing")
  /\ fetched' = [fetched EXCEPT ![p] = @ \ B]
  /\ UNCHANGED <<retry, business, window, redis, ppc, batch, consumer>>

AppendBatch(p) ==
  /\ ppc[p] = "append"
  /\ queue' = Append(queue, batch[p])
  /\ batch' = [batch EXCEPT ![p] = {}]
  /\ Goto(p, "divide")
  /\ UNCHANGED <<rows, lock, group, fetched, consumer, faults>>

AppendFails(p) ==
  /\ ppc[p] = "append"
  /\ Fault
  /\ queue' \in {queue, Append(queue, batch[p])}
  /\ Goto(p, "restore")
  /\ UNCHANGED <<rows, lock, group, fetched, batch, consumer>>

\* After a failed append the status is set once more, to Processing again.
RestoreStatus(p) ==
  /\ ppc[p] = "restore"
  /\ UpdateStatusByIds(IdsOf(batch[p]), "Processing")
  /\ batch' = [batch EXCEPT ![p] = {}]
  /\ Goto(p, "divide")
  /\ UNCHANGED <<retry, business, window, redis, fetched, consumer, faults>>

RestoreFails(p) ==
  /\ ppc[p] = "restore"
  /\ Fault
  /\ FailedUpdate(IdsOf(batch[p]), "Processing")
  /\ batch' = [batch EXCEPT ![p] = {}]
  /\ Goto(p, "divide")
  /\ UNCHANGED <<retry, business, window, redis, fetched, consumer>>

AllDivided(p) ==
  /\ ppc[p] = "divide" /\ fetched[p] = {}
  /\ Goto(p, "release")
  /\ UNCHANGED <<rows, redis, fetched, batch, consumer, faults>>

\* release_pt_lock: DEL, whoever set the lock.
ReleasePtLock(p) ==
  /\ ppc[p] = "release"
  /\ lock' = FALSE
  /\ Goto(p, "idle")
  /\ UNCHANGED <<rows, group, queue, fetched, batch, consumer, faults>>

ReleaseFails(p) ==
  /\ ppc[p] = "release"
  /\ Fault
  /\ lock' \in {FALSE, lock}
  /\ Goto(p, "idle")
  /\ UNCHANGED <<rows, group, queue, fetched, batch, consumer>>

ProducerCrashes(p) ==
  /\ ppc[p] # "idle"
  /\ Fault
  /\ Goto(p, "idle")
  /\ fetched' = [fetched EXCEPT ![p] = {}]
  /\ batch' = [batch EXCEPT ![p] = {}]
  /\ UNCHANGED <<rows, redis, consumer>>

-----------------------------------------------------------------------------
(* consumer_operations *)

Proceed(c, step) == cpc' = [cpc EXCEPT ![c] = step]

\* consumer_group_create with "$": a new group is delivered only what is
\* appended from now on.  An error is taken for a group that exists.
CreateGroup(c) ==
  /\ cpc[c] = "idle"
  /\ group' = TRUE
  /\ queue' = IF group THEN queue ELSE <<>>
  /\ Proceed(c, "read")
  /\ UNCHANGED <<rows, lock, producer, received, work, faults>>

CreateGroupFails(c) ==
  /\ cpc[c] = "idle" /\ ~group
  /\ Fault
  /\ Proceed(c, "read")
  /\ UNCHANGED <<rows, redis, producer, received, work>>

\* Mutant of ReadBatch: a count of two, of which only the first is kept.
ReadTwo(c) ==
  /\ cpc[c] = "read" /\ group /\ queue # <<>>
  /\ received' = [received EXCEPT ![c] = Head(queue)]
  /\ queue' = IF Len(queue) > 1 THEN Tail(Tail(queue)) ELSE <<>>
  /\ Proceed(c, "ack")
  /\ UNCHANGED <<rows, lock, group, producer, work, faults>>

\* get_batches: XREADGROUP with ">" and a count of one.
ReadBatch(c) ==
  /\ cpc[c] = "read" /\ group /\ queue # <<>>
  /\ received' = [received EXCEPT ![c] = Head(queue)]
  /\ queue' = Tail(queue)
  /\ Proceed(c, "ack")
  /\ UNCHANGED <<rows, lock, group, producer, work, faults>>

\* An empty stream is no error, a missing group is one: nothing to do in both.
NothingToRead(c) ==
  /\ cpc[c] = "read" /\ (~group \/ queue = <<>>)
  /\ Proceed(c, "idle")
  /\ UNCHANGED <<rows, redis, producer, received, work, faults>>

\* The reply may be lost after the group has delivered the batch.
ReadFails(c) ==
  /\ cpc[c] = "read" /\ group /\ queue # <<>>
  /\ Fault
  /\ queue' \in {queue, Tail(queue)}
  /\ Proceed(c, "idle")
  /\ UNCHANGED <<rows, lock, group, producer, received, work>>

\* XACK, then XDEL: neither changes what the group has still to deliver.
Acknowledge(c) ==
  /\ cpc[c] = "ack"
  /\ Proceed(c, "delete")
  /\ UNCHANGED <<rows, redis, producer, received, work, faults>>

DeleteBatch(c) ==
  /\ cpc[c] = "delete"
  /\ Proceed(c, "start")
  /\ UNCHANGED <<rows, redis, producer, received, work, faults>>

\* is_valid_business_status on the snapshot.
Valid(B) == {s \in B : s.business = "Pending"}

\* The operation ends with the error and the batch it holds.
OperationFails(c) ==
  /\ cpc[c] \in {"ack", "delete", "start"}
  /\ Fault
  /\ IF cpc[c] = "start"
       THEN FailedUpdate(IdsOf(Valid(received[c])), "ProcessStarted")
       ELSE UNCHANGED status
  /\ received' = [received EXCEPT ![c] = {}]
  /\ Proceed(c, "idle")
  /\ UNCHANGED <<retry, business, window, redis, producer, work>>

\* fetch_consumer_tasks marks the processes, consumer_operations spawns one
\* workflow for each.
StartTasks(c) ==
  /\ cpc[c] = "start"
  /\ UpdateStatusByIds(IdsOf(Valid(received[c])), "ProcessStarted")
  /\ work' = [work EXCEPT ![c] = {[of |-> s, at |-> "run"] : s \in Valid(received[c])}]
  /\ received' = [received EXCEPT ![c] = {}]
  /\ Proceed(c, "join")
  /\ UNCHANGED <<retry, business, window, redis, producer, faults>>

JoinAll(c) ==
  /\ cpc[c] = "join" /\ work[c] = {}
  /\ Proceed(c, "idle")
  /\ UNCHANGED <<rows, redis, producer, received, work, faults>>

ConsumerCrashes(c) ==
  /\ cpc[c] # "idle"
  /\ Fault
  /\ Proceed(c, "idle")
  /\ received' = [received EXCEPT ![c] = {}]
  /\ work' = [work EXCEPT ![c] = {}]
  /\ UNCHANGED <<rows, redis, producer>>

-----------------------------------------------------------------------------
(* start_workflow: what a workflow does is not in this repository; it ends   *)
(* with at most one of the updates the process tracker offers it.            *)

At(c, w, step) == w \in work[c] /\ w.at = step

Ends(c, w) == work' = [work EXCEPT ![c] = @ \ {w}]

Becomes(c, w, step) == work' = [work EXCEPT ![c] = (@ \ {w}) \cup {[w EXCEPT !.at = step]}]

\* The update with which a workflow may end.
Outcome(s) ==
  \/ FinishProcess(s.id)
  \/ s.retry < MaxRetries /\ RetryProcess(s)
  \/ ResetProcess(s)

WorkflowUpdates(c, w) ==
  /\ At(c, w, "run")
  /\ Outcome(w.of)
  /\ Ends(c, w)
  /\ UNCHANGED <<redis, producer, cpc, received, faults>>

\* It returns without an update, or its result is an error of trigger_workflow
\* that start_workflow only logs.
WorkflowReturns(c, w) ==
  /\ At(c, w, "run")
  /\ Ends(c, w)
  /\ UNCHANGED <<rows, redis, producer, cpc, received, faults>>

\* execute_workflow of the operation answers with an error.
WorkflowFails(c, w) ==
  /\ At(c, w, "run")
  /\ Fault
  /\ \/ UNCHANGED rows
     \/ HiddenWrites /\ Outcome(w.of)
  /\ Becomes(c, w, "error")
  /\ UNCHANGED <<redis, producer, cpc, received>>

\* error_handler, by way of consumer_error_handler.
HandleError(c, w) ==
  /\ At(c, w, "error")
  /\ FinishProcess(w.of.id)
  /\ Ends(c, w)
  /\ UNCHANGED <<redis, producer, cpc, received, faults>>

\* The handler's update fails, or it is the default one, not implemented.
HandlerFails(c, w) ==
  /\ At(c, w, "error")
  /\ \/ UNCHANGED rows
     \/ HiddenWrites /\ FinishProcess(w.of.id)
  /\ Becomes(c, w, "fallback")
  /\ UNCHANGED <<redis, producer, cpc, received, faults>>

\* finish_process_with_business_status(GLOBAL_FAILURE).
FinishAsFailure(c, w) ==
  /\ At(c, w, "fallback")
  /\ FinishProcess(w.of.id)
  /\ Ends(c, w)
  /\ UNCHANGED <<redis, producer, cpc, received, faults>>

\* A panic ends the workflow at any point; so does a failing last resort.
WorkflowDies(c, w) ==
  /\ w \in work[c]
  /\ Fault
  /\ Ends(c, w)
  /\ UNCHANGED <<rows, redis, producer, cpc, received>>

-----------------------------------------------------------------------------
ProducerStep(p) ==
  \/ AcquirePtLock(p) \/ SetExpiry(p) \/ FetchNew(p) \/ FetchPending(p)
  \/ \E B \in SUBSET fetched[p] : UpdateStatus(p, B)
  \/ AppendBatch(p) \/ RestoreStatus(p) \/ AllDivided(p) \/ ReleasePtLock(p)

ProducerFault(p) ==
  \/ AcquireFails(p) \/ SetExpiryFails(p) \/ FetchFails(p)
  \/ \E B \in SUBSET fetched[p] : UpdateStatusFails(p, B)
  \/ AppendFails(p) \/ RestoreFails(p) \/ ReleaseFails(p) \/ ProducerCrashes(p)

WorkflowStep(c, w) ==
  \/ WorkflowUpdates(c, w) \/ WorkflowReturns(c, w) \/ HandleError(c, w)
  \/ HandlerFails(c, w) \/ FinishAsFailure(c, w)

ConsumerStep(c) ==
  \/ CreateGroup(c) \/ ReadBatch(c) \/ NothingToRead(c) \/ Acknowledge(c)
  \/ DeleteBatch(c) \/ StartTasks(c) \/ JoinAll(c)
  \/ \E w \in work[c] : WorkflowStep(c, w)

ConsumerFault(c) ==
  \/ CreateGroupFails(c) \/ ReadFails(c) \/ OperationFails(c) \/ ConsumerCrashes(c)
  \/ \E w \in work[c] : WorkflowFails(c, w) \/ WorkflowDies(c, w)

Next ==
  \/ \E p \in Processes : CreateTask(p) \/ TimePasses(p)
  \/ ExpireLock
  \/ \E p \in Producers : ProducerStep(p) \/ ProducerFault(p)
  \/ \E c \in Consumers : ConsumerStep(c) \/ ConsumerFault(c)

Spec == Init /\ [][Next]_vars

\* The clock reaches every schedule time, and every loop is polled again (tokio);
\* a workflow ends. That a window closes before it is read is never assumed.
Fairness ==
  /\ \A p \in Processes : WF_vars(window[p] = "before" /\ TimePasses(p))
  /\ WF_vars(ExpireLock)
  /\ \A p \in Producers : WF_vars(ProducerStep(p))
  /\ \A c \in Consumers : WF_vars(ConsumerStep(c))

FairSpec == Spec /\ Fairness

-----------------------------------------------------------------------------
(* Properties *)

\* Every variable has its type: a row retries at most as often as its workflow
\* asks for, a batch in the stream or in the hands of a producer or a consumer
\* is no longer than batch_size.
TypeOK ==
  /\ status \in [Processes -> Statuses]
  /\ retry \in [Processes -> 0..MaxRetries]
  /\ business \in [Processes -> {"Pending", "other"}]
  /\ window \in [Processes -> {"before", "in", "after"}]
  /\ lock \in BOOLEAN /\ group \in BOOLEAN
  /\ queue \in Seq(Batches)
  /\ ppc \in [Producers -> {"idle"} \cup LockedSteps]
  /\ fetched \in [Producers -> SUBSET Snapshot]
  /\ batch \in [Producers -> Batches]
  /\ cpc \in [Consumers -> {"idle", "read", "ack", "delete", "start", "join"}]
  /\ received \in [Consumers -> Batches]
  /\ work \in [Consumers -> SUBSET Workflow]
  /\ faults \in 0..MaxFaults

\* With a lock that outlives its holder's work, producers never work at the
\* same time (lock_acquire_release).
ProducersExclude ==
  SafeTTL => \A p, q \in Producers :
    ppc[p] \in LockedSteps /\ ppc[q] \in LockedSteps => p = q

\* No process is run by two workflows at once (start_workflow), whatever fails,
\* as long as the lock holds.  One that has ended in an error is not counted: its
\* last update may have put the process back on its way without its knowing.
NoDoubleRun ==
  SafeTTL =>
    \A c, d \in Consumers : \A v \in work[c], w \in work[d] :
      v.of.id = w.of.id /\ v.at = "run" /\ w.at = "run" => c = d /\ v = w

\* The snapshot a workflow works on still has the retry_count of its row, so
\* retry_process, which writes snapshot + 1, counts every attempt.
SnapshotFresh ==
  SafeTTL =>
    \A c \in Consumers : \A w \in work[c] :
      w.at = "run" => w.of.retry = retry[w.of.id]

\* The processes that some producer, the stream or some consumer carries.
Carried ==
  UNION ( {IdsOf(fetched[p]) : p \in Producers}
     \cup {IdsOf(queue[i]) : i \in 1..Len(queue)}
     \cup {IdsOf(received[c]) : c \in Consumers}
     \cup {{w.of.id : w \in work[c]} : c \in Consumers} )

\* Nothing of a finished process is on its way any more, so it is not run again,
\* as long as a call that reports an error has changed nothing.
FinishedIsQuiet ==
  SafeTTL /\ ~HiddenWrites =>
    \A p \in Processes : status[p] = "Finish" => p \notin Carried

\* As long as nothing fails and the group was there from the start, a process
\* marked Processing is about to be appended, in the stream, or with a consumer:
\* none is left in limbo (update_status_and_append, fetch_consumer_tasks).
NoLimbo ==
  SafeTTL /\ GroupExists /\ faults = 0 =>
    \A p \in Processes : status[p] = "Processing" =>
      p \in Carried \cup UNION {IdsOf(batch[q]) : q \in Producers}

\* A task that is created is eventually started by a consumer, unless a call fails
\* or its time leaves the window before a producer fetches it.
EventuallyStarted ==
  \A p \in Processes :
    status[p] = "New" ~>
      (status[p] = "ProcessStarted" \/ window[p] = "after" \/ faults > 0)

\* A process that is Finish stays so.  (diesel_models/src/enums.rs:44 "Finished
\* by consumer")
FinishIsFinal ==
  [][\A p \in Processes : status[p] = "Finish" => status'[p] = "Finish"]_status

=============================================================================
