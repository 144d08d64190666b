-------------------------- MODULE SchedulerProofs --------------------------
(***************************************************************************)
(* Theorems about Scheduler, for any processes, producers, consumers,      *)
(* batch size and number of faults.                                        *)
(***************************************************************************)
EXTENDS Scheduler, FiniteSetTheorems, TLAPS

USE BatchSizeAssumption, FlagsAssumption, LimitsAssumption

-----------------------------------------------------------------------------
(* Type correctness *)

\* A snapshot of a row is a snapshot, and so is what a fetch returns.
LEMMA FetchType ==
  ASSUME TypeOK, NEW st
  PROVE  FindByTimeStatus(st) \subseteq Snapshot
  BY DEF TypeOK, FindByTimeStatus, SnapshotOf, Snapshot

\* The empty batch is one.
LEMMA EmptyBatch == {} \in Batches
  BY FS_EmptySet DEF Batches

\* What divide_into_batches cuts off is a batch.
LEMMA ChunkType ==
  ASSUME TypeOK, NEW p \in Producers, NEW B, NextChunk(p, B)
  PROVE  B \in Batches
  BY DEF TypeOK, NextChunk, Batches

\* An update of some rows' status, if it is one of the statuses, keeps the type.
LEMMA StatusType ==
  ASSUME TypeOK, NEW ids, NEW st \in Statuses,
         UpdateStatusByIds(ids, st) \/ FailedUpdate(ids, st)
  PROVE  status' \in [Processes -> Statuses]
  BY DEF TypeOK, UpdateStatusByIds, FailedUpdate

\* So do the three updates with which a workflow may end.
LEMMA OutcomeType ==
  ASSUME TypeOK, NEW s \in Snapshot, Outcome(s) \/ FinishProcess(s.id)
  PROVE  /\ status' \in [Processes -> Statuses]
         /\ retry' \in [Processes -> 0..MaxRetries]
         /\ business' \in [Processes -> {"Pending", "other"}]
         /\ window' \in [Processes -> {"before", "in", "after"}]
<1>1. s.id \in Processes /\ s.retry \in Nat
  BY DEF Snapshot
<1>2. CASE FinishProcess(s.id)
  BY <1>1, <1>2 DEF TypeOK, FinishProcess, Statuses
<1>3. CASE s.retry < MaxRetries /\ RetryProcess(s)
  <2>1. s.retry + 1 \in 0..MaxRetries
    BY <1>1, <1>3
  <2> QED
    BY <1>1, <1>3, <2>1 DEF TypeOK, RetryProcess, Statuses
<1>4. CASE ResetProcess(s)
  BY <1>1, <1>4 DEF TypeOK, ResetProcess, Statuses
<1> QED
  BY <1>2, <1>3, <1>4 DEF Outcome

\* A fault is one of the faults that were allowed for.
LEMMA FaultType ==
  ASSUME TypeOK, Fault
  PROVE  faults' \in 0..MaxFaults
  BY DEF TypeOK, Fault

RowType ==
  /\ status \in [Processes -> Statuses]
  /\ retry \in [Processes -> 0..MaxRetries]
  /\ business \in [Processes -> {"Pending", "other"}]
  /\ window \in [Processes -> {"before", "in", "after"}]

RedisType == lock \in BOOLEAN /\ group \in BOOLEAN /\ queue \in Seq(Batches)

ProducerType ==
  /\ ppc \in [Producers -> {"idle"} \cup LockedSteps]
  /\ fetched \in [Producers -> SUBSET Snapshot]
  /\ batch \in [Producers -> Batches]

ConsumerType ==
  /\ cpc \in [Consumers -> {"idle", "read", "ack", "delete", "start", "join"}]
  /\ received \in [Consumers -> Batches]
  /\ work \in [Consumers -> SUBSET Workflow]

\* The type invariant by its parts, before and after a step.
LEMMA TypeParts ==
  /\ TypeOK <=> /\ RowType /\ RedisType /\ ProducerType /\ ConsumerType
                /\ faults \in 0..MaxFaults
  /\ TypeOK' <=> /\ RowType' /\ RedisType' /\ ProducerType' /\ ConsumerType'
                 /\ faults' \in 0..MaxFaults
  BY DEF TypeOK, RowType, RedisType, ProducerType, ConsumerType

\* What a step leaves alone keeps its type.
LEMMA Unchanged ==
  ASSUME TypeOK
  PROVE  /\ UNCHANGED rows => RowType'
         /\ UNCHANGED redis => RedisType'
         /\ UNCHANGED producer => ProducerType'
         /\ UNCHANGED consumer => ConsumerType'
         /\ UNCHANGED faults => faults' \in 0..MaxFaults
  BY DEF TypeOK, RowType, RedisType, ProducerType, ConsumerType,
    rows, redis, producer, consumer

\* A step of the producers keeps the types.
LEMMA ProducerKeepsType ==
  ASSUME TypeOK, NEW p \in Producers, ProducerStep(p) \/ ProducerFault(p)
  PROVE  TypeOK'
<1>1. /\ UNCHANGED consumer => ConsumerType'
      /\ UNCHANGED faults => faults' \in 0..MaxFaults
      /\ Fault => faults' \in 0..MaxFaults
  BY Unchanged, FaultType
<1>2. CASE \/ AcquirePtLock(p) \/ AcquireFails(p) \/ SetExpiry(p) \/ SetExpiryFails(p)
           \/ AllDivided(p) \/ ReleasePtLock(p) \/ ReleaseFails(p)
  <2>1. UNCHANGED <<rows, group, queue, fetched, batch, consumer>> /\ lock' \in BOOLEAN
    BY <1>2 DEF AcquirePtLock, AcquireFails, SetExpiry, SetExpiryFails, AllDivided,
      ReleasePtLock, ReleaseFails, redis, producer, TypeOK
  <2>2. ppc' \in [Producers -> {"idle"} \cup LockedSteps]
    <3>1. \E step \in {"idle"} \cup LockedSteps : ppc' = [ppc EXCEPT ![p] = step]
      <4>1. ppc = [ppc EXCEPT ![p] = ppc[p]] /\ ppc[p] \in {"idle"} \cup LockedSteps
        BY DEF TypeOK
      <4> QED
        BY <1>2, <4>1 DEF AcquirePtLock, AcquireFails, SetExpiry, SetExpiryFails,
          AllDivided, ReleasePtLock, ReleaseFails, producer, Goto, LockedSteps
    <3> QED
      BY <3>1 DEF TypeOK
  <2>3. Fault \/ UNCHANGED faults
    BY <1>2 DEF AcquirePtLock, AcquireFails, SetExpiry, SetExpiryFails, AllDivided,
      ReleasePtLock, ReleaseFails
  <2>4. RedisType' /\ ProducerType'
    BY <2>1, <2>2 DEF TypeOK, RedisType, ProducerType
  <2> QED
    BY <1>1, <2>1, <2>3, <2>4, Unchanged, TypeParts
<1>3. CASE FetchNew(p) \/ FetchPending(p) \/ FetchFails(p) \/ ProducerCrashes(p)
  <2>1. UNCHANGED <<rows, redis, consumer>> /\ (Fault \/ UNCHANGED faults)
    BY <1>3 DEF FetchNew, FetchPending, FetchFails, ProducerCrashes
  <2>2. fetched' \in [Producers -> SUBSET Snapshot]
    <3>1. PICK F \in SUBSET Snapshot : fetched' = [fetched EXCEPT ![p] = F]
      <4>1. CASE FetchNew(p)
        BY <4>1, FetchType DEF FetchNew
      <4>2. CASE FetchPending(p)
        <5>1. fetched[p] \cup FindByTimeStatus("Pending") \in SUBSET Snapshot
          BY FetchType DEF TypeOK
        <5> QED
          BY <4>2, <5>1 DEF FetchPending
      <4>3. CASE FetchFails(p) \/ ProducerCrashes(p)
        BY <4>3 DEF FetchFails, ProducerCrashes
      <4> QED
        BY <1>3, <4>1, <4>2, <4>3
    <3> QED
      BY <3>1 DEF TypeOK
  <2>3. batch' \in [Producers -> Batches]
    BY <1>3, EmptyBatch DEF FetchNew, FetchPending, FetchFails, ProducerCrashes, TypeOK
  <2>4. ppc' \in [Producers -> {"idle"} \cup LockedSteps]
    <3>1. \E step \in {"idle"} \cup LockedSteps : ppc' = [ppc EXCEPT ![p] = step]
      BY <1>3 DEF FetchNew, FetchPending, FetchFails, ProducerCrashes, Goto, LockedSteps
    <3> QED
      BY <3>1 DEF TypeOK
  <2> QED
    BY <1>1, <2>1, <2>2, <2>3, <2>4, Unchanged, TypeParts DEF ProducerType
<1>4. ASSUME NEW B \in SUBSET fetched[p], UpdateStatus(p, B) \/ UpdateStatusFails(p, B)
      PROVE  TypeOK'
  <2>1. /\ UNCHANGED <<retry, business, window, redis, consumer>>
        /\ Fault \/ UNCHANGED faults
        /\ NextChunk(p, B)
    BY <1>4 DEF UpdateStatus, UpdateStatusFails
  <2>2. status' \in [Processes -> Statuses]
    <3>1. "Processing" \in Statuses
      BY DEF Statuses
    <3> QED
      BY <1>4, <3>1, StatusType DEF UpdateStatus, UpdateStatusFails
  <2>3. batch' \in [Producers -> Batches]
    BY <1>4, <2>1, ChunkType DEF UpdateStatus, UpdateStatusFails, TypeOK
  <2>4. fetched' \in [Producers -> SUBSET Snapshot]
    <3>1. \E F \in SUBSET fetched[p] : fetched' = [fetched EXCEPT ![p] = F]
      BY <1>4 DEF UpdateStatus, UpdateStatusFails
    <3>2. fetched \in [Producers -> SUBSET Snapshot]
      BY DEF TypeOK
    <3> QED
      BY ONLY <3>1, <3>2, p \in Producers
  <2>5. ppc' \in [Producers -> {"idle"} \cup LockedSteps]
    BY <1>4 DEF UpdateStatus, UpdateStatusFails, Goto, TypeOK, LockedSteps
  <2>6. RowType'
    BY <2>1, <2>2 DEF TypeOK, RowType
  <2> QED
    BY <1>1, <2>1, <2>3, <2>4, <2>5, <2>6, Unchanged, TypeParts DEF ProducerType
<1>5. CASE AppendBatch(p) \/ AppendFails(p)
  <2>1. batch[p] \in Batches
    BY DEF TypeOK
  <2>2. queue' = queue \/ queue' = Append(queue, batch[p])
    BY <1>5 DEF AppendBatch, AppendFails
  <2>3. queue' \in Seq(Batches)
    <3>1. queue \in Seq(Batches)
      BY DEF TypeOK
    <3> QED
      BY <2>1, <2>2, <3>1
  <2>4. RedisType'
    BY <1>5, <2>3 DEF AppendBatch, AppendFails, RedisType, TypeOK
  <2>5. ProducerType'
    BY <1>5, EmptyBatch DEF AppendBatch, AppendFails, ProducerType, TypeOK, Goto, LockedSteps
  <2>6. UNCHANGED <<rows, consumer>> /\ (Fault \/ UNCHANGED faults)
    BY <1>5 DEF AppendBatch, AppendFails
  <2> QED
    BY <1>1, <2>4, <2>5, <2>6, Unchanged, TypeParts
<1>6. CASE RestoreStatus(p) \/ RestoreFails(p)
  <2>1. /\ UNCHANGED <<retry, business, window, redis, consumer>>
        /\ Fault \/ UNCHANGED faults
    BY <1>6 DEF RestoreStatus, RestoreFails
  <2>2. status' \in [Processes -> Statuses]
    <3>1. "Processing" \in Statuses
      BY DEF Statuses
    <3> QED
      BY <1>6, <3>1, StatusType DEF RestoreStatus, RestoreFails
  <2>3. ProducerType'
    BY <1>6, EmptyBatch DEF RestoreStatus, RestoreFails, ProducerType, TypeOK, Goto, LockedSteps
  <2>4. RowType'
    BY <2>1, <2>2 DEF TypeOK, RowType
  <2> QED
    BY <1>1, <2>1, <2>3, <2>4, Unchanged, TypeParts
<1> QED
  BY <1>2, <1>3, <1>4, <1>5, <1>6 DEF ProducerStep, ProducerFault

\* A step of the consumers or of a workflow keeps the types.
LEMMA ConsumerKeepsType ==
  ASSUME TypeOK, NEW c \in Consumers, ConsumerStep(c) \/ ConsumerFault(c)
  PROVE  TypeOK'
<1>1. /\ UNCHANGED producer => ProducerType'
      /\ UNCHANGED faults => faults' \in 0..MaxFaults
      /\ Fault => faults' \in 0..MaxFaults
  BY Unchanged, FaultType
<1>2. CASE \/ CreateGroup(c) \/ CreateGroupFails(c) \/ ReadBatch(c) \/ NothingToRead(c)
           \/ ReadFails(c) \/ Acknowledge(c) \/ DeleteBatch(c) \/ JoinAll(c)
           \/ ConsumerCrashes(c)
  <2>1. UNCHANGED <<rows, producer, lock>> /\ (Fault \/ UNCHANGED faults)
    BY <1>2 DEF CreateGroup, CreateGroupFails, ReadBatch, NothingToRead, ReadFails,
      Acknowledge, DeleteBatch, JoinAll, ConsumerCrashes, redis
  <2>2. ASSUME queue # <<>> PROVE Head(queue) \in Batches /\ Tail(queue) \in Seq(Batches)
    BY <2>2 DEF TypeOK
  <2>3. queue' \in Seq(Batches)
    <3>1. queue \in Seq(Batches) /\ <<>> \in Seq(Batches)
      BY DEF TypeOK
    <3>2. \/ queue' = queue \/ queue' = <<>>
          \/ queue # <<>> /\ queue' = Tail(queue)
      BY <1>2 DEF CreateGroup, CreateGroupFails, ReadBatch, NothingToRead, ReadFails,
        Acknowledge, DeleteBatch, JoinAll, ConsumerCrashes, redis
    <3> QED
      BY <2>2, <3>1, <3>2
  <2>4. group' \in BOOLEAN
    BY <1>2 DEF CreateGroup, CreateGroupFails, ReadBatch, NothingToRead, ReadFails,
      Acknowledge, DeleteBatch, JoinAll, ConsumerCrashes, redis, TypeOK
  <2>5. received' \in [Consumers -> Batches]
    BY <1>2, <2>2, EmptyBatch DEF CreateGroup, CreateGroupFails, ReadBatch, NothingToRead,
      ReadFails, Acknowledge, DeleteBatch, JoinAll, ConsumerCrashes, TypeOK
  <2>6. work' \in [Consumers -> SUBSET Workflow]
    BY <1>2 DEF CreateGroup, CreateGroupFails, ReadBatch, NothingToRead,
      ReadFails, Acknowledge, DeleteBatch, JoinAll, ConsumerCrashes, TypeOK
  <2>7. cpc' \in [Consumers -> {"idle", "read", "ack", "delete", "start", "join"}]
    BY <1>2 DEF CreateGroup, CreateGroupFails, ReadBatch, NothingToRead,
      ReadFails, Acknowledge, DeleteBatch, JoinAll, ConsumerCrashes, Proceed, TypeOK
  <2>8. RedisType' /\ ConsumerType'
    BY <2>1, <2>3, <2>4, <2>5, <2>6, <2>7 DEF RedisType, ConsumerType, TypeOK
  <2> QED
    BY <1>1, <2>1, <2>8, Unchanged, TypeParts
<1>3. CASE OperationFails(c) \/ StartTasks(c)
  <2>1. /\ UNCHANGED <<retry, business, window, redis, producer>>
        /\ Fault \/ UNCHANGED faults
    BY <1>3 DEF OperationFails, StartTasks
  <2>2. status' \in [Processes -> Statuses]
    <3>1. "ProcessStarted" \in Statuses
      BY DEF Statuses
    <3>2. CASE UNCHANGED status
      BY <3>2 DEF TypeOK
    <3>3. CASE \/ UpdateStatusByIds(IdsOf(Valid(received[c])), "ProcessStarted")
               \/ FailedUpdate(IdsOf(Valid(received[c])), "ProcessStarted")
      BY <3>1, <3>3, StatusType
    <3> QED
      BY <1>3, <3>2, <3>3 DEF OperationFails, StartTasks
  <2>3. {[of |-> s, at |-> "run"] : s \in Valid(received[c])} \subseteq Workflow
    BY DEF Valid, Workflow, Batches, TypeOK
  <2>4. work' \in [Consumers -> SUBSET Workflow]
    BY <1>3, <2>3 DEF OperationFails, StartTasks, TypeOK
  <2>5. received' \in [Consumers -> Batches]
    BY <1>3, EmptyBatch DEF OperationFails, StartTasks, TypeOK
  <2>6. cpc' \in [Consumers -> {"idle", "read", "ack", "delete", "start", "join"}]
    <3>1. \E step \in {"idle", "read", "ack", "delete", "start", "join"} :
            cpc' = [cpc EXCEPT ![c] = step]
      BY <1>3 DEF OperationFails, StartTasks, Proceed
    <3> QED
      BY <3>1 DEF TypeOK
  <2>7. RowType' /\ ConsumerType'
    BY <2>1, <2>2, <2>4, <2>5, <2>6 DEF RowType, ConsumerType, TypeOK
  <2> QED
    BY <1>1, <2>1, <2>7, Unchanged, TypeParts
<1>4. ASSUME NEW w \in work[c],
             WorkflowStep(c, w) \/ WorkflowFails(c, w) \/ WorkflowDies(c, w)
      PROVE  TypeOK'
  <2>1. /\ UNCHANGED <<redis, producer, cpc, received>>
        /\ Fault \/ UNCHANGED faults
    BY <1>4 DEF WorkflowStep, WorkflowUpdates, WorkflowReturns, WorkflowFails, HandleError,
      HandlerFails, FinishAsFailure, WorkflowDies
  <2>2. w \in Workflow /\ w.of \in Snapshot
    BY DEF TypeOK, Workflow
  <2>3. UNCHANGED rows \/ Outcome(w.of) \/ FinishProcess(w.of.id)
    BY <1>4 DEF WorkflowStep, WorkflowUpdates, WorkflowReturns, WorkflowFails, HandleError,
      HandlerFails, FinishAsFailure, WorkflowDies
  <2>4. RowType'
    BY <2>2, <2>3, OutcomeType, Unchanged DEF RowType
  <2>5. Ends(c, w) \/ Becomes(c, w, "error") \/ Becomes(c, w, "fallback")
    BY <1>4 DEF WorkflowStep, WorkflowUpdates, WorkflowReturns, WorkflowFails, HandleError,
      HandlerFails, FinishAsFailure, WorkflowDies
  <2>6. [w EXCEPT !.at = "error"] \in Workflow /\ [w EXCEPT !.at = "fallback"] \in Workflow
    BY <2>2 DEF Workflow
  <2>7. work' \in [Consumers -> SUBSET Workflow]
    <3>1. work[c] \subseteq Workflow
      BY DEF TypeOK
    <3>2. \E W \in SUBSET Workflow : work' = [work EXCEPT ![c] = W]
      <4>1. CASE Ends(c, w)
        BY <3>1, <4>1 DEF Ends
      <4>2. CASE Becomes(c, w, "error") \/ Becomes(c, w, "fallback")
        BY <2>6, <3>1, <4>2 DEF Becomes
      <4> QED
        BY <2>5, <4>1, <4>2
    <3> QED
      BY <3>2 DEF TypeOK
  <2>8. ConsumerType'
    BY <2>1, <2>7 DEF ConsumerType, TypeOK
  <2> QED
    BY <1>1, <2>1, <2>4, <2>8, Unchanged, TypeParts
<1> QED
  BY <1>2, <1>3, <1>4 DEF ConsumerStep, ConsumerFault

\* The type invariant: no step of a producer, a consumer, a workflow or the
\* clock leaves the types, no batch grows past batch_size and no retry count
\* past its bound.
THEOREM SchedulerTyping == Spec => []TypeOK
<1>1. Init => TypeOK
  <2> SUFFICES ASSUME Init PROVE TypeOK
    OBVIOUS
  <2>1. RowType
    BY DEF Init, RowType, Statuses
  <2>2. RedisType
    <3>1. lock \in BOOLEAN /\ group \in BOOLEAN
      BY Zenon DEF Init
    <3>2. queue \in Seq(Batches)
      BY DEF Init
    <3> QED
      BY <3>1, <3>2 DEF RedisType
  <2>3. ProducerType /\ ConsumerType
    BY EmptyBatch DEF Init, ProducerType, ConsumerType
  <2> QED
    BY <2>1, <2>2, <2>3, TypeParts DEF Init
<1>2. TypeOK /\ [Next]_vars => TypeOK'
  <2> SUFFICES ASSUME TypeOK, [Next]_vars PROVE TypeOK'
    OBVIOUS
  <2>1. ASSUME NEW p \in Processes, CreateTask(p) \/ TimePasses(p) PROVE TypeOK'
    <3>1. RowType'
      BY <2>1 DEF CreateTask, TimePasses, RowType, TypeOK, Statuses
    <3> QED
      BY <2>1, <3>1, Unchanged, TypeParts DEF CreateTask, TimePasses
  <2>2. CASE ExpireLock
    <3>1. RedisType'
      BY <2>2 DEF ExpireLock, RedisType, TypeOK
    <3> QED
      BY <2>2, <3>1, Unchanged, TypeParts DEF ExpireLock
  <2>3. CASE UNCHANGED vars
    BY <2>3, Unchanged, TypeParts DEF vars
  <2> QED
    BY <2>1, <2>2, <2>3, ProducerKeepsType, ConsumerKeepsType DEF Next
<1> QED
  BY <1>1, <1>2, PTL DEF Spec

-----------------------------------------------------------------------------
(* Producers exclude each other *)

\* A producer that relies on the lock is the only one, and the lock is set.
LockInv ==
  /\ \A p, q \in Producers : ppc[p] \in LockedSteps /\ ppc[q] \in LockedSteps => p = q
  /\ \A p \in Producers : ppc[p] \in LockedSteps => lock

\* Under a lock that outlives its holder's work, every step keeps LockInv.
LEMMA LockStep ==
  ASSUME TypeOK, SafeTTL, LockInv, [Next]_vars
  PROVE  LockInv'
<1>1. CASE UNCHANGED <<ppc, lock>>
  BY <1>1 DEF LockInv
<1>2. CASE ExpireLock
  BY <1>2 DEF ExpireLock, LockInv, producer
<1>3. ASSUME NEW p \in Producers, ProducerStep(p) \/ ProducerFault(p)
      PROVE  LockInv'
  <2>1. CASE AcquirePtLock(p)
    BY <2>1 DEF AcquirePtLock, LockInv, Goto, TypeOK
  <2>2. CASE AcquireFails(p)
    BY <2>2 DEF AcquireFails, LockInv, producer
  <2>3. CASE ReleasePtLock(p) \/ ReleaseFails(p) \/ ProducerCrashes(p)
    <3>1. ppc' = [ppc EXCEPT ![p] = "idle"]
      BY <2>3 DEF ReleasePtLock, ReleaseFails, ProducerCrashes, Goto
    <3>2. ppc[p] \in LockedSteps
      BY <2>3 DEF ReleasePtLock, ReleaseFails, ProducerCrashes, LockedSteps, TypeOK
    <3>3. "idle" \notin LockedSteps
      BY DEF LockedSteps
    <3> QED
      BY <3>1, <3>2, <3>3 DEF LockInv, TypeOK
  <2>4. CASE \/ SetExpiry(p) \/ SetExpiryFails(p) \/ FetchNew(p) \/ FetchPending(p) \/ FetchFails(p)
             \/ AppendBatch(p) \/ AppendFails(p) \/ RestoreStatus(p) \/ RestoreFails(p)
             \/ AllDivided(p)
             \/ \E B \in SUBSET fetched[p] : UpdateStatus(p, B) \/ UpdateStatusFails(p, B)
    <3>1. ppc[p] \in LockedSteps /\ lock' = lock
      BY <2>4 DEF SetExpiry, SetExpiryFails, FetchNew, FetchPending, FetchFails, AppendBatch, AppendFails,
        RestoreStatus, RestoreFails, AllDivided, UpdateStatus, UpdateStatusFails, NextChunk,
        LockedSteps, redis
    <3>2. \A q \in Producers : q # p => ppc'[q] = ppc[q]
      BY <2>4 DEF SetExpiry, SetExpiryFails, FetchNew, FetchPending, FetchFails, AppendBatch, AppendFails,
        RestoreStatus, RestoreFails, AllDivided, UpdateStatus, UpdateStatusFails, Goto, TypeOK
    <3> QED
      BY <3>1, <3>2 DEF LockInv
  <2> QED
    BY <1>3, <2>1, <2>2, <2>3, <2>4 DEF ProducerStep, ProducerFault
<1>4. ASSUME NEW p \in Processes, CreateTask(p) \/ TimePasses(p)
      PROVE  UNCHANGED <<ppc, lock>>
  BY <1>4 DEF CreateTask, TimePasses, redis, producer
<1>5. ASSUME NEW c \in Consumers, ConsumerStep(c) \/ ConsumerFault(c)
      PROVE  UNCHANGED <<ppc, lock>>
  BY <1>5 DEF ConsumerStep, ConsumerFault, CreateGroup, CreateGroupFails, ReadBatch,
    NothingToRead, ReadFails, Acknowledge, DeleteBatch, OperationFails, StartTasks, JoinAll,
    ConsumerCrashes, WorkflowStep, WorkflowUpdates, WorkflowReturns, WorkflowFails,
    HandleError, HandlerFails, FinishAsFailure, WorkflowDies, redis, producer
<1>6. UNCHANGED vars => UNCHANGED <<ppc, lock>>
  BY DEF vars, redis, producer
<1> QED
  BY <1>1, <1>2, <1>3, <1>4, <1>5, <1>6 DEF Next

\* Producers never work at the same time, for any number of them, whatever
\* calls fail and whoever crashes, if the lock outlives its holder's work.
THEOREM ProducerExclusion == Spec => []ProducersExclude
<1>1. CASE ~SafeTTL
  <2>1. ProducersExclude
    BY <1>1 DEF ProducersExclude
  <2> QED
    BY <2>1, PTL
<1>2. CASE SafeTTL
  <2>1. Init => LockInv
    BY DEF Init, LockInv, LockedSteps
  <2>2. TypeOK /\ LockInv /\ [Next]_vars => LockInv'
    BY <1>2, LockStep
  <2>3. LockInv => ProducersExclude
    BY DEF LockInv, ProducersExclude
  <2> QED
    BY <2>1, <2>2, <2>3, SchedulerTyping, PTL DEF Spec
<1> QED
  BY <1>1, <1>2

-----------------------------------------------------------------------------
(* Every process is in one place at a time *)

\* Two sets of snapshots without a process in common.
Apart(A, B) == \A s \in A, t \in B : s.id # t.id

\* A set of snapshots that holds one of each process, with the count it has.
Sound(A, count) ==
  /\ \A s, t \in A : s.id = t.id => s = t
  /\ \A s \in A : s.retry = count[s.id]

\* The batch a producer may still append.
Appending(p) == IF ppc[p] = "append" THEN batch[p] ELSE {}

\* What a producer may still append.
Carry(p) == fetched[p] \cup Appending(p)

\* An update that reported an error may have been committed.
Hidden == HiddenWrites /\ faults # 0

\* What a consumer may still run or is running.  A workflow that failed after
\* an update it does not know of may have let go of its process.
Held(c) == received[c] \cup {w.of : w \in {v \in work[c] : Hidden => v.at = "run"}}

\* The local state a process keeps at each of its steps.
StepInv ==
  /\ \A p \in Producers :
       fetched[p] # {} => ppc[p] \in {"pending", "divide", "append", "restore"}
  /\ \A c \in Consumers :
       /\ received[c] # {} => cpc[c] \in {"ack", "delete", "start"}
       /\ work[c] # {} => cpc[c] = "join"
       /\ \A v, w \in work[c] : v.of = w.of => v = w

\* A row that a producer may fetch, or that is yet to be inserted.
Open == {"none", "New", "Pending"}

\* Within one place and between two places no process is met twice.
PlaceInv ==
  /\ \A p \in Producers : Sound(Carry(p), retry) /\ Apart(fetched[p], Appending(p))
  /\ \A i \in 1..Len(queue) : Sound(queue[i], retry)
  /\ \A c \in Consumers : Sound(Held(c), retry)
  /\ \A p \in Producers, i \in 1..Len(queue) : Apart(Carry(p), queue[i])
  /\ \A p \in Producers, c \in Consumers : Apart(Carry(p), Held(c))
  /\ \A i, j \in 1..Len(queue) : i # j => Apart(queue[i], queue[j])
  /\ \A i \in 1..Len(queue), c \in Consumers : Apart(queue[i], Held(c))
  /\ \A c, d \in Consumers : c # d => Apart(Held(c), Held(d))

\* A process on its way cannot be fetched; one just fetched as New has not
\* become Pending.
StatusInv ==
  /\ \A p \in Producers : \A s \in Appending(p) : status[s.id] \notin Open
  /\ \A i \in 1..Len(queue) : \A s \in queue[i] : status[s.id] \notin Open
  /\ \A c \in Consumers : \A s \in Held(c) : status[s.id] \notin Open
  /\ \A p \in Producers : ppc[p] = "pending" => \A s \in fetched[p] : status[s.id] # "Pending"

CopyInv == LockInv /\ StepInv /\ PlaceInv /\ StatusInv

\* Every step keeps the local state in line with the step.
LEMMA StepInvStep ==
  ASSUME TypeOK, StepInv, [Next]_vars
  PROVE  StepInv'
<1>1. CASE UNCHANGED <<producer, consumer>>
  BY <1>1 DEF StepInv, producer, consumer
<1>2. ASSUME NEW p \in Producers, ProducerStep(p) \/ ProducerFault(p)
      PROVE  StepInv'
  <2>1. UNCHANGED consumer
    BY <1>2 DEF ProducerStep, ProducerFault, AcquirePtLock, SetExpiry, FetchNew, FetchPending,
      UpdateStatus, AppendBatch, RestoreStatus, AllDivided, ReleasePtLock, AcquireFails,
      SetExpiryFails, FetchFails, UpdateStatusFails, AppendFails, RestoreFails, ReleaseFails,
      ProducerCrashes
  <2>2. \A q \in Producers : q # p => ppc'[q] = ppc[q] /\ fetched'[q] = fetched[q]
    BY <1>2 DEF ProducerStep, ProducerFault, AcquirePtLock, SetExpiry, FetchNew, FetchPending,
      UpdateStatus, AppendBatch, RestoreStatus, AllDivided, ReleasePtLock, AcquireFails,
      SetExpiryFails, FetchFails, UpdateStatusFails, AppendFails, RestoreFails, ReleaseFails,
      ProducerCrashes, Goto, producer, TypeOK
  <2>3. fetched'[p] # {} => ppc'[p] \in {"pending", "divide", "append", "restore"}
    BY <1>2 DEF ProducerStep, ProducerFault, AcquirePtLock, SetExpiry, FetchNew, FetchPending,
      UpdateStatus, AppendBatch, RestoreStatus, AllDivided, ReleasePtLock, AcquireFails,
      SetExpiryFails, FetchFails, UpdateStatusFails, AppendFails, RestoreFails, ReleaseFails,
      ProducerCrashes, NextChunk, Goto, producer, TypeOK, StepInv
  <2> QED
    BY <2>1, <2>2, <2>3 DEF StepInv, consumer
<1>3. ASSUME NEW c \in Consumers, ConsumerStep(c) \/ ConsumerFault(c)
      PROVE  StepInv'
  <2>1. UNCHANGED producer
    BY <1>3 DEF ConsumerStep, ConsumerFault, CreateGroup, CreateGroupFails, ReadBatch,
      NothingToRead, ReadFails, Acknowledge, DeleteBatch, OperationFails, StartTasks, JoinAll,
      ConsumerCrashes, WorkflowStep, WorkflowUpdates, WorkflowReturns, WorkflowFails,
      HandleError, HandlerFails, FinishAsFailure, WorkflowDies
  <2>2. \A d \in Consumers :
          d # c => cpc'[d] = cpc[d] /\ received'[d] = received[d] /\ work'[d] = work[d]
    BY <1>3 DEF ConsumerStep, ConsumerFault, CreateGroup, CreateGroupFails, ReadBatch,
      NothingToRead, ReadFails, Acknowledge, DeleteBatch, OperationFails, StartTasks, JoinAll,
      ConsumerCrashes, WorkflowStep, WorkflowUpdates, WorkflowReturns, WorkflowFails,
      HandleError, HandlerFails, FinishAsFailure, WorkflowDies, Proceed, Ends, Becomes, TypeOK
  <2>3. /\ received'[c] # {} => cpc'[c] \in {"ack", "delete", "start"}
        /\ work'[c] # {} => cpc'[c] = "join"
    <3>1. CASE \/ CreateGroup(c) \/ CreateGroupFails(c) \/ ReadBatch(c) \/ NothingToRead(c)
               \/ ReadFails(c) \/ Acknowledge(c) \/ DeleteBatch(c) \/ OperationFails(c)
               \/ StartTasks(c) \/ JoinAll(c) \/ ConsumerCrashes(c)
      BY <3>1 DEF CreateGroup, CreateGroupFails, ReadBatch, NothingToRead, ReadFails,
        Acknowledge, DeleteBatch, OperationFails, StartTasks, JoinAll, ConsumerCrashes,
        Proceed, TypeOK, StepInv
    <3>2. ASSUME NEW w \in work[c],
                 WorkflowStep(c, w) \/ WorkflowFails(c, w) \/ WorkflowDies(c, w)
          PROVE  UNCHANGED <<cpc, received>> /\ work[c] # {}
      BY <3>2 DEF WorkflowStep, WorkflowUpdates, WorkflowReturns, WorkflowFails,
        HandleError, HandlerFails, FinishAsFailure, WorkflowDies
    <3> QED
      BY <1>3, <3>1, <3>2 DEF ConsumerStep, ConsumerFault, StepInv
  <2>4. \A v, w \in work'[c] : v.of = w.of => v = w
    <3>1. CASE work'[c] \subseteq work[c]
      BY <3>1 DEF StepInv
    <3>2. CASE StartTasks(c)
      BY <3>2 DEF StartTasks, TypeOK
    <3>3. ASSUME NEW w \in work[c], NEW step \in {"error", "fallback"}, Becomes(c, w, step)
          PROVE  \A u, v \in work'[c] : u.of = v.of => u = v
      <4>1. w \in Workflow
        BY DEF TypeOK
      <4>2. [w EXCEPT !.at = step].of = w.of
        BY <4>1 DEF Workflow
      <4>3. work'[c] = (work[c] \ {w}) \cup {[w EXCEPT !.at = step]}
        BY <3>3 DEF Becomes, TypeOK
      <4>4. \A u, v \in work[c] : u.of = v.of => u = v
        BY DEF StepInv
      <4> QED
        BY <4>2, <4>3, <4>4
    <3>4. CASE \/ CreateGroup(c) \/ CreateGroupFails(c) \/ ReadBatch(c) \/ NothingToRead(c)
               \/ ReadFails(c) \/ Acknowledge(c) \/ DeleteBatch(c) \/ OperationFails(c)
               \/ JoinAll(c) \/ ConsumerCrashes(c)
      <4>1. work'[c] \subseteq work[c]
        BY <3>4 DEF CreateGroup, CreateGroupFails, ReadBatch, NothingToRead, ReadFails,
          Acknowledge, DeleteBatch, OperationFails, JoinAll, ConsumerCrashes, TypeOK
      <4> QED
        BY <3>1, <4>1
    <3>5. ASSUME NEW w \in work[c], Ends(c, w) PROVE work'[c] \subseteq work[c]
      BY <3>5 DEF Ends, TypeOK
    <3>6. ASSUME NEW w \in work[c],
                 WorkflowStep(c, w) \/ WorkflowFails(c, w) \/ WorkflowDies(c, w)
          PROVE  Ends(c, w) \/ \E step \in {"error", "fallback"} : Becomes(c, w, step)
      BY <3>6 DEF WorkflowStep, WorkflowUpdates, WorkflowReturns, WorkflowFails,
        HandleError, HandlerFails, FinishAsFailure, WorkflowDies
    <3> QED
      BY <1>3, <3>1, <3>2, <3>3, <3>4, <3>5, <3>6 DEF ConsumerStep, ConsumerFault
  <2> QED
    BY <2>1, <2>2, <2>3, <2>4 DEF StepInv, producer
<1>4. ASSUME NEW p \in Processes, CreateTask(p) \/ TimePasses(p)
      PROVE  UNCHANGED <<producer, consumer>>
  BY <1>4 DEF CreateTask, TimePasses
<1>5. ExpireLock \/ UNCHANGED vars => UNCHANGED <<producer, consumer>>
  BY DEF ExpireLock, vars
<1> QED
  BY <1>1, <1>2, <1>3, <1>4, <1>5 DEF Next

\* No place gains a process, no row is opened again, no count changes.
Shrinks ==
  /\ \A p \in Producers :
       /\ Carry(p)' \subseteq Carry(p)
       /\ Appending(p)' \subseteq Appending(p)
       /\ fetched'[p] \subseteq fetched[p]
       /\ ppc'[p] = "pending" => ppc[p] = "pending" \/ fetched'[p] = {}
  /\ \E k \in {0, 1} : \A i \in 1..Len(queue') :
       i + k \in 1..Len(queue) /\ queue'[i] = queue[i + k]
  /\ \A c \in Consumers : Held(c)' \subseteq Held(c)
  /\ retry' = retry
  /\ \A x \in Processes :
       /\ status'[x] \in Open => status[x] \in Open
       /\ status'[x] = "Pending" => status[x] = "Pending"

\* Every snapshot that is somewhere is one of a process.
LEMMA IdsInPlaces ==
  ASSUME TypeOK
  PROVE  /\ \A p \in Producers : \A s \in Carry(p) : s.id \in Processes
         /\ \A i \in 1..Len(queue) : \A s \in queue[i] : s.id \in Processes
         /\ \A c \in Consumers : \A s \in Held(c) : s.id \in Processes
<1>1. \A p \in Producers : Carry(p) \subseteq Snapshot
  BY DEF TypeOK, Carry, Appending, Batches
<1>2. \A i \in 1..Len(queue) : queue[i] \subseteq Snapshot
  BY DEF TypeOK, Batches
<1>3. \A c \in Consumers : Held(c) \subseteq Snapshot
  BY DEF TypeOK, Held, Batches, Workflow
<1> QED
  BY <1>1, <1>2, <1>3 DEF Snapshot

\* Such a step keeps what is said of the places and of the rows.
LEMMA ShrinkKeeps ==
  ASSUME TypeOK, PlaceInv, StatusInv, Shrinks
  PROVE  PlaceInv' /\ StatusInv'
<1>1. PICK k \in {0, 1} : \A i \in 1..Len(queue') :
        i + k \in 1..Len(queue) /\ queue'[i] = queue[i + k]
  BY DEF Shrinks
<1>2. PlaceInv'
  <2>1. \A A, B : A \subseteq B /\ Sound(B, retry) => Sound(A, retry)
    BY DEF Sound
  <2>2. \A A, B, C, D : A \subseteq C /\ B \subseteq D /\ Apart(C, D) => Apart(A, B)
    BY DEF Apart
  <2>3. retry' = retry
    BY DEF Shrinks
  <2>4. \A p \in Producers : Sound(Carry(p)', retry) /\ Apart(fetched'[p], Appending(p)')
    BY <2>1, <2>2 DEF PlaceInv, Shrinks
  <2>5. \A i \in 1..Len(queue') : Sound(queue'[i], retry)
    BY <1>1 DEF PlaceInv
  <2>6. \A c \in Consumers : Sound(Held(c)', retry)
    BY <2>1 DEF PlaceInv, Shrinks
  <2>7. \A p \in Producers, i \in 1..Len(queue') : Apart(Carry(p)', queue'[i])
    <3>1. \A p \in Producers, i \in 1..Len(queue) : Apart(Carry(p), queue[i])
      BY DEF PlaceInv
    <3>2. \A p \in Producers : Carry(p)' \subseteq Carry(p)
      BY DEF Shrinks
    <3>3. \A p \in Producers, i \in 1..Len(queue) : Apart(Carry(p)', queue[i])
      BY <2>2, <3>1, <3>2
    <3> QED
      BY <1>1, <3>3
  <2>8. \A p \in Producers, c \in Consumers : Apart(Carry(p)', Held(c)')
    BY <2>2 DEF PlaceInv, Shrinks
  <2>9. \A i, j \in 1..Len(queue') : i # j => Apart(queue'[i], queue'[j])
    <3>1. \A i, j \in 1..Len(queue) : i # j => Apart(queue[i], queue[j])
      BY DEF PlaceInv
    <3>2. \A i, j \in 1..Len(queue') : i # j => i + k # j + k
      OBVIOUS
    <3> QED
      BY <1>1, <3>1, <3>2
  <2>10. \A i \in 1..Len(queue'), c \in Consumers : Apart(queue'[i], Held(c)')
    BY <1>1, <2>2 DEF PlaceInv, Shrinks
  <2>11. \A c, d \in Consumers : c # d => Apart(Held(c)', Held(d)')
    BY <2>2 DEF PlaceInv, Shrinks
  <2> QED
    BY <2>3, <2>4, <2>5, <2>6, <2>7, <2>8, <2>9, <2>10, <2>11 DEF PlaceInv
<1>3. StatusInv'
  <2>1. \A p \in Producers : \A s \in Appending(p)' : status'[s.id] \notin Open
    <3>1. \A p \in Producers : \A s \in Appending(p) : s.id \in Processes
      BY IdsInPlaces DEF Carry
    <3> QED
      BY <3>1 DEF StatusInv, Shrinks
  <2>2. \A i \in 1..Len(queue') : \A s \in queue'[i] : status'[s.id] \notin Open
    BY <1>1, IdsInPlaces DEF StatusInv, Shrinks
  <2>3. \A c \in Consumers : \A s \in Held(c)' : status'[s.id] \notin Open
    BY IdsInPlaces DEF StatusInv, Shrinks
  <2>4. \A p \in Producers : ppc'[p] = "pending" =>
          \A s \in fetched'[p] : status'[s.id] # "Pending"
    <3>1. \A p \in Producers : \A s \in fetched[p] : s.id \in Processes
      BY IdsInPlaces DEF Carry
    <3> QED
      BY <3>1 DEF StatusInv, Shrinks
  <2> QED
    BY <2>1, <2>2, <2>3, <2>4 DEF StatusInv, Open
<1> QED
  BY <1>2, <1>3

\* The queue loses nothing but its head or all of it.
LEMMA QueueShrinks ==
  ASSUME queue \in Seq(Batches),
         queue' = queue \/ queue' = <<>> \/ (queue # <<>> /\ queue' = Tail(queue))
  PROVE  \E k \in {0, 1} : \A i \in 1..Len(queue') :
           i + k \in 1..Len(queue) /\ queue'[i] = queue[i + k]
<1>1. CASE queue' = queue
  <2>1. \A i \in 1..Len(queue') : i + 0 \in 1..Len(queue) /\ queue'[i] = queue[i + 0]
    BY <1>1
  <2> QED
    BY <2>1
<1>2. CASE queue' = <<>>
  BY <1>2
<1>3. CASE queue # <<>> /\ queue' = Tail(queue)
  <2>1. \A i \in 1..Len(queue') : i + 1 \in 1..Len(queue) /\ queue'[i] = queue[i + 1]
    BY <1>3
  <2> QED
    BY <2>1
<1> QED
  BY <1>1, <1>2, <1>3

\* What is hidden stays so: no fault is taken back.
LEMMA HiddenStays ==
  ASSUME TypeOK, UNCHANGED faults \/ Fault
  PROVE  Hidden => Hidden'
<1>1. faults \in Nat
  BY DEF TypeOK
<1> QED
  BY <1>1 DEF Hidden, Fault

\* What the producers and the consumers do not touch stays where it is.
LEMMA Untouched ==
  ASSUME TypeOK, UNCHANGED faults \/ Fault
  PROVE  /\ UNCHANGED producer =>
              \A p \in Producers : /\ Carry(p)' = Carry(p)
                                   /\ Appending(p)' = Appending(p)
                                   /\ fetched'[p] = fetched[p]
                                   /\ ppc'[p] = ppc[p]
         /\ UNCHANGED consumer => \A c \in Consumers : Held(c)' \subseteq Held(c)
<1>1. UNCHANGED producer =>
        \A p \in Producers : /\ Carry(p)' = Carry(p)
                             /\ Appending(p)' = Appending(p)
                             /\ fetched'[p] = fetched[p]
                             /\ ppc'[p] = ppc[p]
  BY DEF producer, Carry, Appending
<1>2. UNCHANGED consumer => \A c \in Consumers : Held(c)' \subseteq Held(c)
  BY HiddenStays DEF consumer, Held
<1> QED
  BY <1>1, <1>2

\* Steps of a producer that only drop what it carries, or touch nothing of it.
LEMMA ProducerShrinks ==
  ASSUME TypeOK, NEW p \in Producers,
         \/ AcquirePtLock(p) \/ AcquireFails(p) \/ SetExpiry(p) \/ SetExpiryFails(p)
         \/ FetchFails(p) \/ RestoreStatus(p) \/ RestoreFails(p) \/ AllDivided(p)
         \/ ReleasePtLock(p) \/ ReleaseFails(p) \/ ProducerCrashes(p)
         \/ AppendFails(p) /\ queue' = queue
         \/ \E B \in SUBSET fetched[p] : UpdateStatusFails(p, B)
  PROVE  Shrinks
<1>1. UNCHANGED <<retry, queue, consumer>> /\ (UNCHANGED faults \/ Fault)
  BY DEF AcquirePtLock, AcquireFails, SetExpiry, SetExpiryFails, FetchFails, RestoreStatus,
    RestoreFails, AllDivided, ReleasePtLock, ReleaseFails, ProducerCrashes, AppendFails,
    UpdateStatusFails, rows, redis
<1>2. \A q \in Producers :
        q # p => ppc'[q] = ppc[q] /\ fetched'[q] = fetched[q] /\ batch'[q] = batch[q]
  BY DEF AcquirePtLock, AcquireFails, SetExpiry, SetExpiryFails, FetchFails, RestoreStatus,
    RestoreFails, AllDivided, ReleasePtLock, ReleaseFails, ProducerCrashes, AppendFails,
    UpdateStatusFails, Goto, TypeOK, producer
<1>3. /\ fetched'[p] \subseteq fetched[p]
      /\ ppc'[p] = "append" => ppc[p] = "append" /\ batch'[p] = batch[p]
      /\ ppc'[p] = "pending" => ppc[p] = "pending"
  BY DEF AcquirePtLock, AcquireFails, SetExpiry, SetExpiryFails, FetchFails, RestoreStatus,
    RestoreFails, AllDivided, ReleasePtLock, ReleaseFails, ProducerCrashes, AppendFails,
    UpdateStatusFails, NextChunk, Goto, TypeOK, producer
<1>4. \A q \in Producers :
        /\ Carry(q)' \subseteq Carry(q)
        /\ Appending(q)' \subseteq Appending(q)
        /\ fetched'[q] \subseteq fetched[q]
        /\ ppc'[q] = "pending" => ppc[q] = "pending" \/ fetched'[q] = {}
  BY <1>2, <1>3 DEF Carry, Appending
<1>5. \A x \in Processes : status'[x] = status[x] \/ status'[x] = "Processing"
  <2>1. UNCHANGED status \/ \E ids : UpdateStatusByIds(ids, "Processing")
    BY DEF AcquirePtLock, AcquireFails, SetExpiry, SetExpiryFails, FetchFails, RestoreStatus,
      RestoreFails, AllDivided, ReleasePtLock, ReleaseFails, ProducerCrashes, AppendFails,
      UpdateStatusFails, FailedUpdate, rows
  <2> QED
    BY <2>1 DEF UpdateStatusByIds
<1>6. \A x \in Processes :
        /\ status'[x] \in Open => status[x] \in Open
        /\ status'[x] = "Pending" => status[x] = "Pending"
  BY <1>5 DEF Open
<1>7. \E k \in {0, 1} : \A i \in 1..Len(queue') :
        i + k \in 1..Len(queue) /\ queue'[i] = queue[i + k]
  BY <1>1, QueueShrinks DEF TypeOK
<1> QED
  BY <1>1, <1>4, <1>6, <1>7, Untouched DEF Shrinks

\* Steps of a consumer and of a workflow that take in nothing new.
LEMMA ConsumerShrinks ==
  ASSUME TypeOK, StepInv, NEW c \in Consumers,
         \/ CreateGroup(c) \/ CreateGroupFails(c) \/ NothingToRead(c) \/ ReadFails(c)
         \/ Acknowledge(c) \/ DeleteBatch(c) \/ OperationFails(c) \/ StartTasks(c)
         \/ JoinAll(c) \/ ConsumerCrashes(c)
         \/ \E w \in work[c] :
              \/ WorkflowReturns(c, w) \/ HandleError(c, w) \/ HandlerFails(c, w)
              \/ FinishAsFailure(c, w) \/ WorkflowDies(c, w)
              \/ WorkflowFails(c, w) /\ UNCHANGED rows
  PROVE  Shrinks
<1>1. UNCHANGED <<retry, producer>> /\ (UNCHANGED faults \/ Fault)
  BY DEF CreateGroup, CreateGroupFails, NothingToRead, ReadFails, Acknowledge, DeleteBatch,
    OperationFails, StartTasks, JoinAll, ConsumerCrashes, WorkflowReturns, HandleError,
    HandlerFails, FinishAsFailure, WorkflowDies, WorkflowFails, FinishProcess, rows
<1>0. Hidden => Hidden'
  BY <1>1, HiddenStays
<1>2. \A d \in Consumers : d # c => received'[d] = received[d] /\ work'[d] = work[d]
  BY DEF CreateGroup, CreateGroupFails, NothingToRead, ReadFails, Acknowledge, DeleteBatch,
    OperationFails, StartTasks, JoinAll, ConsumerCrashes, WorkflowReturns, HandleError,
    HandlerFails, FinishAsFailure, WorkflowDies, WorkflowFails, Ends, Becomes, TypeOK
<1>3. Held(c)' \subseteq Held(c)
  <2>1. CASE \/ CreateGroup(c) \/ CreateGroupFails(c) \/ NothingToRead(c) \/ ReadFails(c)
             \/ Acknowledge(c) \/ DeleteBatch(c) \/ OperationFails(c)
             \/ JoinAll(c) \/ ConsumerCrashes(c)
    <3>1. received'[c] \subseteq received[c] /\ work'[c] \subseteq work[c]
      BY <2>1 DEF CreateGroup, CreateGroupFails, NothingToRead, ReadFails, Acknowledge,
        DeleteBatch, OperationFails, JoinAll, ConsumerCrashes, TypeOK
    <3> QED
      BY <1>0, <3>1 DEF Held
  <2>2. CASE StartTasks(c)
    <3>1. received'[c] = {}
      BY <2>2 DEF StartTasks, TypeOK
    <3>2. work'[c] = {[of |-> s, at |-> "run"] : s \in Valid(received[c])}
      BY <2>2 DEF StartTasks, TypeOK
    <3>3. \A w \in work'[c] : w.of \in received[c]
      BY <3>2 DEF Valid
    <3> QED
      BY <3>1, <3>3 DEF Held
  <2>3. ASSUME NEW w \in work[c],
               \/ WorkflowReturns(c, w) \/ HandleError(c, w) \/ HandlerFails(c, w)
               \/ FinishAsFailure(c, w) \/ WorkflowDies(c, w) \/ WorkflowFails(c, w)
        PROVE  Held(c)' \subseteq Held(c)
    <3>1. received' = received
      BY <2>3 DEF WorkflowReturns, HandleError, HandlerFails, FinishAsFailure, WorkflowDies,
        WorkflowFails
    <3>2. w \in Workflow
      BY DEF TypeOK
    <3>3. \A v \in work'[c] : v \in work[c] \/ (v.at # "run" /\ v.of = w.of)
      <4>1. CASE Ends(c, w)
        BY <4>1 DEF Ends, TypeOK
      <4>2. ASSUME NEW step \in {"error", "fallback"}, Becomes(c, w, step)
            PROVE  \A v \in work'[c] : v \in work[c] \/ (v.at # "run" /\ v.of = w.of)
        <5>1. [w EXCEPT !.at = step].at = step /\ [w EXCEPT !.at = step].of = w.of
          BY <3>2 DEF Workflow
        <5>2. work'[c] = (work[c] \ {w}) \cup {[w EXCEPT !.at = step]}
          BY <4>2 DEF Becomes, TypeOK
        <5> QED
          BY <5>1, <5>2
      <4> QED
        BY <2>3, <4>1, <4>2 DEF WorkflowReturns, HandleError, HandlerFails, FinishAsFailure,
          WorkflowDies, WorkflowFails
    <3> QED
      BY <1>0, <3>1, <3>3 DEF Held
  <2> QED
    BY <2>1, <2>2, <2>3
<1>4. \A d \in Consumers : Held(d)' \subseteq Held(d)
  BY <1>0, <1>2, <1>3 DEF Held
<1>5. \A x \in Processes : status'[x] = status[x] \/ status'[x] \in {"ProcessStarted", "Finish"}
  <2>1. \/ UNCHANGED status
        \/ \E ids : UpdateStatusByIds(ids, "ProcessStarted")
        \/ \E x : FinishProcess(x)
    BY DEF CreateGroup, CreateGroupFails, NothingToRead, ReadFails, Acknowledge, DeleteBatch,
      OperationFails, StartTasks, JoinAll, ConsumerCrashes, WorkflowReturns, HandleError,
      HandlerFails, FinishAsFailure, WorkflowDies, WorkflowFails, FailedUpdate, rows
  <2> QED
    BY <2>1 DEF UpdateStatusByIds, FinishProcess, TypeOK
<1>6. \A x \in Processes :
        /\ status'[x] \in Open => status[x] \in Open
        /\ status'[x] = "Pending" => status[x] = "Pending"
  BY <1>5 DEF Open
<1>7. \E k \in {0, 1} : \A i \in 1..Len(queue') :
        i + k \in 1..Len(queue) /\ queue'[i] = queue[i + k]
  <2>1. queue' = queue \/ queue' = <<>> \/ (queue # <<>> /\ queue' = Tail(queue))
    BY DEF CreateGroup, CreateGroupFails, NothingToRead, ReadFails, Acknowledge, DeleteBatch,
      OperationFails, StartTasks, JoinAll, ConsumerCrashes, WorkflowReturns, HandleError,
      HandlerFails, FinishAsFailure, WorkflowDies, WorkflowFails, redis
  <2> QED
    BY <2>1, QueueShrinks DEF TypeOK
<1> QED
  BY <1>1, <1>4, <1>6, <1>7, Untouched DEF Shrinks

\* The application, the clock and the lock's expiry move no process.
LEMMA WorldShrinks ==
  ASSUME TypeOK,
         \/ \E x \in Processes : CreateTask(x) \/ TimePasses(x)
         \/ ExpireLock \/ UNCHANGED vars
  PROVE  Shrinks
<1>1. UNCHANGED <<retry, queue, producer, consumer, faults>>
  BY DEF CreateTask, TimePasses, ExpireLock, vars, rows, redis
<1>2. \A x \in Processes : status'[x] = status[x] \/ (status[x] = "none" /\ status'[x] = "New")
  BY DEF CreateTask, TimePasses, ExpireLock, vars, rows, TypeOK
<1>3. \A x \in Processes :
        /\ status'[x] \in Open => status[x] \in Open
        /\ status'[x] = "Pending" => status[x] = "Pending"
  BY <1>2 DEF Open
<1>4. \E k \in {0, 1} : \A i \in 1..Len(queue') :
        i + k \in 1..Len(queue) /\ queue'[i] = queue[i + k]
  BY <1>1, QueueShrinks DEF TypeOK
<1> QED
  BY <1>1, <1>3, <1>4, Untouched DEF Shrinks

\* A producer fetches only what is nowhere: the rows it reads are open.
LEMMA FetchKeeps ==
  ASSUME TypeOK, LockInv, StepInv, PlaceInv, StatusInv,
         NEW p \in Producers, FetchNew(p) \/ FetchPending(p)
  PROVE  PlaceInv' /\ StatusInv'
<1>1. UNCHANGED <<rows, redis, batch, consumer, faults>>
  BY DEF FetchNew, FetchPending
<1>2. \A q \in Producers : q # p => ppc'[q] = ppc[q] /\ fetched'[q] = fetched[q]
  BY DEF FetchNew, FetchPending, Goto, TypeOK
<1>3. PICK st \in {"New", "Pending"} :
        /\ fetched'[p] = fetched[p] \cup FindByTimeStatus(st)
        /\ \A s \in fetched[p] : status[s.id] # st
        /\ ppc'[p] = "pending" => st = "New" /\ fetched[p] = {}
  <2>1. CASE FetchNew(p)
    <3>1. fetched[p] = {}
      BY <2>1 DEF FetchNew, StepInv
    <3> QED
      BY <2>1, <3>1 DEF FetchNew, TypeOK
  <2>2. CASE FetchPending(p)
    BY <2>2 DEF FetchPending, Goto, TypeOK, StatusInv
  <2> QED
    BY <2>1, <2>2
<1>4. \A s \in FindByTimeStatus(st) : s = SnapshotOf(s.id) /\ status[s.id] = st
  BY DEF FindByTimeStatus, SnapshotOf
<1>5. ppc'[p] # "append" /\ ppc[p] # "append"
  BY DEF FetchNew, FetchPending, Goto, TypeOK
<1>6. Carry(p)' = fetched[p] \cup FindByTimeStatus(st) /\ Appending(p)' = {}
      /\ Carry(p) = fetched[p]
  BY <1>3, <1>5 DEF Carry, Appending
<1>7. \A q \in Producers :
        q # p => Carry(q)' = Carry(q) /\ Appending(q)' = Appending(q)
  BY <1>1, <1>2 DEF Carry, Appending
<1>8. \A c \in Consumers : Held(c)' = Held(c)
  BY <1>1 DEF Held, Hidden, consumer
<1>9. queue' = queue /\ retry' = retry /\ status' = status
  BY <1>1 DEF rows, redis
<1>10. st \in Open
  BY DEF Open
<1>11. Sound(Carry(p)', retry)
  <2>1. \A s, t \in Carry(p)' : s.id = t.id => s = t
    <3>1. \A s, t \in fetched[p] : s.id = t.id => s = t
      BY <1>6 DEF PlaceInv, Sound
    <3> QED
      BY <1>3, <1>4, <1>6, <3>1
  <2>2. \A s \in FindByTimeStatus(st) : s.retry = retry[s.id]
    BY <1>4 DEF SnapshotOf
  <2>3. \A s \in fetched[p] : s.retry = retry[s.id]
    BY <1>6 DEF PlaceInv, Sound
  <2> QED
    BY <1>6, <2>1, <2>2, <2>3 DEF Sound
<1>12. \A i \in 1..Len(queue) : Apart(Carry(p)', queue[i])
  <2>1. \A i \in 1..Len(queue) : Apart(fetched[p], queue[i])
    BY <1>6 DEF PlaceInv
  <2>2. \A i \in 1..Len(queue) : \A t \in queue[i] : status[t.id] \notin Open
    BY DEF StatusInv
  <2> QED
    BY <1>4, <1>6, <1>10, <2>1, <2>2 DEF Apart
<1>13. \A c \in Consumers : Apart(Carry(p)', Held(c))
  <2>1. \A c \in Consumers : Apart(fetched[p], Held(c))
    BY <1>6 DEF PlaceInv
  <2>2. \A c \in Consumers : \A t \in Held(c) : status[t.id] \notin Open
    BY DEF StatusInv
  <2> QED
    BY <1>4, <1>6, <1>10, <2>1, <2>2 DEF Apart
<1>14. PlaceInv'
  <2>1. \A q \in Producers : Sound(Carry(q)', retry') /\ Apart(fetched'[q], Appending(q)')
    <3>1. Apart(fetched'[p], Appending(p)')
      BY <1>6 DEF Apart
    <3> QED
      BY <1>2, <1>7, <1>9, <1>11, <3>1 DEF PlaceInv
  <2>2. \A q \in Producers, i \in 1..Len(queue') : Apart(Carry(q)', queue'[i])
    BY <1>7, <1>9, <1>12 DEF PlaceInv
  <2>3. \A q \in Producers, c \in Consumers : Apart(Carry(q)', Held(c)')
    BY <1>7, <1>8, <1>13 DEF PlaceInv
  <2> QED
    BY <1>8, <1>9, <2>1, <2>2, <2>3 DEF PlaceInv
<1>15. StatusInv'
  <2>1. \A q \in Producers : \A s \in Appending(q)' : status'[s.id] \notin Open
    BY <1>6, <1>7, <1>9 DEF StatusInv
  <2>2. \A q \in Producers : ppc'[q] = "pending" =>
          \A s \in fetched'[q] : status'[s.id] # "Pending"
    BY <1>2, <1>3, <1>4, <1>9 DEF StatusInv
  <2> QED
    BY <1>8, <1>9, <2>1, <2>2 DEF StatusInv, Open
<1> QED
  BY <1>14, <1>15

\* A chunk that is marked moves from what is fetched to what is appended.
LEMMA UpdateKeeps ==
  ASSUME TypeOK, PlaceInv, StatusInv, NEW p \in Producers,
         NEW B \in SUBSET fetched[p], UpdateStatus(p, B)
  PROVE  PlaceInv' /\ StatusInv'
<1>1. UNCHANGED <<retry, redis, consumer, faults>>
  BY DEF UpdateStatus
<1>2. \A q \in Producers :
        q # p => ppc'[q] = ppc[q] /\ fetched'[q] = fetched[q] /\ batch'[q] = batch[q]
  BY DEF UpdateStatus, Goto, TypeOK
<1>3. fetched'[p] = fetched[p] \ B /\ Appending(p)' = B /\ ppc'[p] = "append"
  BY DEF UpdateStatus, Goto, TypeOK, Appending
<1>4. \A q \in Producers : q # p => Carry(q)' = Carry(q) /\ Appending(q)' = Appending(q)
  BY <1>2 DEF Carry, Appending
<1>5. Carry(p)' \subseteq Carry(p)
  BY <1>3 DEF Carry
<1>6. \A c \in Consumers : Held(c)' = Held(c)
  BY <1>1 DEF Held, Hidden, consumer
<1>7. queue' = queue /\ retry' = retry
  BY <1>1 DEF redis
<1>8. Sound(Carry(p), retry)
  BY DEF PlaceInv
<1>9. Apart(fetched'[p], Appending(p)')
  BY <1>3, <1>8 DEF Sound, Apart, Carry
<1>10. PlaceInv'
  <2>1. \A q \in Producers : Carry(q)' \subseteq Carry(q)
    BY <1>4, <1>5
  <2>2. \A q \in Producers : Sound(Carry(q)', retry')
    BY <1>7, <2>1 DEF PlaceInv, Sound
  <2>3. \A q \in Producers : Apart(fetched'[q], Appending(q)')
    BY <1>2, <1>4, <1>9 DEF PlaceInv
  <2>4. \A q \in Producers, i \in 1..Len(queue') : Apart(Carry(q)', queue'[i])
    BY <1>7, <2>1 DEF PlaceInv, Apart
  <2>5. \A q \in Producers, c \in Consumers : Apart(Carry(q)', Held(c)')
    BY <1>6, <2>1 DEF PlaceInv, Apart
  <2> QED
    BY <1>6, <1>7, <2>2, <2>3, <2>4, <2>5 DEF PlaceInv
<1>11. \A x \in Processes :
         status'[x] = IF x \in IdsOf(B) THEN "Processing" ELSE status[x]
  BY DEF UpdateStatus, UpdateStatusByIds
<1>12. StatusInv'
  <2>1. \A q \in Producers : \A s \in Appending(q)' : status'[s.id] \notin Open
    <3>1. \A q \in Producers : q # p => \A s \in Appending(q) : s.id \in Processes
      BY IdsInPlaces DEF Carry
    <3>2. \A s \in B : s.id \in Processes /\ s.id \in IdsOf(B)
      BY IdsInPlaces DEF Carry, IdsOf
    <3> QED
      BY <1>3, <1>4, <1>11, <3>1, <3>2 DEF StatusInv, Open
  <2>2. \A i \in 1..Len(queue') : \A s \in queue'[i] : status'[s.id] \notin Open
    BY <1>7, <1>11, IdsInPlaces DEF StatusInv, Open
  <2>3. \A c \in Consumers : \A s \in Held(c)' : status'[s.id] \notin Open
    BY <1>6, <1>11, IdsInPlaces DEF StatusInv, Open
  <2>4. \A q \in Producers : ppc'[q] = "pending" =>
          \A s \in fetched'[q] : status'[s.id] # "Pending"
    <3>1. \A q \in Producers : \A s \in fetched[q] : s.id \in Processes
      BY IdsInPlaces DEF Carry
    <3> QED
      BY <1>2, <1>3, <1>11, <3>1 DEF StatusInv
  <2> QED
    BY <2>1, <2>2, <2>3, <2>4 DEF StatusInv, Open
<1> QED
  BY <1>10, <1>12

\* The batch that is appended leaves its producer for the stream.
LEMMA AppendKeeps ==
  ASSUME TypeOK, LockInv, StepInv, PlaceInv, StatusInv, NEW p \in Producers,
         AppendBatch(p) \/ AppendFails(p), queue' = Append(queue, batch[p])
  PROVE  PlaceInv' /\ StatusInv'
<1>1. UNCHANGED <<rows, fetched, consumer>> /\ ppc[p] = "append"
      /\ (UNCHANGED faults \/ Fault)
  BY DEF AppendBatch, AppendFails
<1>2. \A q \in Producers : q # p => ppc'[q] = ppc[q] /\ batch'[q] = batch[q]
  BY DEF AppendBatch, AppendFails, Goto, TypeOK
<1>3. ppc'[p] \in {"divide", "restore"}
  BY DEF AppendBatch, AppendFails, Goto, TypeOK
<1>4. Appending(p) = batch[p] /\ Appending(p)' = {} /\ Carry(p)' = fetched[p]
  BY <1>1, <1>3 DEF Appending, Carry
<1>5. \A q \in Producers : q # p => Carry(q)' = {} /\ Appending(q)' = {} /\ Carry(q) = {}
  <2>1. \A q \in Producers : q # p => ppc[q] \notin LockedSteps
    BY <1>1 DEF LockInv, LockedSteps
  <2>2. \A q \in Producers : q # p => fetched[q] = {}
    BY <2>1 DEF StepInv, LockedSteps
  <2> QED
    BY <1>1, <1>2, <2>1, <2>2 DEF Carry, Appending, LockedSteps
<1>6. \A c \in Consumers : Held(c)' \subseteq Held(c)
  BY <1>1, Untouched
<1>7. retry' = retry /\ status' = status
  BY <1>1 DEF rows
<1>8. /\ Len(queue) \in Nat /\ Len(queue') = Len(queue) + 1
      /\ queue'[Len(queue) + 1] = batch[p]
      /\ \A i \in 1..Len(queue) : queue'[i] = queue[i]
  BY DEF TypeOK
<1>9. \A i \in 1..Len(queue') : i \in 1..Len(queue) \/ i = Len(queue) + 1
  BY <1>8
<1>10. /\ Sound(batch[p], retry)
       /\ Apart(fetched[p], batch[p])
       /\ \A i \in 1..Len(queue) : Apart(batch[p], queue[i]) /\ Apart(queue[i], batch[p])
       /\ \A c \in Consumers : Apart(batch[p], Held(c))
       /\ \A s \in batch[p] : status[s.id] \notin Open
  <2>1. batch[p] \subseteq Carry(p)
    BY <1>4 DEF Carry
  <2>2. Sound(Carry(p), retry) /\ Apart(fetched[p], batch[p])
    BY <1>4 DEF PlaceInv
  <2>3. \A i \in 1..Len(queue) : Apart(Carry(p), queue[i])
    BY DEF PlaceInv
  <2>4. \A c \in Consumers : Apart(Carry(p), Held(c))
    BY DEF PlaceInv
  <2>5. \A s \in batch[p] : status[s.id] \notin Open
    BY <1>4 DEF StatusInv
  <2> QED
    BY <2>1, <2>2, <2>3, <2>4, <2>5 DEF Sound, Apart
<1>11. PlaceInv'
  <2>1. \A q \in Producers : Sound(Carry(q)', retry') /\ Apart(fetched'[q], Appending(q)')
    BY <1>4, <1>5, <1>7 DEF PlaceInv, Sound, Apart, Carry
  <2>2. \A i \in 1..Len(queue') : Sound(queue'[i], retry')
    BY <1>7, <1>8, <1>9, <1>10 DEF PlaceInv
  <2>3. \A q \in Producers, i \in 1..Len(queue') : Apart(Carry(q)', queue'[i])
    <3>1. \A j \in 1..Len(queue) : Apart(fetched[p], queue[j])
      BY DEF PlaceInv, Apart, Carry
    <3>2. \A j \in 1..Len(queue') : Apart(fetched[p], queue'[j])
      BY <1>8, <1>9, <1>10, <3>1
    <3>3. \A A : Apart({}, A)
      BY DEF Apart
    <3> QED
      BY <1>4, <1>5, <3>2, <3>3
  <2>4. \A q \in Producers, c \in Consumers : Apart(Carry(q)', Held(c)')
    BY <1>4, <1>5, <1>6 DEF PlaceInv, Apart, Carry
  <2>5. \A i, j \in 1..Len(queue') : i # j => Apart(queue'[i], queue'[j])
    <3>1. \A i, j \in 1..Len(queue) : i # j => Apart(queue[i], queue[j])
      BY DEF PlaceInv
    <3> QED
      BY <1>8, <1>9, <1>10, <3>1
  <2>6. \A i \in 1..Len(queue'), c \in Consumers : Apart(queue'[i], Held(c)')
    <3>1. \A i \in 1..Len(queue'), c \in Consumers : Apart(queue'[i], Held(c))
      BY <1>8, <1>9, <1>10 DEF PlaceInv
    <3> QED
      BY <1>6, <3>1 DEF Apart
  <2>7. \A c \in Consumers : Sound(Held(c)', retry')
    BY <1>6, <1>7 DEF PlaceInv, Sound
  <2>8. \A c, d \in Consumers : c # d => Apart(Held(c)', Held(d)')
    BY <1>6 DEF PlaceInv, Apart
  <2> QED
    BY <2>1, <2>2, <2>3, <2>4, <2>5, <2>6, <2>7, <2>8 DEF PlaceInv
<1>12. StatusInv'
  <2>1. \A i \in 1..Len(queue') : \A s \in queue'[i] : status'[s.id] \notin Open
    BY <1>7, <1>8, <1>9, <1>10 DEF StatusInv
  <2>2. \A q \in Producers : \A s \in Appending(q)' : status'[s.id] \notin Open
    BY <1>4, <1>5
  <2>3. \A q \in Producers : ppc'[q] = "pending" =>
          \A s \in fetched'[q] : status'[s.id] # "Pending"
    BY <1>1, <1>2, <1>3, <1>7 DEF StatusInv
  <2> QED
    BY <1>6, <1>7, <2>1, <2>2, <2>3 DEF StatusInv, Open
<1> QED
  BY <1>11, <1>12

\* The batch that is read leaves the stream for its consumer.
LEMMA ReadKeeps ==
  ASSUME TypeOK, StepInv, PlaceInv, StatusInv, NEW c \in Consumers, ReadBatch(c)
  PROVE  PlaceInv' /\ StatusInv'
<1>1. UNCHANGED <<rows, producer, work, faults>>
  BY DEF ReadBatch
<1>2. \A d \in Consumers : d # c => Held(d)' = Held(d)
  BY <1>1 DEF ReadBatch, Held, Hidden, TypeOK
<1>3. Held(c)' = queue[1] /\ queue # <<>>
  <2>1. work[c] = {}
    BY DEF ReadBatch, StepInv
  <2>2. received'[c] = Head(queue) /\ queue # <<>>
    BY DEF ReadBatch, TypeOK
  <2>3. Head(queue) = queue[1]
    BY <2>2 DEF TypeOK
  <2> QED
    BY <1>1, <2>1, <2>2, <2>3 DEF Held
<1>4. /\ 1 \in 1..Len(queue) /\ Len(queue) \in Nat
      /\ \A i \in 1..Len(queue') : i + 1 \in 1..Len(queue) /\ queue'[i] = queue[i + 1]
  BY <1>3 DEF ReadBatch, TypeOK
<1>5. \A p \in Producers : /\ Carry(p)' = Carry(p) /\ Appending(p)' = Appending(p)
                           /\ fetched'[p] = fetched[p] /\ ppc'[p] = ppc[p]
  BY <1>1, Untouched
<1>6. retry' = retry /\ status' = status
  BY <1>1 DEF rows
<1>7. PlaceInv'
  <2>1. \A p \in Producers : Sound(Carry(p)', retry') /\ Apart(fetched'[p], Appending(p)')
    BY <1>5, <1>6 DEF PlaceInv
  <2>2. \A i \in 1..Len(queue') : Sound(queue'[i], retry')
    BY <1>4, <1>6 DEF PlaceInv
  <2>3. \A d \in Consumers : Sound(Held(d)', retry')
    BY <1>2, <1>3, <1>4, <1>6 DEF PlaceInv
  <2>4. \A p \in Producers, i \in 1..Len(queue') : Apart(Carry(p)', queue'[i])
    BY <1>4, <1>5 DEF PlaceInv
  <2>5. \A p \in Producers, d \in Consumers : Apart(Carry(p)', Held(d)')
    BY <1>2, <1>3, <1>4, <1>5 DEF PlaceInv
  <2>6. \A i, j \in 1..Len(queue') : i # j => Apart(queue'[i], queue'[j])
    <3>1. \A i, j \in 1..Len(queue) : i # j => Apart(queue[i], queue[j])
      BY DEF PlaceInv
    <3>2. \A i, j \in 1..Len(queue') : i # j => i + 1 # j + 1
      OBVIOUS
    <3> QED
      BY <1>4, <3>1, <3>2
  <2>7. \A i \in 1..Len(queue'), d \in Consumers : Apart(queue'[i], Held(d)')
    <3>1. \A i \in 1..Len(queue') : Apart(queue[i + 1], queue[1])
      <4>1. \A i \in 1..Len(queue') : i + 1 # 1
        OBVIOUS
      <4> QED
        BY <1>4, <4>1 DEF PlaceInv
    <3>2. \A i \in 1..Len(queue), d \in Consumers : Apart(queue[i], Held(d))
      BY DEF PlaceInv
    <3> QED
      BY <1>2, <1>3, <1>4, <3>1, <3>2
  <2>8. \A d, e \in Consumers : d # e => Apart(Held(d)', Held(e)')
    <3>1. \A d, e \in Consumers : d # e => Apart(Held(d), Held(e))
      BY DEF PlaceInv
    <3>2. \A d \in Consumers : Apart(queue[1], Held(d)) /\ Apart(Held(d), queue[1])
      BY <1>4 DEF PlaceInv, Apart
    <3> QED
      BY <1>2, <1>3, <3>1, <3>2
  <2> QED
    BY <2>1, <2>2, <2>3, <2>4, <2>5, <2>6, <2>7, <2>8 DEF PlaceInv
<1>8. StatusInv'
  <2>1. \A i \in 1..Len(queue') : \A s \in queue'[i] : status'[s.id] \notin Open
    BY <1>4, <1>6 DEF StatusInv
  <2>2. \A d \in Consumers : \A s \in Held(d)' : status'[s.id] \notin Open
    BY <1>2, <1>3, <1>4, <1>6 DEF StatusInv
  <2>3. \A p \in Producers : \A s \in Appending(p)' : status'[s.id] \notin Open
    BY <1>5, <1>6 DEF StatusInv
  <2>4. \A p \in Producers : ppc'[p] = "pending" =>
          \A s \in fetched'[p] : status'[s.id] # "Pending"
    BY <1>5, <1>6 DEF StatusInv
  <2> QED
    BY <2>1, <2>2, <2>3, <2>4 DEF StatusInv, Open
<1> QED
  BY <1>7, <1>8

\* A workflow that ends, or fails with an update it does not know of, lets go of
\* its process, which then is nowhere.
LEMMA LetGo ==
  ASSUME TypeOK, StepInv, PlaceInv, NEW c \in Consumers, NEW w \in work[c],
         Hidden => w.at = "run",
         \/ Ends(c, w) /\ UNCHANGED faults
         \/ Becomes(c, w, "error") /\ HiddenWrites /\ Fault,
         UNCHANGED <<redis, producer, received>>
  PROVE  /\ w.of \in Held(c) /\ w.of.id \in Processes
         /\ \A d \in Consumers : Held(d)' \subseteq Held(d)
         /\ \A p \in Producers : \A s \in Carry(p) : s.id # w.of.id
         /\ \A i \in 1..Len(queue) : \A s \in queue[i] : s.id # w.of.id
         /\ \A d \in Consumers : \A s \in Held(d)' : s.id # w.of.id
<1>0. Hidden => Hidden'
  BY HiddenStays
<1>1. w \in Workflow /\ w.of \in Held(c) /\ w.of.id \in Processes
  <2>1. w \in Workflow
    BY DEF TypeOK
  <2> QED
    BY <2>1 DEF Held, Workflow, Snapshot
<1>2. \A d \in Consumers : d # c => Held(d)' \subseteq Held(d)
  BY <1>0 DEF Ends, Becomes, Held, TypeOK
<1>3. Held(c)' \subseteq Held(c) /\ w.of \notin Held(c)'
  <2>1. received[c] = {} /\ received' = received
    BY DEF StepInv
  <2>2. \A v \in work[c] : v.of = w.of => v = w
    BY DEF StepInv
  <2>3. \A v \in work'[c] : (Hidden' => v.at = "run") => v \in work[c] /\ v # w
    <3>1. CASE Ends(c, w)
      BY <3>1 DEF Ends, TypeOK
    <3>2. CASE Becomes(c, w, "error") /\ HiddenWrites /\ Fault
      <4>1. [w EXCEPT !.at = "error"].at = "error"
        BY <1>1 DEF Workflow
      <4>2. work'[c] = (work[c] \ {w}) \cup {[w EXCEPT !.at = "error"]}
        BY <3>2 DEF Becomes, TypeOK
      <4>3. Hidden'
        BY <3>2 DEF Hidden, Fault, TypeOK
      <4> QED
        BY <4>1, <4>2, <4>3
    <3> QED
      BY <3>1, <3>2
  <2> QED
    BY <1>0, <2>1, <2>2, <2>3 DEF Held
<1>4. \A p \in Producers : \A s \in Carry(p) : s.id # w.of.id
  BY <1>1 DEF PlaceInv, Apart
<1>5. \A i \in 1..Len(queue) : \A s \in queue[i] : s.id # w.of.id
  BY <1>1 DEF PlaceInv, Apart
<1>6. \A d \in Consumers : d # c => \A s \in Held(d) : s.id # w.of.id
  BY <1>1 DEF PlaceInv, Apart
<1>7. \A s \in Held(c)' : s.id # w.of.id
  BY <1>1, <1>3 DEF PlaceInv, Sound
<1> QED
  BY <1>1, <1>2, <1>3, <1>4, <1>5, <1>6, <1>7

\* What a running workflow does to its row is no change to any process that is
\* still on its way.
LEMMA OutcomeKeeps ==
  ASSUME TypeOK, StepInv, PlaceInv, StatusInv, NEW c \in Consumers, NEW w \in work[c],
         w.at = "run", Outcome(w.of),
         \/ Ends(c, w) /\ UNCHANGED faults
         \/ Becomes(c, w, "error") /\ HiddenWrites /\ Fault,
         UNCHANGED <<redis, producer, received>>
  PROVE  PlaceInv' /\ StatusInv'
<1>1. w.of.id \in Processes
  BY LetGo
<1>4. \A x \in Processes : x # w.of.id => retry'[x] = retry[x] /\ status'[x] = status[x]
  BY <1>1 DEF Outcome, FinishProcess, RetryProcess, ResetProcess, TypeOK
<1>5. \A p \in Producers : /\ Carry(p)' = Carry(p) /\ Appending(p)' = Appending(p)
                           /\ fetched'[p] = fetched[p] /\ ppc'[p] = ppc[p]
  BY Untouched
<1>6. queue' = queue
  BY DEF redis
<1>7. /\ \A p \in Producers : \A s \in Carry(p) : s.id # w.of.id
      /\ \A i \in 1..Len(queue) : \A s \in queue[i] : s.id # w.of.id
      /\ \A d \in Consumers : \A s \in Held(d)' : s.id # w.of.id
  BY LetGo
<1>8. \A d \in Consumers : Held(d)' \subseteq Held(d)
  BY LetGo
<1>9. /\ \A p \in Producers : \A s \in Carry(p) :
           retry'[s.id] = retry[s.id] /\ status'[s.id] = status[s.id]
      /\ \A i \in 1..Len(queue) : \A s \in queue[i] :
           retry'[s.id] = retry[s.id] /\ status'[s.id] = status[s.id]
      /\ \A d \in Consumers : \A s \in Held(d)' :
           retry'[s.id] = retry[s.id] /\ status'[s.id] = status[s.id]
  <2>1. \A d \in Consumers : \A s \in Held(d)' : s.id \in Processes
    BY <1>8, IdsInPlaces
  <2> QED
    BY <1>4, <1>7, <2>1, IdsInPlaces
<1>10. PlaceInv'
  <2>1. \A p \in Producers : Sound(Carry(p)', retry') /\ Apart(fetched'[p], Appending(p)')
    BY <1>5, <1>9 DEF PlaceInv, Sound
  <2>2. \A i \in 1..Len(queue') : Sound(queue'[i], retry')
    BY <1>6, <1>9 DEF PlaceInv, Sound
  <2>3. \A d \in Consumers : Sound(Held(d)', retry')
    BY <1>8, <1>9 DEF PlaceInv, Sound
  <2>4. \A p \in Producers, i \in 1..Len(queue') : Apart(Carry(p)', queue'[i])
    BY <1>5, <1>6 DEF PlaceInv
  <2>5. \A p \in Producers, d \in Consumers : Apart(Carry(p)', Held(d)')
    BY <1>5, <1>8 DEF PlaceInv, Apart
  <2>6. \A i, j \in 1..Len(queue') : i # j => Apart(queue'[i], queue'[j])
    BY <1>6 DEF PlaceInv
  <2>7. \A i \in 1..Len(queue'), d \in Consumers : Apart(queue'[i], Held(d)')
    BY <1>6, <1>8 DEF PlaceInv, Apart
  <2>8. \A d, e \in Consumers : d # e => Apart(Held(d)', Held(e)')
    BY <1>8 DEF PlaceInv, Apart
  <2> QED
    BY <2>1, <2>2, <2>3, <2>4, <2>5, <2>6, <2>7, <2>8 DEF PlaceInv
<1>11. StatusInv'
  <2>1. \A p \in Producers : \A s \in Appending(p)' : status'[s.id] \notin Open
    BY <1>5, <1>9 DEF StatusInv, Carry
  <2>2. \A i \in 1..Len(queue') : \A s \in queue'[i] : status'[s.id] \notin Open
    BY <1>6, <1>9 DEF StatusInv
  <2>3. \A d \in Consumers : \A s \in Held(d)' : status'[s.id] \notin Open
    BY <1>8, <1>9 DEF StatusInv
  <2>4. \A p \in Producers : ppc'[p] = "pending" =>
          \A s \in fetched'[p] : status'[s.id] # "Pending"
    BY <1>5, <1>9 DEF StatusInv, Carry
  <2> QED
    BY <2>1, <2>2, <2>3, <2>4 DEF StatusInv, Open
<1> QED
  BY <1>10, <1>11

\* Every step keeps the whole invariant.
LEMMA CopyInvStep ==
  ASSUME TypeOK, SafeTTL, CopyInv, [Next]_vars
  PROVE  CopyInv'
<1> USE DEF CopyInv
<1>1. LockInv' /\ StepInv'
  BY LockStep, StepInvStep
<1>2. ASSUME Shrinks PROVE PlaceInv' /\ StatusInv'
  BY <1>2, ShrinkKeeps
<1>3. ASSUME NEW p \in Producers, ProducerStep(p) \/ ProducerFault(p)
      PROVE  PlaceInv' /\ StatusInv'
  <2>1. CASE FetchNew(p) \/ FetchPending(p)
    BY <2>1, FetchKeeps
  <2>2. ASSUME NEW B \in SUBSET fetched[p], UpdateStatus(p, B) PROVE PlaceInv' /\ StatusInv'
    BY <2>2, UpdateKeeps
  <2>3. CASE AppendBatch(p)
    <3>1. queue' = Append(queue, batch[p])
      BY <2>3 DEF AppendBatch
    <3> QED
      BY <2>3, <3>1, AppendKeeps
  <2>4. CASE AppendFails(p)
    <3>1. queue' = Append(queue, batch[p]) \/ queue' = queue
      BY <2>4 DEF AppendFails
    <3> QED
      BY <1>2, <2>4, <3>1, AppendKeeps, ProducerShrinks
  <2>5. CASE \/ AcquirePtLock(p) \/ AcquireFails(p) \/ SetExpiry(p) \/ SetExpiryFails(p)
             \/ FetchFails(p) \/ RestoreStatus(p) \/ RestoreFails(p) \/ AllDivided(p)
             \/ ReleasePtLock(p) \/ ReleaseFails(p) \/ ProducerCrashes(p)
             \/ \E B \in SUBSET fetched[p] : UpdateStatusFails(p, B)
    BY <1>2, <2>5, ProducerShrinks
  <2> QED
    BY <1>3, <2>1, <2>2, <2>3, <2>4, <2>5 DEF ProducerStep, ProducerFault
<1>4. ASSUME NEW c \in Consumers, ConsumerStep(c) \/ ConsumerFault(c)
      PROVE  PlaceInv' /\ StatusInv'
  <2>1. CASE ReadBatch(c)
    BY <2>1, ReadKeeps
  <2>2. CASE \/ CreateGroup(c) \/ CreateGroupFails(c) \/ NothingToRead(c) \/ ReadFails(c)
             \/ Acknowledge(c) \/ DeleteBatch(c) \/ OperationFails(c) \/ StartTasks(c)
             \/ JoinAll(c) \/ ConsumerCrashes(c)
    BY <1>2, <2>2, ConsumerShrinks
  <2>3. ASSUME NEW w \in work[c],
               \/ WorkflowReturns(c, w) \/ HandleError(c, w) \/ HandlerFails(c, w)
               \/ FinishAsFailure(c, w) \/ WorkflowDies(c, w)
        PROVE  PlaceInv' /\ StatusInv'
    BY <1>2, <2>3, ConsumerShrinks
  <2>4. ASSUME NEW w \in work[c], WorkflowUpdates(c, w) PROVE PlaceInv' /\ StatusInv'
    <3>1. /\ w.at = "run" /\ Outcome(w.of) /\ Ends(c, w)
          /\ UNCHANGED <<redis, producer, received, faults>>
      BY <2>4 DEF WorkflowUpdates, At
    <3> QED
      BY <3>1, OutcomeKeeps
  <2>5. ASSUME NEW w \in work[c], WorkflowFails(c, w) PROVE PlaceInv' /\ StatusInv'
    <3>1. CASE UNCHANGED rows
      BY <1>2, <2>5, <3>1, ConsumerShrinks
    <3>2. CASE HiddenWrites /\ Outcome(w.of)
      <4>1. /\ w.at = "run" /\ Becomes(c, w, "error") /\ Fault
            /\ UNCHANGED <<redis, producer, received>>
        BY <2>5 DEF WorkflowFails, At
      <4> QED
        BY <3>2, <4>1, OutcomeKeeps
    <3> QED
      BY <2>5, <3>1, <3>2 DEF WorkflowFails
  <2> QED
    BY <1>4, <2>1, <2>2, <2>3, <2>4, <2>5 DEF ConsumerStep, ConsumerFault, WorkflowStep
<1>5. ASSUME \/ \E x \in Processes : CreateTask(x) \/ TimePasses(x)
             \/ ExpireLock \/ UNCHANGED vars
      PROVE  PlaceInv' /\ StatusInv'
  BY <1>2, <1>5, WorldShrinks
<1> QED
  BY <1>1, <1>3, <1>4, <1>5 DEF Next

\* In every reachable state each process is in one place at most, and its
\* snapshot there is that of its row.
THEOREM CopyInvariant ==
  ASSUME SafeTTL
  PROVE  Spec => [](TypeOK /\ CopyInv)
<1>1. Init => CopyInv
  <2> SUFFICES ASSUME Init PROVE CopyInv
    OBVIOUS
  <2>1. /\ \A p \in Producers : Carry(p) = {} /\ fetched[p] = {} /\ Appending(p) = {}
        /\ \A c \in Consumers : Held(c) = {}
        /\ 1..Len(queue) = {}
    BY DEF Init, Carry, Appending, Held
  <2>2. LockInv /\ StepInv
    BY DEF Init, LockInv, StepInv, LockedSteps
  <2>3. PlaceInv
    BY <2>1 DEF PlaceInv, Sound, Apart
  <2>4. StatusInv
    BY <2>1 DEF StatusInv
  <2> QED
    BY <2>2, <2>3, <2>4 DEF CopyInv
<1>2. TypeOK /\ CopyInv /\ [Next]_vars => CopyInv'
  BY CopyInvStep
<1> QED
  BY <1>1, <1>2, SchedulerTyping, PTL DEF Spec

\* No process is ever run by two workflows at once, for any number of producers,
\* consumers, processes and faults, if the lock outlives its holder's work.
THEOREM SingleRun == Spec => []NoDoubleRun
<1>1. CASE ~SafeTTL
  <2>1. NoDoubleRun
    BY <1>1 DEF NoDoubleRun
  <2> QED
    BY <2>1, PTL
<1>2. CASE SafeTTL
  <2>1. TypeOK /\ CopyInv => NoDoubleRun
    <3> SUFFICES ASSUME TypeOK, CopyInv,
                        NEW c \in Consumers, NEW d \in Consumers,
                        NEW v \in work[c], NEW w \in work[d],
                        v.of.id = w.of.id, v.at = "run", w.at = "run"
                 PROVE  c = d /\ v = w
      BY DEF NoDoubleRun
    <3>1. v.of \in Held(c) /\ w.of \in Held(d)
      BY DEF Held
    <3>2. c = d
      BY <3>1 DEF CopyInv, PlaceInv, Apart
    <3>3. v.of = w.of
      BY <3>1, <3>2 DEF CopyInv, PlaceInv, Sound
    <3>4. v \in Workflow /\ w \in Workflow
      BY DEF TypeOK
    <3> QED
      BY <3>2, <3>3, <3>4 DEF Workflow
  <2> QED
    BY <1>2, <2>1, CopyInvariant, PTL
<1> QED
  BY <1>1, <1>2

\* A running workflow's snapshot has its row's retry count, so no retry is lost
\* or counted twice, under the same assumption.
THEOREM RetryCounted == Spec => []SnapshotFresh
<1>1. CASE ~SafeTTL
  <2>1. SnapshotFresh
    BY <1>1 DEF SnapshotFresh
  <2> QED
    BY <2>1, PTL
<1>2. CASE SafeTTL
  <2>1. CopyInv => SnapshotFresh
    <3> SUFFICES ASSUME CopyInv, NEW c \in Consumers, NEW w \in work[c], w.at = "run"
                 PROVE  w.of.retry = retry[w.of.id]
      BY DEF SnapshotFresh
    <3>1. w.of \in Held(c)
      BY DEF Held
    <3> QED
      BY <3>1 DEF CopyInv, PlaceInv, Sound
  <2> QED
    BY <1>2, <2>1, CopyInvariant, PTL
<1> QED
  BY <1>1, <1>2

-----------------------------------------------------------------------------
(* What the process tracker promises of a process that has finished, and   *)
(* of one that is marked Processing.                                       *)

-----------------------------------------------------------------------------
(* The way of a snapshot                                                   *)

\* A producer may still append the snapshot, the stream holds it, or a consumer
\* may still run it.
OnTheWay(s) ==
  \/ \E p \in Producers : s \in Carry(p)
  \/ \E i \in 1..Len(queue) : s \in queue[i]
  \/ \E c \in Consumers : s \in Held(c)

\* A snapshot gets on its way by a fetch, of a row that is New or Pending.
Fetched(s) == s \in FindByTimeStatus("New") \cup FindByTimeStatus("Pending")

\* No step counts a fault back.
LEMMA FaultsStep ==
  ASSUME [Next]_vars
  PROVE  UNCHANGED faults \/ Fault
<1>1. ASSUME NEW p \in Processes, CreateTask(p) \/ TimePasses(p) PROVE UNCHANGED faults
  BY <1>1 DEF CreateTask, TimePasses
<1>2. ExpireLock \/ UNCHANGED vars => UNCHANGED faults
  BY DEF ExpireLock, vars
<1>3. ASSUME NEW p \in Producers, ProducerStep(p) \/ ProducerFault(p)
      PROVE  UNCHANGED faults \/ Fault
  BY <1>3 DEF ProducerStep, ProducerFault, AcquirePtLock, SetExpiry, FetchNew, FetchPending,
    UpdateStatus, AppendBatch, RestoreStatus, AllDivided, ReleasePtLock, AcquireFails,
    SetExpiryFails, FetchFails, UpdateStatusFails, AppendFails, RestoreFails, ReleaseFails,
    ProducerCrashes
<1>4. ASSUME NEW c \in Consumers, ConsumerStep(c) \/ ConsumerFault(c)
      PROVE  UNCHANGED faults \/ Fault
  BY <1>4 DEF ConsumerStep, ConsumerFault, CreateGroup, CreateGroupFails, ReadBatch,
    NothingToRead, ReadFails, Acknowledge, DeleteBatch, OperationFails, StartTasks, JoinAll,
    ConsumerCrashes, WorkflowStep, WorkflowUpdates, WorkflowReturns, WorkflowFails,
    HandleError, HandlerFails, FinishAsFailure, WorkflowDies
<1> QED
  BY <1>1, <1>2, <1>3, <1>4 DEF Next

\* A step in which no place gains anything brings no snapshot on its way.
LEMMA ShrinkingWay ==
  ASSUME Shrinks, NEW s, OnTheWay(s)'
  PROVE  OnTheWay(s)
<1>1. ASSUME NEW p \in Producers, s \in Carry(p)' PROVE OnTheWay(s)
  BY <1>1 DEF Shrinks, OnTheWay
<1>2. ASSUME NEW i \in 1..Len(queue'), s \in queue'[i] PROVE OnTheWay(s)
  BY <1>2 DEF Shrinks, OnTheWay
<1>3. ASSUME NEW c \in Consumers, s \in Held(c)' PROVE OnTheWay(s)
  BY <1>3 DEF Shrinks, OnTheWay
<1> QED
  BY <1>1, <1>2, <1>3 DEF OnTheWay

\* A snapshot that is on its way was so before, or was fetched just now.
LEMMA WayStep ==
  ASSUME TypeOK, CopyInv, [Next]_vars, NEW s, OnTheWay(s)'
  PROVE  OnTheWay(s) \/ (Fetched(s) /\ UNCHANGED rows)
<1> USE DEF CopyInv
<1>f. UNCHANGED faults \/ Fault
  BY FaultsStep
<1>1. ASSUME Shrinks PROVE OnTheWay(s)
  BY <1>1, ShrinkingWay
<1>2. ASSUME NEW p \in Producers, FetchNew(p) \/ FetchPending(p)
      PROVE  OnTheWay(s) \/ (Fetched(s) /\ UNCHANGED rows)
  <2>1. UNCHANGED <<rows, redis, batch, consumer>>
    BY <1>2 DEF FetchNew, FetchPending
  <2>2. /\ \A q \in Producers : q # p => Carry(q)' = Carry(q)
        /\ \A r \in Carry(p)' : r \in Carry(p) \/ Fetched(r)
    BY <1>2 DEF FetchNew, FetchPending, Goto, TypeOK, Carry, Appending, Fetched
  <2>3. queue' = queue /\ \A c \in Consumers : Held(c)' \subseteq Held(c)
    BY <1>f, <2>1, Untouched DEF redis
  <2> QED
    BY <2>1, <2>2, <2>3 DEF OnTheWay
<1>3. ASSUME NEW p \in Producers, NEW B \in SUBSET fetched[p], UpdateStatus(p, B)
      PROVE  OnTheWay(s)
  <2>1. \A q \in Producers : Carry(q)' \subseteq Carry(q)
    BY <1>3 DEF UpdateStatus, Goto, TypeOK, Carry, Appending
  <2>2. queue' = queue /\ \A c \in Consumers : Held(c)' \subseteq Held(c)
    BY <1>f, <1>3, Untouched DEF UpdateStatus, redis
  <2> QED
    BY <2>1, <2>2 DEF OnTheWay
<1>4. ASSUME NEW p \in Producers, AppendBatch(p) \/ AppendFails(p) PROVE OnTheWay(s)
  <2>1. /\ \A q \in Producers : Carry(q)' \subseteq Carry(q)
        /\ batch[p] \subseteq Carry(p)
    BY <1>4 DEF AppendBatch, AppendFails, Goto, TypeOK, Carry, Appending
  <2>2. \A c \in Consumers : Held(c)' \subseteq Held(c)
    BY <1>f, <1>4, Untouched DEF AppendBatch, AppendFails
  <2>3. ASSUME NEW i \in 1..Len(queue'), s \in queue'[i] PROVE OnTheWay(s)
    <3>1. queue' = queue \/ queue' = Append(queue, batch[p])
      BY <1>4 DEF AppendBatch, AppendFails
    <3>2. (i \in 1..Len(queue) /\ queue'[i] = queue[i]) \/ queue'[i] = batch[p]
      BY <2>3, <3>1 DEF TypeOK
    <3> QED
      BY <2>1, <2>3, <3>2 DEF OnTheWay
  <2> QED
    BY <2>1, <2>2, <2>3 DEF OnTheWay
<1>5. ASSUME NEW c \in Consumers, ReadBatch(c) PROVE OnTheWay(s)
  <2>1. UNCHANGED <<producer, work, faults>> /\ queue # <<>>
        /\ received' = [received EXCEPT ![c] = queue[1]]
    BY <1>5 DEF ReadBatch, TypeOK
  <2>2. \A d \in Consumers : d # c => Held(d)' = Held(d)
    BY <2>1 DEF Held, Hidden, TypeOK
  <2>3. Held(c)' \subseteq Held(c) \cup queue[1] /\ 1 \in 1..Len(queue)
    BY <2>1 DEF Held, Hidden, TypeOK
  <2>4. \A i \in 1..Len(queue') : i + 1 \in 1..Len(queue) /\ queue'[i] = queue[i + 1]
    BY <1>5 DEF ReadBatch, TypeOK
  <2>5. \A p \in Producers : Carry(p)' = Carry(p)
    BY <1>f, <2>1, Untouched
  <2> QED
    BY <2>2, <2>3, <2>4, <2>5 DEF OnTheWay
<1>6. ASSUME NEW c \in Consumers, NEW w \in work[c], w.at = "run",
             UNCHANGED <<redis, producer, received>>,
             \/ Ends(c, w) /\ UNCHANGED faults
             \/ Becomes(c, w, "error") /\ HiddenWrites /\ Fault
      PROVE  OnTheWay(s)
  <2>1. \A d \in Consumers : Held(d)' \subseteq Held(d)
    BY <1>6, LetGo
  <2>2. queue' = queue /\ \A p \in Producers : Carry(p)' = Carry(p)
    BY <1>f, <1>6, Untouched DEF redis
  <2> QED
    BY <2>1, <2>2 DEF OnTheWay
<1>7. ASSUME NEW c \in Consumers, NEW w \in work[c],
             WorkflowUpdates(c, w) \/ WorkflowFails(c, w)
      PROVE  OnTheWay(s)
  <2>1. CASE WorkflowUpdates(c, w)
    BY <1>6, <2>1 DEF WorkflowUpdates, At
  <2>2. CASE WorkflowFails(c, w) /\ UNCHANGED rows
    BY <1>1, <2>2, ConsumerShrinks
  <2>3. CASE WorkflowFails(c, w) /\ HiddenWrites
    BY <1>6, <2>3 DEF WorkflowFails, At
  <2> QED
    BY <1>7, <2>1, <2>2, <2>3 DEF WorkflowFails
<1>8. ASSUME NEW p \in Producers, ProducerStep(p) \/ ProducerFault(p)
      PROVE  OnTheWay(s) \/ (Fetched(s) /\ UNCHANGED rows)
  <2>1. CASE \/ AcquirePtLock(p) \/ AcquireFails(p) \/ SetExpiry(p) \/ SetExpiryFails(p)
             \/ FetchFails(p) \/ RestoreStatus(p) \/ RestoreFails(p) \/ AllDivided(p)
             \/ ReleasePtLock(p) \/ ReleaseFails(p) \/ ProducerCrashes(p)
             \/ \E B \in SUBSET fetched[p] : UpdateStatusFails(p, B)
    BY <1>1, <2>1, ProducerShrinks
  <2> QED
    BY <1>2, <1>3, <1>4, <1>8, <2>1 DEF ProducerStep, ProducerFault
<1>9. ASSUME NEW c \in Consumers, ConsumerStep(c) \/ ConsumerFault(c) PROVE OnTheWay(s)
  <2>1. CASE \/ CreateGroup(c) \/ CreateGroupFails(c) \/ NothingToRead(c) \/ ReadFails(c)
             \/ Acknowledge(c) \/ DeleteBatch(c) \/ OperationFails(c) \/ StartTasks(c)
             \/ JoinAll(c) \/ ConsumerCrashes(c)
    BY <1>1, <2>1, ConsumerShrinks
  <2>2. ASSUME NEW w \in work[c],
               \/ WorkflowReturns(c, w) \/ HandleError(c, w) \/ HandlerFails(c, w)
               \/ FinishAsFailure(c, w) \/ WorkflowDies(c, w)
        PROVE  OnTheWay(s)
    BY <1>1, <2>2, ConsumerShrinks
  <2> QED
    BY <1>5, <1>7, <1>9, <2>1, <2>2 DEF ConsumerStep, ConsumerFault, WorkflowStep
<1>10. ASSUME \/ \E x \in Processes : CreateTask(x) \/ TimePasses(x)
              \/ ExpireLock \/ UNCHANGED vars
       PROVE  OnTheWay(s)
  BY <1>1, <1>10, WorldShrinks
<1> QED
  BY <1>8, <1>9, <1>10 DEF Next

-----------------------------------------------------------------------------
(* Nothing of a finished process is on its way                             *)

\* A workflow past its run has met a fault.
FailedAfterFault == \A c \in Consumers : \A w \in work[c] : w.at # "run" => faults # 0

\* FinishedIsQuiet, said of all that may still be run, as long as no update that
\* reported an error was committed.
QuietInv ==
  /\ FailedAfterFault
  /\ ~Hidden => \A s : OnTheWay(s) => status[s.id] # "Finish"

LEMMA FailedStep ==
  ASSUME TypeOK, FailedAfterFault, [Next]_vars
  PROVE  FailedAfterFault'
<1>0. faults \in Nat /\ (faults # 0 => faults' # 0) /\ (Fault => faults' # 0)
  BY FaultsStep DEF TypeOK, Fault
<1>1. ASSUME UNCHANGED work PROVE FailedAfterFault'
  BY <1>0, <1>1 DEF FailedAfterFault
<1>2. ASSUME NEW c \in Consumers, ConsumerStep(c) \/ ConsumerFault(c)
      PROVE  FailedAfterFault'
  <2>1. CASE \/ CreateGroup(c) \/ CreateGroupFails(c) \/ ReadBatch(c) \/ NothingToRead(c)
             \/ ReadFails(c) \/ Acknowledge(c) \/ DeleteBatch(c) \/ OperationFails(c)
             \/ JoinAll(c)
    BY <1>1, <2>1 DEF CreateGroup, CreateGroupFails, ReadBatch, NothingToRead, ReadFails,
      Acknowledge, DeleteBatch, OperationFails, JoinAll
  <2>2. CASE StartTasks(c) \/ ConsumerCrashes(c)
    <3>1. /\ \A d \in Consumers : d # c => work'[d] = work[d]
          /\ \A w \in work'[c] : w.at = "run"
      BY <2>2 DEF StartTasks, ConsumerCrashes, TypeOK
    <3> QED
      BY <1>0, <3>1 DEF FailedAfterFault
  <2>3. ASSUME NEW w \in work[c], Ends(c, w) PROVE FailedAfterFault'
    <3>1. \A d \in Consumers : work'[d] \subseteq work[d]
      BY <2>3 DEF Ends, TypeOK
    <3> QED
      BY <1>0, <3>1 DEF FailedAfterFault
  <2>4. ASSUME NEW w \in work[c], NEW step, Becomes(c, w, step), w.at # "run" \/ Fault
        PROVE  FailedAfterFault'
    <3>1. faults' # 0
      BY <1>0, <2>4 DEF FailedAfterFault
    <3> QED
      BY <3>1 DEF FailedAfterFault
  <2>5. ASSUME NEW w \in work[c],
               WorkflowStep(c, w) \/ WorkflowFails(c, w) \/ WorkflowDies(c, w)
        PROVE  \/ Ends(c, w)
               \/ \E step : Becomes(c, w, step) /\ (w.at # "run" \/ Fault)
    BY <2>5 DEF WorkflowStep, WorkflowUpdates, WorkflowReturns, WorkflowFails,
      HandleError, HandlerFails, FinishAsFailure, WorkflowDies, At
  <2> QED
    BY <1>2, <2>1, <2>2, <2>3, <2>4, <2>5 DEF ConsumerStep, ConsumerFault
<1>3. ASSUME NEW p \in Producers, ProducerStep(p) \/ ProducerFault(p)
      PROVE  UNCHANGED work
  BY <1>3 DEF ProducerStep, ProducerFault, AcquirePtLock, SetExpiry, FetchNew, FetchPending,
    UpdateStatus, AppendBatch, RestoreStatus, AllDivided, ReleasePtLock, AcquireFails,
    SetExpiryFails, FetchFails, UpdateStatusFails, AppendFails, RestoreFails, ReleaseFails,
    ProducerCrashes, consumer
<1>4. ASSUME NEW p \in Processes, CreateTask(p) \/ TimePasses(p) PROVE UNCHANGED work
  BY <1>4 DEF CreateTask, TimePasses, consumer
<1>5. ExpireLock \/ UNCHANGED vars => UNCHANGED work
  BY DEF ExpireLock, vars, consumer
<1> QED
  BY <1>1, <1>2, <1>3, <1>4, <1>5 DEF Next

\* A process becomes Finish by the end of its workflow, if no update is hidden.
LEMMA FinishStep ==
  ASSUME TypeOK, FailedAfterFault, ~Hidden', [Next]_vars,
         NEW x \in Processes, status'[x] = "Finish", status[x] # "Finish"
  PROVE  \E c \in Consumers : \E w \in work[c] :
           /\ w.of.id = x /\ Ends(c, w)
           /\ UNCHANGED <<redis, producer, received, faults>>
<1> DEFINE Let(c, w) == /\ w.of.id = x /\ Ends(c, w)
                        /\ UNCHANGED <<redis, producer, received, faults>>
<1>0. ~(HiddenWrites /\ Fault)
  BY DEF Hidden, Fault, TypeOK
<1>1. ASSUME NEW ids, NEW st \in {"Processing", "ProcessStarted"},
             UpdateStatusByIds(ids, st) \/ FailedUpdate(ids, st) \/ UNCHANGED status
      PROVE  FALSE
  BY <1>1 DEF UpdateStatusByIds, FailedUpdate
<1>2. ASSUME NEW p \in Processes, CreateTask(p) \/ TimePasses(p) PROVE FALSE
  BY <1>2 DEF CreateTask, TimePasses, TypeOK
<1>3. ASSUME ExpireLock \/ UNCHANGED vars PROVE FALSE
  BY <1>3 DEF ExpireLock, vars, rows
<1>4. ASSUME NEW p \in Producers, ProducerStep(p) \/ ProducerFault(p) PROVE FALSE
  <2>1. \E ids : UpdateStatusByIds(ids, "Processing") \/ FailedUpdate(ids, "Processing")
                   \/ UNCHANGED status
    BY <1>4 DEF ProducerStep, ProducerFault, AcquirePtLock, SetExpiry, FetchNew, FetchPending,
      UpdateStatus, AppendBatch, RestoreStatus, AllDivided, ReleasePtLock, AcquireFails,
      SetExpiryFails, FetchFails, UpdateStatusFails, AppendFails, RestoreFails, ReleaseFails,
      ProducerCrashes, rows
  <2> QED
    BY <1>1, <2>1
<1>5. ASSUME NEW c \in Consumers,
             \/ CreateGroup(c) \/ CreateGroupFails(c) \/ ReadBatch(c) \/ NothingToRead(c)
             \/ ReadFails(c) \/ Acknowledge(c) \/ DeleteBatch(c) \/ OperationFails(c)
             \/ StartTasks(c) \/ JoinAll(c) \/ ConsumerCrashes(c)
      PROVE  FALSE
  <2>1. \E ids : \/ UpdateStatusByIds(ids, "ProcessStarted")
                 \/ FailedUpdate(ids, "ProcessStarted") \/ UNCHANGED status
    BY <1>5 DEF CreateGroup, CreateGroupFails, ReadBatch, NothingToRead, ReadFails,
      Acknowledge, DeleteBatch, OperationFails, StartTasks, JoinAll, ConsumerCrashes, rows
  <2> QED
    BY <1>1, <2>1
<1>6. ASSUME NEW c \in Consumers, NEW w \in work[c],
             WorkflowStep(c, w) \/ WorkflowFails(c, w) \/ WorkflowDies(c, w)
      PROVE  Let(c, w)
  <2>0. w \in Workflow /\ w.of \in Snapshot /\ w.of.id \in Processes
    BY DEF TypeOK, Workflow, Snapshot
  <2>1. ASSUME Outcome(w.of) \/ FinishProcess(w.of.id) PROVE w.of.id = x
    BY <2>0, <2>1 DEF Outcome, FinishProcess, RetryProcess, ResetProcess, TypeOK
  <2>2. CASE WorkflowUpdates(c, w) \/ HandleError(c, w) \/ FinishAsFailure(c, w)
    BY <2>1, <2>2 DEF WorkflowUpdates, HandleError, FinishAsFailure
  <2>3. CASE WorkflowReturns(c, w) \/ WorkflowDies(c, w)
    BY <2>3 DEF WorkflowReturns, WorkflowDies, rows
  <2>4. CASE WorkflowFails(c, w)
    BY <1>0, <2>4 DEF WorkflowFails, rows
  <2>5. CASE HandlerFails(c, w)
    <3>1. w.at # "run" /\ UNCHANGED faults /\ HiddenWrites
      BY <2>5 DEF HandlerFails, At, rows
    <3> QED
      BY <3>1 DEF FailedAfterFault, Hidden
  <2> QED
    BY <1>6, <2>2, <2>3, <2>4, <2>5 DEF WorkflowStep
<1> QED
  BY <1>2, <1>3, <1>4, <1>5, <1>6 DEF Next, ConsumerStep, ConsumerFault

\* Every step keeps it: what is fetched is not Finish, and a process that is
\* finished was in the hands of the workflow that let go of it, and nowhere else.
LEMMA QuietInvStep ==
  ASSUME TypeOK, CopyInv, QuietInv, [Next]_vars
  PROVE  QuietInv'
<1>0. FailedAfterFault' /\ (~Hidden' => ~Hidden)
  BY FailedStep, FaultsStep, HiddenStays DEF QuietInv
<1>1. ASSUME ~Hidden', NEW s, OnTheWay(s)', status'[s.id] = "Finish" PROVE FALSE
  <2>1. OnTheWay(s) \/ (Fetched(s) /\ UNCHANGED rows)
    BY <1>1, WayStep
  <2>2. CASE Fetched(s) /\ UNCHANGED rows
    BY <1>1, <2>2 DEF Fetched, FindByTimeStatus, SnapshotOf, rows
  <2>3. CASE OnTheWay(s)
    <3>1. s.id \in Processes /\ status[s.id] # "Finish"
      BY <1>0, <1>1, <2>3, IdsInPlaces DEF OnTheWay, QuietInv
    <3>2. PICK c \in Consumers : \E w \in work[c] :
            /\ w.of.id = s.id /\ Ends(c, w)
            /\ UNCHANGED <<redis, producer, received, faults>>
      BY <1>1, <3>1, FinishStep DEF QuietInv
    <3>3. PICK w \in work[c] :
            /\ w.of.id = s.id /\ Ends(c, w)
            /\ UNCHANGED <<redis, producer, received, faults>>
      BY <3>2
    <3>4. /\ \A p \in Producers : \A r \in Carry(p) : r.id # s.id
          /\ \A i \in 1..Len(queue) : \A r \in queue[i] : r.id # s.id
          /\ \A d \in Consumers : \A r \in Held(d)' : r.id # s.id
      BY <1>0, <1>1, <3>3, LetGo DEF CopyInv
    <3>5. queue' = queue /\ \A p \in Producers : Carry(p)' = Carry(p)
      BY <3>3, Untouched DEF redis
    <3> QED
      BY <1>1, <3>4, <3>5 DEF OnTheWay
  <2> QED
    BY <2>1, <2>2, <2>3
<1> QED
  BY <1>0, <1>1 DEF QuietInv

\* In every reachable state nothing of a finished process is on its way, unless
\* an update was hidden.
THEOREM QuietInvariant ==
  ASSUME SafeTTL
  PROVE  Spec => [](TypeOK /\ CopyInv /\ QuietInv)
<1>1. Init => QuietInv
  <2> SUFFICES ASSUME Init PROVE QuietInv
    OBVIOUS
  <2>1. FailedAfterFault
    BY DEF Init, FailedAfterFault
  <2>2. \A s : ~OnTheWay(s)
    BY DEF Init, OnTheWay, Carry, Appending, Held
  <2> QED
    BY <2>1, <2>2 DEF QuietInv
<1>2. TypeOK /\ CopyInv /\ QuietInv /\ [Next]_vars => QuietInv'
  BY QuietInvStep
<1> QED
  BY <1>1, <1>2, CopyInvariant, PTL DEF Spec

\* Nothing of a finished process is on its way any more: no producer will append
\* it, the stream does not hold it and no consumer runs it, for any number of
\* each and of faults, if the lock holds and no failed update was committed.
THEOREM FinishQuiet == Spec => []FinishedIsQuiet
<1>1. CASE ~(SafeTTL /\ ~HiddenWrites)
  <2>1. FinishedIsQuiet
    BY <1>1 DEF FinishedIsQuiet
  <2> QED
    BY <2>1, PTL
<1>2. CASE SafeTTL /\ ~HiddenWrites
  <2>1. QuietInv => FinishedIsQuiet
    <3> SUFFICES ASSUME QuietInv, NEW p \in Processes, status[p] = "Finish", p \in Carried
                 PROVE  FALSE
      BY DEF FinishedIsQuiet
    <3>1. ~Hidden
      BY <1>2 DEF Hidden
    <3>2. \E s : OnTheWay(s) /\ s.id = p
      <4>1. ASSUME NEW q \in Producers, p \in IdsOf(fetched[q])
            PROVE  \E s : OnTheWay(s) /\ s.id = p
        BY <4>1 DEF IdsOf, OnTheWay, Carry
      <4>2. ASSUME NEW i \in 1..Len(queue), p \in IdsOf(queue[i])
            PROVE  \E s : OnTheWay(s) /\ s.id = p
        BY <4>2 DEF IdsOf, OnTheWay
      <4>3. ASSUME NEW c \in Consumers, p \in IdsOf(received[c])
            PROVE  \E s : OnTheWay(s) /\ s.id = p
        BY <4>3 DEF IdsOf, OnTheWay, Held
      <4>4. ASSUME NEW c \in Consumers, p \in {w.of.id : w \in work[c]}
            PROVE  \E s : OnTheWay(s) /\ s.id = p
        BY <3>1, <4>4 DEF OnTheWay, Held
      <4> QED
        BY <4>1, <4>2, <4>3, <4>4 DEF Carried
    <3> QED
      BY <3>1, <3>2 DEF QuietInv
  <2> QED
    BY <1>2, <2>1, QuietInvariant, PTL
<1> QED
  BY <1>1, <1>2

-----------------------------------------------------------------------------
(* Nothing is left in limbo as long as nothing fails                       *)

\* What holds as long as nothing has failed and the group was there from the
\* start: what is on its way will be run, and what is Processing is on its way.
CalmInv ==
  faults = 0 =>
    /\ group
    /\ \A p \in Producers : ppc[p] # "restore"
    /\ \A x \in Processes : business[x] = "other" => status[x] = "Finish"
    /\ \A s : OnTheWay(s) => s.business = "Pending"
    /\ \A c \in Consumers : \A w \in work[c] : status[w.of.id] # "Processing"
    /\ \A x \in Processes : status[x] = "Processing" => \E s : OnTheWay(s) /\ s.id = x

\* The steps of a consumer, apart from those of its workflows.
LoopStep(c) ==
  \/ CreateGroup(c) \/ ReadBatch(c) \/ NothingToRead(c) \/ Acknowledge(c)
  \/ DeleteBatch(c) \/ StartTasks(c) \/ JoinAll(c)

\* The steps that are left when nothing has failed.
CalmStep ==
  \/ \E x \in Processes : CreateTask(x) \/ TimePasses(x)
  \/ ExpireLock
  \/ UNCHANGED vars
  \/ \E p \in Producers : ProducerStep(p)
  \/ \E c \in Consumers : LoopStep(c)
  \/ \E c \in Consumers : \E w \in work[c] : WorkflowUpdates(c, w) \/ WorkflowReturns(c, w)

LEMMA CalmSteps ==
  ASSUME TypeOK, FailedAfterFault, [Next]_vars, faults' = 0
  PROVE  faults = 0 /\ faults' = faults /\ CalmStep
<1>1. faults \in Nat /\ faults = 0 /\ ~Fault
  BY FaultsStep DEF TypeOK, Fault
<1>2. ASSUME NEW p \in Producers, ProducerFault(p) PROVE FALSE
  BY <1>1, <1>2 DEF ProducerFault, AcquireFails, SetExpiryFails, FetchFails,
    UpdateStatusFails, AppendFails, RestoreFails, ReleaseFails, ProducerCrashes
<1>3. ASSUME NEW c \in Consumers, ConsumerFault(c) PROVE FALSE
  BY <1>1, <1>3 DEF ConsumerFault, CreateGroupFails, ReadFails, OperationFails,
    ConsumerCrashes, WorkflowFails, WorkflowDies
<1>4. ASSUME NEW c \in Consumers, NEW w \in work[c], WorkflowStep(c, w)
      PROVE  WorkflowUpdates(c, w) \/ WorkflowReturns(c, w)
  BY <1>1, <1>4 DEF FailedAfterFault, WorkflowStep, HandleError, HandlerFails,
    FinishAsFailure, At
<1>5. ASSUME NEW c \in Consumers, ConsumerStep(c) PROVE CalmStep
  BY <1>4, <1>5 DEF ConsumerStep, LoopStep, CalmStep
<1>6. CalmStep
  BY <1>2, <1>3, <1>5 DEF Next, CalmStep
<1> QED
  BY <1>1, <1>6

\* A snapshot stays on its way until the workflow that runs it lets go of it.
LEMMA WayKept ==
  ASSUME TypeOK, StepInv, CalmInv, CalmStep, faults = 0, faults' = 0,
         NEW s, OnTheWay(s), ~OnTheWay(s)'
  PROVE  \E c \in Consumers : \E w \in work[c] :
           s = w.of /\ (WorkflowUpdates(c, w) \/ WorkflowReturns(c, w))
<1>h. ~Hidden /\ ~Hidden'
  BY DEF Hidden
<1>p. UNCHANGED producer => \A p \in Producers : Carry(p)' = Carry(p)
  BY DEF producer, Carry, Appending
<1>c. ASSUME NEW c \in Consumers, received'[c] = received[c], work'[c] = work[c]
      PROVE  Held(c)' = Held(c)
  BY <1>h, <1>c DEF Held
<1>0. UNCHANGED consumer => \A c \in Consumers : Held(c)' = Held(c)
  BY <1>c DEF consumer
<1>1. ASSUME UNCHANGED <<producer, queue>>, \A c \in Consumers : Held(c)' = Held(c)
      PROVE  FALSE
  BY <1>1, <1>p DEF OnTheWay
<1>2. ASSUME NEW x \in Processes, CreateTask(x) \/ TimePasses(x) PROVE FALSE
  BY <1>0, <1>1, <1>2 DEF CreateTask, TimePasses, redis
<1>3. ASSUME ExpireLock \/ UNCHANGED vars PROVE FALSE
  BY <1>0, <1>1, <1>3 DEF ExpireLock, vars, redis
<1>4. ASSUME NEW p \in Producers, ProducerStep(p) PROVE FALSE
  <2>1. \A c \in Consumers : Held(c)' = Held(c)
    BY <1>0, <1>4 DEF ProducerStep, AcquirePtLock, SetExpiry, FetchNew, FetchPending,
      UpdateStatus, AppendBatch, RestoreStatus, AllDivided, ReleasePtLock
  <2>2. ASSUME queue' = queue, \A q \in Producers : Carry(q) \subseteq Carry(q)'
        PROVE  FALSE
    BY <2>1, <2>2 DEF OnTheWay
  <2>3. CASE AcquirePtLock(p) \/ SetExpiry(p) \/ AllDivided(p) \/ ReleasePtLock(p)
    <3>1. queue' = queue /\ \A q \in Producers : Carry(q) \subseteq Carry(q)'
      BY <2>3 DEF AcquirePtLock, SetExpiry, AllDivided, ReleasePtLock, Goto, redis, TypeOK,
        Carry, Appending
    <3> QED
      BY <2>2, <3>1
  <2>4. CASE FetchNew(p) \/ FetchPending(p)
    <3>1. /\ queue' = queue /\ batch' = batch /\ ppc[p] # "append"
          /\ \A q \in Producers \ {p} : ppc'[q] = ppc[q] /\ fetched'[q] = fetched[q]
      BY <2>4 DEF FetchNew, FetchPending, Goto, redis, TypeOK
    <3>2. fetched[p] \subseteq fetched'[p]
      <4>1. CASE FetchNew(p)
        BY <4>1 DEF FetchNew, StepInv
      <4>2. CASE FetchPending(p)
        BY <4>2 DEF FetchPending, TypeOK
      <4> QED
        BY <2>4, <4>1, <4>2
    <3>3. \A q \in Producers : Carry(q) \subseteq Carry(q)'
      BY <3>1, <3>2 DEF Carry, Appending
    <3> QED
      BY <2>2, <3>1, <3>3
  <2>5. ASSUME NEW B \in SUBSET fetched[p], UpdateStatus(p, B) PROVE FALSE
    <3>1. queue' = queue /\ \A q \in Producers : Carry(q) \subseteq Carry(q)'
      BY <2>5 DEF UpdateStatus, NextChunk, Goto, redis, TypeOK, Carry, Appending
    <3> QED
      BY <2>2, <3>1
  <2>6. CASE AppendBatch(p)
    <3>1. \A q \in Producers : \A t \in Carry(q) : t \in Carry(q)' \/ t \in batch[p]
      BY <2>6 DEF AppendBatch, Goto, TypeOK, Carry, Appending
    <3>2. /\ \A i \in 1..Len(queue) : i \in 1..Len(queue') /\ queue'[i] = queue[i]
          /\ Len(queue) + 1 \in 1..Len(queue') /\ queue'[Len(queue) + 1] = batch[p]
      BY <2>6 DEF AppendBatch, TypeOK
    <3> QED
      BY <2>1, <3>1, <3>2 DEF OnTheWay
  <2>7. CASE RestoreStatus(p)
    BY <2>7 DEF RestoreStatus, CalmInv
  <2> QED
    BY <1>4, <2>3, <2>4, <2>5, <2>6, <2>7 DEF ProducerStep
<1>5. ASSUME NEW c \in Consumers, LoopStep(c) PROVE FALSE
  <2>1. CASE CreateGroup(c) \/ NothingToRead(c) \/ Acknowledge(c) \/ DeleteBatch(c) \/ JoinAll(c)
    <3>1. UNCHANGED <<producer, queue, received, work>>
      BY <2>1 DEF CreateGroup, NothingToRead, Acknowledge, DeleteBatch, JoinAll, redis, CalmInv
    <3> QED
      BY <1>1, <1>c, <3>1
  <2>2. CASE ReadBatch(c)
    <3>1. UNCHANGED producer /\ \A i \in 1..Len(queue) :
            i = 1 \/ (i - 1 \in 1..Len(queue') /\ queue'[i - 1] = queue[i])
      BY <2>2 DEF ReadBatch, TypeOK
    <3>2. received[c] = {} /\ received' = [received EXCEPT ![c] = queue[1]] /\ work' = work
      <4>1. cpc[c] = "read" /\ queue # <<>> /\ Head(queue) = queue[1]
        BY <2>2 DEF ReadBatch, TypeOK
      <4>2. received[c] = {}
        BY <4>1 DEF StepInv
      <4> QED
        BY <2>2, <4>1, <4>2 DEF ReadBatch
    <3>3. \A d \in Consumers : Held(d) \subseteq Held(d)'
      BY <1>h, <3>2 DEF Held, TypeOK
    <3>4. queue[1] \subseteq Held(c)'
      BY <3>2 DEF Held, TypeOK
    <3> QED
      BY <1>p, <3>1, <3>3, <3>4 DEF OnTheWay
  <2>3. CASE StartTasks(c)
    <3>1. UNCHANGED <<producer, queue>>
      BY <2>3 DEF StartTasks, redis
    <3>2. work[c] = {}
      BY <2>3 DEF StartTasks, StepInv
    <3>3. \A t \in received[c] : OnTheWay(t) /\ t \in Valid(received[c])
      BY DEF OnTheWay, Held, CalmInv, Valid
    <3>4. Held(c) \subseteq Held(c)'
      <4>1. Held(c) = received[c]
        BY <3>2 DEF Held
      <4>2. work'[c] = {[of |-> t, at |-> "run"] : t \in Valid(received[c])}
        BY <2>3 DEF StartTasks, TypeOK
      <4>3. ASSUME NEW t \in received[c] PROVE t \in Held(c)'
        <5>1. [of |-> t, at |-> "run"] \in work'[c]
          BY <3>3, <4>2, <4>3
        <5> QED
          BY <1>h, <5>1 DEF Held
      <4> QED
        BY <4>1, <4>3
    <3>5. \A d \in Consumers \ {c} : Held(d)' = Held(d)
      BY <1>c, <2>3 DEF StartTasks, TypeOK
    <3> QED
      BY <1>p, <3>1, <3>4, <3>5 DEF OnTheWay
  <2> QED
    BY <1>5, <2>1, <2>2, <2>3 DEF LoopStep
<1>6. ASSUME NEW c \in Consumers, NEW w \in work[c],
             WorkflowUpdates(c, w) \/ WorkflowReturns(c, w)
      PROVE  s = w.of
  <2>1. UNCHANGED <<producer, queue, received>> /\ Ends(c, w)
    BY <1>6 DEF WorkflowUpdates, WorkflowReturns, redis
  <2>2. \A d \in Consumers : \A t \in Held(d) : t \in Held(d)' \/ t = w.of
    BY <1>h, <2>1 DEF Ends, Held, TypeOK
  <2> QED
    BY <1>p, <2>1, <2>2 DEF OnTheWay
<1> QED
  BY <1>2, <1>3, <1>4, <1>5, <1>6 DEF CalmStep

\* Every step keeps it.
LEMMA CalmInvStep ==
  ASSUME TypeOK, CopyInv, QuietInv, CalmInv, [Next]_vars
  PROVE  CalmInv'
<1> SUFFICES ASSUME faults' = 0 PROVE CalmInv'
  BY DEF CalmInv
<1>0. faults = 0 /\ CalmStep /\ FailedAfterFault /\ ~Hidden
  BY CalmSteps DEF QuietInv, Hidden
<1>1. /\ group
      /\ \A p \in Producers : ppc[p] # "restore"
      /\ \A x \in Processes : business[x] = "other" => status[x] = "Finish"
      /\ \A s : OnTheWay(s) => s.business = "Pending"
      /\ \A c \in Consumers : \A w \in work[c] : status[w.of.id] # "Processing"
      /\ \A x \in Processes : status[x] = "Processing" => \E s : OnTheWay(s) /\ s.id = x
  BY <1>0 DEF CalmInv
<1>2. \A s : OnTheWay(s) => s.id \in Processes /\ status[s.id] # "Finish"
  BY <1>0, IdsInPlaces DEF QuietInv, OnTheWay
<1>3. \A c \in Consumers : \A w \in work[c] :
        /\ w.of \in Held(c) /\ OnTheWay(w.of) /\ w.of \in Snapshot
        /\ w.of.id \in Processes
  <2>1. ASSUME NEW c \in Consumers, NEW w \in work[c]
        PROVE  w.of \in Held(c) /\ OnTheWay(w.of) /\ w.of \in Snapshot
    BY <1>0 DEF Held, OnTheWay, TypeOK, Workflow
  <2> QED
    BY <2>1, <1>2
<1>4. group' /\ \A p \in Producers : ppc'[p] # "restore"
  <2>1. ASSUME NEW x \in Processes, CreateTask(x) \/ TimePasses(x) PROVE UNCHANGED <<group, ppc>>
    BY <2>1 DEF CreateTask, TimePasses, redis, producer
  <2>2. ExpireLock \/ UNCHANGED vars => UNCHANGED <<group, ppc>>
    BY DEF ExpireLock, vars, redis, producer
  <2>3. ASSUME NEW p \in Producers, ProducerStep(p)
        PROVE  group' = group /\ \A q \in Producers : ppc'[q] # "restore"
    <3>1. group' = group
      BY <2>3 DEF ProducerStep, AcquirePtLock, SetExpiry, FetchNew, FetchPending,
        UpdateStatus, AppendBatch, RestoreStatus, AllDivided, ReleasePtLock, redis
    <3>2. \E step \in {"idle"} \cup (LockedSteps \ {"restore"}) : Goto(p, step)
      BY <2>3 DEF ProducerStep, AcquirePtLock, SetExpiry, FetchNew, FetchPending,
        UpdateStatus, AppendBatch, RestoreStatus, AllDivided, ReleasePtLock, LockedSteps
    <3> QED
      BY <1>1, <3>1, <3>2 DEF Goto, LockedSteps, TypeOK
  <2>4. ASSUME NEW c \in Consumers, LoopStep(c) PROVE group' /\ UNCHANGED ppc
    BY <1>1, <2>4 DEF LoopStep, CreateGroup, ReadBatch, NothingToRead, Acknowledge,
      DeleteBatch, StartTasks, JoinAll, redis, producer
  <2>5. ASSUME NEW c \in Consumers, NEW w \in work[c],
               WorkflowUpdates(c, w) \/ WorkflowReturns(c, w)
        PROVE  UNCHANGED <<group, ppc>>
    BY <2>5 DEF WorkflowUpdates, WorkflowReturns, redis, producer
  <2> QED
    BY <1>0, <1>1, <2>1, <2>2, <2>3, <2>4, <2>5 DEF CalmStep
<1>5. \A s : OnTheWay(s)' => s.business = "Pending"
  <2>1. ASSUME NEW s, Fetched(s) PROVE s.business = "Pending"
    <3>1. PICK x \in Processes : s = SnapshotOf(x) /\ status[x] \in {"New", "Pending"}
      BY <2>1 DEF Fetched, FindByTimeStatus
    <3>2. business[x] = "Pending"
      BY <1>1, <3>1 DEF TypeOK
    <3> QED
      BY <3>1, <3>2 DEF SnapshotOf
  <2> QED
    BY <1>1, <2>1, WayStep
<1> DEFINE Closed  == \A x \in Processes : business'[x] = "other" => status'[x] = "Finish"
           Running == \A c \in Consumers : \A w \in work'[c] : status'[w.of.id] # "Processing"
           Marked  == \A x \in Processes : status'[x] = "Processing" =>
                        status[x] = "Processing" \/ \E s : OnTheWay(s)' /\ s.id = x
<1>6. ASSUME UNCHANGED <<business, work>>, NEW x \in Processes, status[x] = "none",
             status' = [status EXCEPT ![x] = "New"]
      PROVE  Closed /\ Running /\ Marked
  BY <1>1, <1>3, <1>6 DEF TypeOK
<1>7. ASSUME UNCHANGED <<status, business>>, \A c \in Consumers : work'[c] \subseteq work[c]
      PROVE  Closed /\ Running /\ Marked
  BY <1>1, <1>7
<1>8. ASSUME NEW p \in Producers, NEW B \in SUBSET fetched[p], UpdateStatus(p, B)
      PROVE  Closed /\ Running /\ Marked
  <2>1. /\ UNCHANGED <<business, work>> /\ UpdateStatusByIds(IdsOf(B), "Processing")
        /\ B \subseteq Carry(p) /\ B \subseteq Carry(p)'
    BY <1>8 DEF UpdateStatus, consumer, Goto, Carry, Appending, TypeOK
  <2>2. \A s \in B : OnTheWay(s) /\ OnTheWay(s)'
    BY <2>1 DEF OnTheWay
  <2>3. \A x \in IdsOf(B) : status[x] # "Finish" /\ \E s : OnTheWay(s)' /\ s.id = x
    BY <1>2, <2>2 DEF IdsOf
  <2>4. \A c \in Consumers : \A w \in work[c] : w.of.id \notin IdsOf(B)
    BY <1>3, <2>1 DEF CopyInv, PlaceInv, Apart, IdsOf
  <2>5. \A x \in Processes : status'[x] = IF x \in IdsOf(B) THEN "Processing" ELSE status[x]
    BY <2>1 DEF UpdateStatusByIds
  <2>6. Closed
    BY <1>1, <2>1, <2>3, <2>5
  <2>7. Running
    BY <1>1, <1>3, <2>1, <2>4, <2>5
  <2>8. Marked
    BY <2>3, <2>5
  <2> QED
    BY <2>6, <2>7, <2>8
<1>9. ASSUME NEW c \in Consumers, StartTasks(c) PROVE Closed /\ Running /\ Marked
  <2>1. /\ UNCHANGED business /\ \A d \in Consumers : d # c => work'[d] = work[d]
        /\ \A w \in work'[c] : w.of \in Valid(received[c])
        /\ \A x \in Processes :
             status'[x] = IF x \in IdsOf(Valid(received[c])) THEN "ProcessStarted" ELSE status[x]
    BY <1>9 DEF StartTasks, UpdateStatusByIds, TypeOK
  <2>2. \A s \in Valid(received[c]) : s.id \in Processes /\ status[s.id] # "Finish"
    BY <1>2 DEF OnTheWay, Held, Valid
  <2>3. Closed
    BY <1>1, <2>1, <2>2 DEF IdsOf
  <2>4. Running
    BY <1>1, <1>3, <2>1, <2>2 DEF IdsOf
  <2>5. Marked
    BY <2>1
  <2> QED
    BY <2>3, <2>4, <2>5
<1>10. ASSUME NEW c \in Consumers, NEW w \in work[c], WorkflowUpdates(c, w)
       PROVE  Closed /\ Running /\ Marked /\ status'[w.of.id] # "Processing"
  <2>1. \A d \in Consumers : work'[d] \subseteq work[d]
    BY <1>10 DEF WorkflowUpdates, Ends, TypeOK
  <2>2. \A x \in Processes : x # w.of.id => status'[x] = status[x] /\ business'[x] = business[x]
    BY <1>3, <1>10 DEF WorkflowUpdates, Outcome, FinishProcess, RetryProcess, ResetProcess, TypeOK
  <2>3. \/ status'[w.of.id] = "Finish"
        \/ status'[w.of.id] \in {"New", "Pending"} /\ business'[w.of.id] = business[w.of.id]
    BY <1>3, <1>10 DEF WorkflowUpdates, Outcome, FinishProcess, RetryProcess, ResetProcess, TypeOK
  <2>4. business[w.of.id] # "other"
    BY <1>1, <1>2, <1>3
  <2>5. status'[w.of.id] # "Processing" /\ Closed
    BY <1>1, <2>2, <2>3, <2>4
  <2>6. Running /\ Marked
    BY <1>1, <1>3, <2>1, <2>2, <2>5
  <2> QED
    BY <2>5, <2>6
<1>11. ASSUME NEW c \in Consumers, NEW w \in work[c], WorkflowReturns(c, w)
       PROVE  Closed /\ Running /\ Marked /\ status'[w.of.id] # "Processing"
  <2>1. UNCHANGED <<status, business>> /\ \A d \in Consumers : work'[d] \subseteq work[d]
    BY <1>11 DEF WorkflowReturns, Ends, TypeOK, rows
  <2> QED
    BY <1>1, <1>7, <2>1
<1>12. Closed /\ Running /\ Marked
  <2>1. ASSUME NEW x \in Processes, CreateTask(x) PROVE Closed /\ Running /\ Marked
    BY <1>6, <2>1 DEF CreateTask, consumer
  <2>2. ASSUME UNCHANGED <<status, business, work>> PROVE Closed /\ Running /\ Marked
    BY <1>7, <2>2
  <2>3. ASSUME NEW x \in Processes, TimePasses(x) PROVE UNCHANGED <<status, business, work>>
    BY <2>3 DEF TimePasses, consumer
  <2>4. ExpireLock \/ UNCHANGED vars => UNCHANGED <<status, business, work>>
    BY DEF ExpireLock, vars, rows, consumer
  <2>5. ASSUME NEW p \in Producers, ProducerStep(p) PROVE Closed /\ Running /\ Marked
    <3>1. CASE \/ AcquirePtLock(p) \/ SetExpiry(p) \/ FetchNew(p) \/ FetchPending(p)
               \/ AppendBatch(p) \/ AllDivided(p) \/ ReleasePtLock(p)
      BY <2>2, <3>1 DEF AcquirePtLock, SetExpiry, FetchNew, FetchPending, AppendBatch,
        AllDivided, ReleasePtLock, rows, consumer
    <3>2. ~RestoreStatus(p)
      BY <1>1 DEF RestoreStatus
    <3> QED
      BY <1>8, <2>5, <3>1, <3>2 DEF ProducerStep
  <2>6. ASSUME NEW c \in Consumers, LoopStep(c) PROVE Closed /\ Running /\ Marked
    <3>1. CASE \/ CreateGroup(c) \/ ReadBatch(c) \/ NothingToRead(c) \/ Acknowledge(c)
               \/ DeleteBatch(c) \/ JoinAll(c)
      BY <2>2, <3>1 DEF CreateGroup, ReadBatch, NothingToRead, Acknowledge, DeleteBatch,
        JoinAll, rows
    <3> QED
      BY <1>9, <2>6, <3>1 DEF LoopStep
  <2> QED
    BY <1>0, <1>10, <1>11, <2>1, <2>2, <2>3, <2>4, <2>5, <2>6 DEF CalmStep
<1>13. ASSUME NEW x \in Processes, status'[x] = "Processing"
       PROVE  \E s : OnTheWay(s)' /\ s.id = x
  <2> SUFFICES ASSUME status[x] = "Processing" PROVE \E s : OnTheWay(s)' /\ s.id = x
    BY <1>12, <1>13
  <2>1. PICK s : OnTheWay(s) /\ s.id = x
    BY <1>1
  <2>2. OnTheWay(s)'
    <3> SUFFICES ASSUME ~OnTheWay(s)' PROVE FALSE
      OBVIOUS
    <3>1. \E c \in Consumers : \E w \in work[c] :
            s = w.of /\ (WorkflowUpdates(c, w) \/ WorkflowReturns(c, w))
      BY <1>0, <2>1, WayKept DEF CopyInv
    <3> QED
      BY <1>10, <1>11, <1>13, <2>1, <3>1
  <2> QED
    BY <2>1, <2>2
<1> QED
  BY <1>4, <1>5, <1>12, <1>13 DEF CalmInv

\* As long as nothing fails, what is Processing is on its way to a workflow.
THEOREM CalmInvariant ==
  ASSUME SafeTTL, GroupExists
  PROVE  Spec => [](TypeOK /\ CopyInv /\ QuietInv /\ CalmInv)
<1>1. Init => CalmInv
  <2> SUFFICES ASSUME Init PROVE CalmInv
    OBVIOUS
  <2>1. \A s : ~OnTheWay(s)
    BY DEF Init, OnTheWay, Carry, Appending, Held
  <2> QED
    BY <2>1 DEF Init, CalmInv
<1>2. TypeOK /\ CopyInv /\ QuietInv /\ CalmInv /\ [Next]_vars => CalmInv'
  BY CalmInvStep
<1> QED
  BY <1>1, <1>2, QuietInvariant, PTL DEF Spec

\* As long as nothing fails, no process marked Processing is left in limbo: a
\* producer is about to append it, the stream holds it or a consumer has it, for
\* any number of each, if the lock holds and the group was there from the start.
THEOREM NothingInLimbo == Spec => []NoLimbo
<1>1. CASE ~(SafeTTL /\ GroupExists)
  <2>1. NoLimbo
    BY <1>1 DEF NoLimbo
  <2> QED
    BY <2>1, PTL
<1>2. CASE SafeTTL /\ GroupExists
  <2>1. CalmInv => NoLimbo
    <3> SUFFICES ASSUME CalmInv, faults = 0, NEW x \in Processes, status[x] = "Processing"
                 PROVE  x \in Carried \cup UNION {IdsOf(batch[q]) : q \in Producers}
      BY DEF NoLimbo
    <3>1. PICK s : OnTheWay(s) /\ s.id = x
      BY DEF CalmInv
    <3>2. ASSUME NEW p \in Producers, s \in Carry(p)
          PROVE  x \in IdsOf(fetched[p]) \/ x \in IdsOf(batch[p])
      BY <3>1, <3>2 DEF Carry, Appending, IdsOf
    <3>3. ASSUME NEW i \in 1..Len(queue), s \in queue[i] PROVE x \in IdsOf(queue[i])
      BY <3>1, <3>3 DEF IdsOf
    <3>4. ASSUME NEW c \in Consumers, s \in Held(c)
          PROVE  x \in IdsOf(received[c]) \/ x \in {w.of.id : w \in work[c]}
      BY <3>1, <3>4 DEF Held, IdsOf
    <3> QED
      BY <3>1, <3>2, <3>3, <3>4 DEF OnTheWay, Carried
  <2> QED
    BY <1>2, <2>1, CalmInvariant, PTL
<1> QED
  BY <1>1, <1>2

=============================================================================
