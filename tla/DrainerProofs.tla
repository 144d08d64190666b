--------------------------- MODULE DrainerProofs ---------------------------
(***************************************************************************)
(* Theorems about Drainer, for any number of processes, handler slots,     *)
(* partitions, keys, entries and faults: types, the queue of a partition,  *)
(* one handler for each; then what the drainer promises to those who use   *)
(* it: it implements a queue for each partition, the count of active tasks *)
(* can be relied on, and a drained row holds its latest value.             *)
(***************************************************************************)
EXTENDS Drainer, FiniteSetTheorems, TLAPS

USE PartitionsAssumption, OwnerAssumption, ShardAssumption, KindsAssumption

-----------------------------------------------------------------------------
(* Type correctness *)

\* Pushing an entry extends the log by one, and changes no earlier entry.
LEMMA PushLog ==
  ASSUME TypeOK, NEW k \in Keys, NEW kind \in Kinds, Push(k, kind)
  PROVE  /\ log' \in Seq(Entry)
         /\ Len(log) \in Nat
         /\ Len(log') = Len(log) + 1
         /\ Ids' = Ids \cup {Len(log) + 1}
         /\ \A i \in Ids : log'[i] = log[i]
         /\ log'[Len(log) + 1].key = k
         /\ log'[Len(log) + 1].kind = kind
<1>1. [key |-> k, kind |-> kind] \in Entry
  BY DEF Entry
<1>2. PICK e \in Entry : e = [key |-> k, kind |-> kind]
  BY <1>1
<1>3. e.key = k /\ e.kind = kind
  BY <1>2
<1>4. log' = Append(log, e)
  BY <1>2 DEF Push
<1> HIDE <1>2
<1> QED
  BY <1>3, <1>4 DEF TypeOK, Ids

\* The ids are finitely many naturals.
LEMMA IdsFinite ==
  ASSUME TypeOK
  PROVE  IsFiniteSet(Ids) /\ Ids \subseteq Nat
<1>1. Len(log) \in Nat
  BY DEF TypeOK
<1> QED
  BY <1>1, FS_Interval DEF Ids

\* Handlers that end keep the types of the handlers' variables.
LEMMA IdleType ==
  ASSUME TypeOK, NEW T \in SUBSET Tasks, Idle(T)
  PROVE  /\ pc' \in [Tasks -> HoldingSteps \cup {"idle", "leave"}]
         /\ on' \in [Tasks -> Streams]
         /\ batch' \in [Tasks -> SUBSET Ids]
         /\ last' \in [Tasks -> Ids \cup {0}]
         /\ trimmed' \in [Tasks -> Nat]
<1>1. 0 \in Streams
  BY DEF Streams
<1>2. pc' \in [Tasks -> HoldingSteps \cup {"idle", "leave"}]
  BY DEF Idle, TypeOK
<1>3. on' \in [Tasks -> Streams]
  BY <1>1 DEF Idle, TypeOK
<1>4. batch' \in [Tasks -> SUBSET Ids]
  BY DEF Idle, TypeOK
<1>5. last' \in [Tasks -> Ids \cup {0}] /\ trimmed' \in [Tasks -> Nat]
  BY DEF Idle, TypeOK
<1> QED
  BY <1>2, <1>3, <1>4, <1>5

\* A trim or a deletion keeps the type of the streams; so does leaving them alone.
LEMMA StreamType ==
  ASSUME TypeOK, NEW t \in Tasks,
         \/ UNCHANGED stream
         \/ stream' = [stream EXCEPT ![on[t]] = StreamTrimEntries(@, last[t])]
         \/ stream' = [stream EXCEPT ![on[t]] = StreamDeleteEntries(@, last[t])]
  PROVE  stream' \in [Streams -> SUBSET Ids]
<1>1. stream \in [Streams -> SUBSET Ids] /\ on[t] \in Streams
  BY DEF TypeOK
<1>2. stream[on[t]] \subseteq Ids
  BY <1>1
<1>3. /\ StreamTrimEntries(stream[on[t]], last[t]) \in SUBSET Ids
      /\ StreamDeleteEntries(stream[on[t]], last[t]) \in SUBSET Ids
  BY <1>2 DEF StreamTrimEntries, StreamDeleteEntries
<1> QED BY <1>1, <1>3

\* The type invariant, the basis of every other theorem about the drainer:
\* no step of a handler, a loop or a listener leaves the types, and no stream,
\* row, batch or cursor names an entry that was never pushed.
THEOREM Typing == Spec => []TypeOK
<1>1. Init => TypeOK
  BY DEF Init, TypeOK, Streams, Ids, HoldingSteps, AllKinds
<1>2. TypeOK /\ [Next]_vars => TypeOK'
  <2> SUFFICES ASSUME TypeOK, [Next]_vars PROVE TypeOK'
    OBVIOUS
  <2>1. ASSUME NEW k \in Keys, NEW kind \in Kinds, Push(k, kind) PROVE TypeOK'
    <3>1. Ids \subseteq Ids' /\ Len(log) + 1 \in Ids'
      BY <2>1, PushLog DEF Ids
    <3>2. log' \in Seq(Entry)
      BY <2>1, PushLog
    <3>3. stream' \in [Streams -> SUBSET Ids']
      <4>1. stream \in [Streams -> SUBSET Ids]
        BY DEF TypeOK
      <4>2. stream' = [stream EXCEPT ![Shard[k]] = @ \cup {Len(log) + 1}]
        BY <2>1 DEF Push
      <4> QED
        BY <3>1, <4>1, <4>2
    <3>4. UNCHANGED <<flag, database, process, handler, budget>>
      BY <2>1 DEF Push
    <3> QED
      BY <3>1, <3>2, <3>3, <3>4 DEF TypeOK, database, process, handler, budget
  <2>2. ASSUME log' = log PROVE Ids' = Ids
    BY <2>2 DEF Ids
  <2> USE DEF TypeOK
  <2>3. ASSUME NEW s \in Streams, Expire(s) PROVE TypeOK'
    BY <2>2, <2>3 DEF Expire, database, process, handler, budget
  <2>4. ASSUME NEW i \in Instances, LoopStep(i) \/ LockFails(i) PROVE TypeOK'
    <3>1. IncrementStreamIndex(idx[i]) \in Streams
      BY DEF IncrementStreamIndex, Streams
    <3>2. CASE LoopCheck(i)
      BY <2>2, <3>2 DEF LoopCheck, redis, database, handler, budget
    <3>3. ASSUME NEW t \in Tasks, TakeStream(i, t) PROVE TypeOK'
      BY <2>2, <3>1, <3>3
      DEF TakeStream, NextPartition, database, HoldingSteps
    <3>4. CASE StreamTaken(i)
      BY <2>2, <3>1, <3>4 DEF StreamTaken, NextPartition, database, handler
    <3>5. CASE LockFails(i)
      <4>1. faults' \in Nat
        BY <3>5 DEF LockFails, Fault
      <4>2. idx[i] \in Streams
        OBVIOUS
      <4>3. flag' \in [Streams -> BOOLEAN]
        BY <3>5, <4>2 DEF LockFails
      <4> QED
        BY <2>2, <3>1, <3>5, <4>1, <4>3
        DEF LockFails, NextPartition, database, handler
    <3> QED
      BY <2>4, <3>2, <3>3, <3>4, <3>5 DEF LoopStep, IsStreamAvailable
  <2>5. ASSUME NEW i \in Instances,
               ShutdownRequest(i) \/ ListenerStep(i) \/ Restart(i)
        PROVE  TypeOK'
    <3> USE <2>2 DEF redis, database, handler, budget
    <3>1. CASE ShutdownRequest(i)
      BY <3>1 DEF ShutdownRequest
    <3>2. CASE ListenerSeesIdle(i)
      BY <3>2 DEF ListenerSeesIdle
    <3>3. CASE Close(i)
      BY <3>3 DEF Close
    <3>4. CASE Restart(i)
      BY <3>4 DEF Restart
    <3> QED
      BY <2>5, <3>1, <3>2, <3>3, <3>4 DEF ListenerStep
  <2>6. ASSUME NEW i \in Instances, Exit(i) \/ Crash(i) PROVE TypeOK'
    <3>1. Die(i) /\ faults' \in Nat /\ shutdowns' \in Nat
      BY <2>6 DEF Exit, Crash, Fault, budget
    <3>2. PICK T \in SUBSET Tasks : Idle(T)
      BY <3>1 DEF Die
    <3> QED
      BY <2>2, <3>1, <3>2, IdleType DEF Die, redis, database, Streams
  <2>7. ASSUME NEW t \in Tasks, HandlerStep(t) PROVE TypeOK'
    <3> USE <2>2 DEF OnlyData, redis, database, process, budget, HoldingSteps
    <3>1. CASE Start(t)
      BY <3>1 DEF Start
    <3>2. CASE Read(t)
      BY <3>2 DEF Read, StreamReadEntries
    <3>3. ASSUME NEW e \in Ids, Apply(t, e) \/ UniqueViolation(t, e)
          PROVE TypeOK'
      <4>1. Processed(t, e) /\ row' \in [Keys -> Ids \cup {0}]
        BY <3>3 DEF Apply, UniqueViolation
      <4> QED
        BY <4>1 DEF Processed
    <3>4. ASSUME NEW e \in Ids, BreakOnEntry(t, e) PROVE TypeOK'
      BY <3>4 DEF BreakOnEntry, Break, AfterLoop
    <3>5. CASE EndOfBatch(t)
      BY <3>5 DEF EndOfBatch, Break, AfterLoop
    <3>6. CASE Trim(t)
      <4>1. Cardinality(stream[on[t]] \ StreamTrimEntries(stream[on[t]], last[t]))
              \in Nat
        BY IdsFinite, FS_Subset, FS_CardinalityType
      <4> QED
        BY <3>6, <4>1 DEF Trim, StreamTrimEntries
    <3>7. CASE Delete(t)
      BY <3>7 DEF Delete, StreamDeleteEntries
    <3>8. CASE Unlock(t)
      BY <3>8 DEF Unlock
    <3>9. CASE Leave(t)
      BY <3>9, IdleType DEF Leave
    <3> QED
      BY <2>7, <3>1, <3>2, <3>3, <3>4, <3>5, <3>6, <3>7, <3>8, <3>9
      DEF HandlerStep, ExecuteEntry
  <2>8. ASSUME NEW t \in Tasks, HandlerFault(t) PROVE TypeOK'
    <3> USE <2>2
        DEF Fault, SessionFails, redis, database, process, budget, HoldingSteps
    <3>1. CASE ReadFails(t)
      BY <3>1 DEF ReadFails
    <3>2. ASSUME NEW e \in Ids, QueryFails(t, e) PROVE TypeOK'
      <4>1. row' \in [Keys -> Ids \cup {0}]
        BY <3>2 DEF QueryFails
      <4> QED
        BY <3>2, <4>1 DEF QueryFails, Break, AfterLoop
    <3>3. ASSUME NEW e \in Ids, ConnectionPanics(t, e) PROVE TypeOK'
      BY <3>3, IdleType DEF ConnectionPanics
    <3>4. CASE TrimFails(t)
      <4>1. stream' \in [Streams -> SUBSET Ids]
        BY ONLY TypeOK, <3>4, StreamType DEF TrimFails
      <4> QED
        BY <3>4, <4>1 DEF TrimFails
    <3>5. CASE DeleteFails(t)
      <4>1. stream' \in [Streams -> SUBSET Ids]
        BY ONLY TypeOK, <3>5, StreamType DEF DeleteFails
      <4> QED
        BY <3>5, <4>1 DEF DeleteFails
    <3>6. CASE UnlockFails(t)
      <4>1. flag' \in [Streams -> BOOLEAN]
        BY <3>6 DEF UnlockFails
      <4> QED
        BY <3>6, <4>1 DEF UnlockFails
    <3> QED
      BY <2>8, <3>1, <3>2, <3>3, <3>4, <3>5, <3>6
      DEF HandlerFault, ExecutionFault
  <2>9. CASE UNCHANGED vars
    BY <2>2, <2>9 DEF vars, redis, database, process, handler, budget
  <2> QED
    BY <2>1, <2>3, <2>4, <2>5, <2>6, <2>7, <2>8, <2>9 DEF Next
<1> QED
  BY <1>1, <1>2, PTL DEF Spec

-----------------------------------------------------------------------------
(* No query is lost, and each partition is processed in order.             *)
(*                                                                         *)
(* NoLoss is not inductive: a trim deletes by id, so what it deletes must  *)
(* have been processed because the id it stops at was (ProcessedInOrder),  *)
(* and a handler processes in order because a batch leaves no unprocessed  *)
(* gap below any of its entries (BatchHasNoGap), even when another handler *)
(* works on the same partition.                                            *)

\* An entry is held by no other stream than its own.
StreamsOwn == \A s \in Streams : \A i \in stream[s] : StreamOf(i) = s

\* What the cursor of a handler says.
CursorIsDone ==
  \A t \in Tasks :
    /\ pc[t] \in {"idle", "spawned", "read"} => last[t] = 0
    /\ pc[t] \in {"trim", "del"} => last[t] # 0
    /\ last[t] # 0 => last[t] \in done /\ StreamOf(last[t]) = on[t]

BatchHasNoGap ==
  \A t \in Tasks : pc[t] = "exec" =>
    \A i \in batch[t] :
      /\ StreamOf(i) = on[t]
      /\ \A j \in Ids : j < i /\ StreamOf(j) = on[t] => j \in done \cup batch[t]

QueueInv ==
  /\ TypeOK
  /\ StreamsOwn
  /\ CursorIsDone
  /\ BatchHasNoGap
  /\ NoLoss
  /\ ProcessedInOrder

\* XREAD COUNT returns a part of the stream that is closed downwards.
LEMMA ReadIsPrefix ==
  ASSUME NEW S, IsFiniteSet(S), S \subseteq Nat, NEW n \in Nat,
         NEW i \in StreamReadEntries(S, n), NEW j \in S, j < i
  PROVE  j \in StreamReadEntries(S, n)
<1> DEFINE Below(x) == {y \in S : y < x}
<1>0. i \in S
  BY DEF StreamReadEntries
<1>a. \A y \in S : y < j => y < i
  BY <1>0
<1>1. Below(j) \subseteq Below(i) /\ Below(i) \subseteq S
  BY <1>a
<1>2. IsFiniteSet(Below(i))
  BY <1>1, FS_Subset
<1>3. Cardinality(Below(j)) <= Cardinality(Below(i)) /\ IsFiniteSet(Below(j))
  BY <1>1, <1>2, FS_Subset
<1>4. Cardinality(Below(i)) \in Nat /\ Cardinality(Below(j)) \in Nat
  BY <1>2, <1>3, FS_CardinalityType
<1>5. Cardinality(Below(i)) < n
  BY DEF StreamReadEntries
<1>6. Cardinality(Below(j)) < n
  BY <1>3, <1>4, <1>5
<1> HIDE DEF Below
<1>7. Cardinality({y \in S : y < j}) < n
  BY <1>6 DEF Below
<1> QED
  BY <1>7 DEF StreamReadEntries

\* An entry is a record, and its key names a stream.
LEMMA EntryType ==
  ASSUME TypeOK, NEW i \in Ids
  PROVE  /\ log[i] \in Entry
         /\ log[i].key \in Keys
         /\ StreamOf(i) \in Streams
<1>1. log[i] \in Entry
  BY DEF TypeOK, Ids
<1>2. log[i].key \in Keys
  BY <1>1 DEF Entry
<1> QED
  BY <1>1, <1>2 DEF StreamOf

\* A step that leaves the entries and the handlers alone keeps the invariant.
LEMMA QuietStep ==
  ASSUME QueueInv, TypeOK', UNCHANGED <<log, stream, done, pc, on, batch, last>>
  PROVE  QueueInv'
  BY DEF QueueInv, StreamsOwn, CursorIsDone, BatchHasNoGap, NoLoss,
    ProcessedInOrder, StreamOf, Ids

\* A push adds an entry to its stream, after all others.
LEMMA PushStep ==
  ASSUME QueueInv, TypeOK', NEW k \in Keys, NEW kind \in Kinds, Push(k, kind)
  PROVE  QueueInv'
<1>0. PICK n \in Nat : n = Len(log) + 1
  BY PushLog DEF QueueInv
<1>1. /\ Ids' = Ids \cup {n} /\ n \notin Ids /\ n \in Nat
      /\ \A i \in Ids : i \in Nat /\ i < n
  <2>1. Len(log) \in Nat /\ Ids' = Ids \cup {n}
    BY <1>0, PushLog DEF QueueInv
  <2> QED
    BY <1>0, <2>1 DEF Ids
<1>a. \A i \in Ids : StreamOf(i)' = StreamOf(i)
  BY PushLog DEF QueueInv, StreamOf
<1>b. StreamOf(n)' = Shard[k] /\ Shard[k] \in Streams
  <2>1. log'[n].key = k
    BY <1>0, PushLog DEF QueueInv
  <2> QED
    BY <2>1 DEF StreamOf
<1>2. UNCHANGED <<done, pc, on, batch, last>>
  BY DEF Push, database, handler
<1>3. stream' = [stream EXCEPT ![Shard[k]] = @ \cup {n}]
  BY <1>0 DEF Push
<1> USE DEF QueueInv
<1>4. StreamsOwn'
  BY <1>1, <1>a, <1>b, <1>3 DEF StreamsOwn, TypeOK
<1>5. CursorIsDone'
  BY <1>1, <1>a, <1>2 DEF CursorIsDone, TypeOK
<1>6. BatchHasNoGap'
  BY <1>1, <1>a, <1>2 DEF BatchHasNoGap, TypeOK
<1>7. NoLoss'
  <2> SUFFICES ASSUME NEW i \in Ids' PROVE i \in stream'[StreamOf(i)'] \/ i \in done'
    BY DEF NoLoss
  <2>1. CASE i = n
    BY <1>b, <1>3, <2>1 DEF TypeOK
  <2>2. CASE i \in Ids
    <3>1. i \in stream[StreamOf(i)] \/ i \in done
      BY <2>2 DEF NoLoss
    <3>2. StreamOf(i) \in Streams
      BY <2>2, EntryType
    <3> QED
      BY <1>a, <1>2, <1>3, <2>2, <3>1, <3>2 DEF TypeOK
  <2> QED
    BY <1>1, <2>1, <2>2
<1>8. ProcessedInOrder'
  BY <1>1, <1>a, <1>2 DEF ProcessedInOrder, TypeOK
<1> QED
  BY <1>4, <1>5, <1>6, <1>7, <1>8

\* A batch is read: what it does not contain of its stream lies above it.
LEMMA ReadStep ==
  ASSUME QueueInv, TypeOK', NEW t \in Tasks, Read(t)
  PROVE  QueueInv'
<1> DEFINE S == stream[on[t]]
           B == StreamReadEntries(S, MaxReadCount)
<1>1. /\ pc[t] = "read" /\ UNCHANGED <<log, stream, done, on, last>>
      /\ batch' = [batch EXCEPT ![t] = B]
      /\ pc' = [pc EXCEPT ![t] = IF B = {} THEN "unlock" ELSE "exec"]
  BY DEF Read, OnlyData, database
<1>2. /\ on[t] \in Streams /\ S \subseteq Ids /\ B \subseteq S
      /\ \A i \in S : StreamOf(i) = on[t]
  BY DEF QueueInv, TypeOK, StreamsOwn, StreamReadEntries
<1>3. \A i \in B, j \in S : j < i => j \in B
  <2>1. IsFiniteSet(S) /\ S \subseteq Nat
    BY <1>2, IdsFinite, FS_Subset DEF QueueInv
  <2> QED
    BY <2>1, ReadIsPrefix, ReadCountAssumption
<1> HIDE DEF S, B
<1>4. Ids' = Ids /\ \A i : StreamOf(i)' = StreamOf(i)
  BY <1>1 DEF Ids, StreamOf
<1> USE DEF QueueInv
<1>5. StreamsOwn' /\ NoLoss' /\ ProcessedInOrder'
  BY <1>1, <1>4 DEF StreamsOwn, NoLoss, ProcessedInOrder
<1>6. CursorIsDone'
  BY <1>1, <1>4 DEF CursorIsDone, TypeOK
<1>7. BatchHasNoGap'
  <2> SUFFICES ASSUME NEW u \in Tasks, pc'[u] = "exec", NEW i \in batch'[u]
               PROVE  /\ StreamOf(i) = on[u]
                      /\ \A j \in Ids : j < i /\ StreamOf(j) = on[u]
                                       => j \in done \cup batch'[u]
    BY <1>1, <1>4 DEF BatchHasNoGap
  <2>1. CASE u = t
    <3>1. batch'[u] = B
      BY <1>1, <2>1 DEF TypeOK
    <3>2. \A j \in Ids : StreamOf(j) = on[t] => j \in S \/ j \in done
      BY DEF NoLoss, S
    <3> QED
      BY <1>2, <1>3, <2>1, <3>1, <3>2
  <2>2. CASE u # t
    <3>1. batch'[u] = batch[u] /\ pc[u] = "exec"
      BY <1>1, <2>2 DEF TypeOK
    <3> QED
      BY <3>1 DEF BatchHasNoGap
  <2> QED
    BY <2>1, <2>2
<1> QED
  BY <1>5, <1>6, <1>7

\* The handler processes the oldest entry it has left: all earlier entries of
\* the partition are done.
LEMMA EarlierAreDone ==
  ASSUME QueueInv, NEW t \in Tasks, NEW e \in Ids, Executing(t, e)
  PROVE  /\ e \in batch[t] /\ StreamOf(e) = on[t]
         /\ \A j \in Ids : j < e /\ StreamOf(j) = on[t] => j \in done
<1>1. e \in batch[t] /\ last[t] < e /\ pc[t] = "exec"
  BY DEF Executing, Todo
<1>2. StreamOf(e) = on[t]
  BY <1>1 DEF QueueInv, BatchHasNoGap
<1>3. ASSUME NEW j \in Ids, j < e, StreamOf(j) = on[t] PROVE j \in done
  <2>1. j \in done \cup batch[t]
    BY <1>1, <1>3 DEF QueueInv, BatchHasNoGap
  <2>2. CASE j \in batch[t]
    <3>1. ~(last[t] < j)
      BY <1>3, <2>2 DEF Executing, Todo, Ids
    <3>2. last[t] # 0 /\ j <= last[t] /\ last[t] \in Ids
      BY <3>1 DEF QueueInv, TypeOK, Ids
    <3>3. last[t] \in done /\ StreamOf(last[t]) = on[t]
      BY <3>2 DEF QueueInv, CursorIsDone
    <3> QED
      BY <1>3, <3>2, <3>3 DEF QueueInv, ProcessedInOrder, Ids
  <2> QED
    BY <2>1, <2>2
<1> QED
  BY <1>1, <1>2, <1>3

\* An entry is processed.
LEMMA ProcessedStep ==
  ASSUME QueueInv, TypeOK', NEW t \in Tasks, NEW e \in Ids, Executing(t, e),
         Processed(t, e)
  PROVE  QueueInv'
<1>1. /\ UNCHANGED <<log, stream, pc, on, batch>>
      /\ last' = [last EXCEPT ![t] = e]
      /\ done' = done \cup {e}
  BY DEF Processed, OnlyData
<1>2. Ids' = Ids /\ \A i : StreamOf(i)' = StreamOf(i)
  BY <1>1 DEF Ids, StreamOf
<1>3. /\ StreamOf(e) = on[t] /\ pc[t] = "exec" /\ e # 0
      /\ \A j \in Ids : j < e /\ StreamOf(j) = on[t] => j \in done
  BY EarlierAreDone DEF Executing, Ids
<1> USE DEF QueueInv
<1>4. StreamsOwn' /\ NoLoss'
  BY <1>1, <1>2 DEF StreamsOwn, NoLoss
<1>5. BatchHasNoGap'
  BY <1>1, <1>2 DEF BatchHasNoGap
<1>6. CursorIsDone'
  <2> SUFFICES ASSUME NEW u \in Tasks
               PROVE  /\ pc[u] \in {"idle", "spawned", "read"} => last'[u] = 0
                      /\ pc[u] \in {"trim", "del"} => last'[u] # 0
                      /\ last'[u] # 0 => last'[u] \in done' /\ StreamOf(last'[u]) = on[u]
    BY <1>1, <1>2 DEF CursorIsDone
  <2>1. CASE u = t
    BY <1>1, <1>3, <2>1 DEF TypeOK
  <2>2. CASE u # t
    BY <1>1, <2>2 DEF CursorIsDone, TypeOK
  <2> QED
    BY <2>1, <2>2
<1>7. ProcessedInOrder'
  BY <1>1, <1>2, <1>3 DEF ProcessedInOrder
<1> QED
  BY <1>4, <1>5, <1>6, <1>7

\* The handler goes on, or ends, without touching the streams.
LEMMA HandlerMoves ==
  ASSUME QueueInv, TypeOK', NEW T \in SUBSET Tasks,
         UNCHANGED <<log, stream, done>>,
         \A u \in Tasks \ T :
           pc'[u] = pc[u] /\ on'[u] = on[u] /\ batch'[u] = batch[u] /\ last'[u] = last[u],
         \A t \in T :
           /\ pc'[t] # "exec"
           /\ pc'[t] \in {"idle", "spawned", "read"} => last'[t] = 0
           /\ pc'[t] \in {"trim", "del"} => last'[t] # 0
           /\ last'[t] # 0 => last'[t] = last[t] /\ on'[t] = on[t]
  PROVE  QueueInv'
<1>2. Ids' = Ids /\ \A i : StreamOf(i)' = StreamOf(i)
  BY DEF Ids, StreamOf
<1> USE DEF QueueInv
<1>3. StreamsOwn' /\ NoLoss' /\ ProcessedInOrder'
  BY <1>2 DEF StreamsOwn, NoLoss, ProcessedInOrder
<1>4. CursorIsDone'
  BY <1>2 DEF CursorIsDone
<1>5. BatchHasNoGap'
  BY <1>2 DEF BatchHasNoGap
<1> QED
  BY <1>3, <1>4, <1>5

\* Entries leave the stream of a handler, all of them done.
LEMMA RemovalStep ==
  ASSUME QueueInv, TypeOK', NEW t \in Tasks,
         pc[t] \in {"trim", "del"},
         pc' = [pc EXCEPT ![t] = "del"] \/ pc' = [pc EXCEPT ![t] = "unlock"],
         UNCHANGED <<log, done, on, batch, last>>,
         NEW S \in SUBSET stream[on[t]],
         stream' = [stream EXCEPT ![on[t]] = S],
         \A i \in stream[on[t]] \ S : i <= last[t]
  PROVE  QueueInv'
<1>1. Ids' = Ids /\ \A i : StreamOf(i)' = StreamOf(i)
  BY DEF Ids, StreamOf
<1> USE DEF QueueInv
<1>2. last[t] # 0 /\ last[t] \in done /\ StreamOf(last[t]) = on[t] /\ on[t] \in Streams
  BY DEF CursorIsDone, TypeOK
<1>3. \A i \in stream[on[t]] \ S : i \in done
  <2> SUFFICES ASSUME NEW i \in stream[on[t]] \ S PROVE i \in done
    OBVIOUS
  <2>1. i \in Ids /\ i <= last[t] /\ StreamOf(i) = on[t] /\ last[t] \in Ids
    BY <1>2 DEF StreamsOwn, TypeOK
  <2>2. CASE i < last[t]
    BY <1>2, <2>1, <2>2 DEF ProcessedInOrder
  <2>3. CASE i = last[t]
    BY <1>2, <2>3
  <2> QED
    BY <2>1, <2>2, <2>3 DEF Ids
<1>4. StreamsOwn'
  BY <1>1, <1>2 DEF StreamsOwn, TypeOK
<1>5. NoLoss'
  <2> SUFFICES ASSUME NEW i \in Ids PROVE i \in stream'[StreamOf(i)] \/ i \in done
    BY <1>1 DEF NoLoss
  <2>1. StreamOf(i) \in Streams /\ (i \in stream[StreamOf(i)] \/ i \in done)
    BY EntryType DEF NoLoss
  <2> QED
    BY <1>2, <1>3, <2>1 DEF TypeOK
<1>6. ProcessedInOrder'
  BY <1>1 DEF ProcessedInOrder
<1>7. CursorIsDone'
  BY <1>1, <1>2 DEF CursorIsDone, TypeOK
<1>8. BatchHasNoGap'
  <2>1. \A u \in Tasks : pc'[u] = "exec" => pc[u] = "exec"
    BY DEF TypeOK
  <2> QED
    BY <1>1, <2>1 DEF BatchHasNoGap
<1> QED
  BY <1>4, <1>5, <1>6, <1>7, <1>8

\* Every step keeps the invariant.
LEMMA QueueInvStep ==
  ASSUME QueueInv, TypeOK', [Next]_vars
  PROVE  QueueInv'
<1>1. ASSUME NEW k \in Keys, NEW kind \in Kinds, Push(k, kind) PROVE QueueInv'
  BY <1>1, PushStep
<1>2. ASSUME NEW s \in Streams, Expire(s) PROVE QueueInv'
  BY <1>2, QuietStep DEF Expire, database, handler
<1>3. ASSUME NEW i \in Instances, LoopCheck(i) \/ StreamTaken(i) \/ LockFails(i)
      PROVE  QueueInv'
  BY <1>3, QuietStep
  DEF LoopCheck, StreamTaken, LockFails, NextPartition, redis, database, handler
<1>4. ASSUME NEW i \in Instances,
             ShutdownRequest(i) \/ ListenerStep(i) \/ Restart(i)
      PROVE  QueueInv'
  BY <1>4, QuietStep
  DEF ShutdownRequest, ListenerStep, ListenerSeesIdle, Close, Restart, redis,
      database, handler
<1>5. CASE UNCHANGED vars
  BY <1>5, QuietStep DEF vars, redis, database, handler
<1>6. ASSUME NEW i \in Instances, NEW t \in Tasks, TakeStream(i, t) PROVE QueueInv'
  <2>1. last[t] = 0 /\ last' = last
    BY <1>6 DEF TakeStream, QueueInv, CursorIsDone
  <2>2. /\ UNCHANGED <<log, stream, done, batch>>
        /\ pc' = [pc EXCEPT ![t] = "spawned"]
        /\ on' = [on EXCEPT ![t] = idx[i]]
    BY <1>6 DEF TakeStream, NextPartition, database
  <2>3. \A u \in Tasks \ {t} : pc'[u] = pc[u] /\ on'[u] = on[u]
    BY <2>2 DEF QueueInv, TypeOK
  <2>4. \A u \in {t} : pc'[u] = "spawned" /\ last'[u] = 0
    BY <2>1, <2>2 DEF QueueInv, TypeOK
  <2>5. \A u \in Tasks \ {t} :
          pc'[u] = pc[u] /\ on'[u] = on[u] /\ batch'[u] = batch[u] /\ last'[u] = last[u]
    BY ONLY <2>1, <2>2, <2>3
  <2>6. \A u \in {t} :
          /\ pc'[u] # "exec"
          /\ pc'[u] \in {"idle", "spawned", "read"} => last'[u] = 0
          /\ pc'[u] \in {"trim", "del"} => last'[u] # 0
          /\ last'[u] # 0 => last'[u] = last[u] /\ on'[u] = on[u]
    BY ONLY <2>4
  <2>7. UNCHANGED <<log, stream, done>> /\ {t} \in SUBSET Tasks
    BY ONLY <2>2, t \in Tasks
  <2> QED
    BY ONLY QueueInv, TypeOK', <2>5, <2>6, <2>7, HandlerMoves
<1>7. ASSUME NEW T \in SUBSET Tasks, Idle(T), UNCHANGED <<log, stream, done>>
      PROVE  QueueInv'
  BY <1>7, HandlerMoves DEF Idle
<1>8. ASSUME NEW i \in Instances, Exit(i) \/ Crash(i) PROVE QueueInv'
  BY <1>7, <1>8 DEF Exit, Crash, Die, redis, database
<1>9. ASSUME NEW t \in Tasks, HandlerStep(t) \/ HandlerFault(t) PROVE QueueInv'
  <2> DEFINE Moves(p) ==
        /\ UNCHANGED <<log, stream, done, on, batch, last>>
        /\ pc' = [pc EXCEPT ![t] = p]
  <2>1. ASSUME NEW p \in {"read", "trim", "unlock", "leave"}, Moves(p),
               p = "read" => last[t] = 0, p = "trim" => last[t] # 0
        PROVE  QueueInv'
    <3>1. \A u \in Tasks \ {t} : pc'[u] = pc[u]
      BY <2>1 DEF QueueInv, TypeOK
    <3>2. \A u \in {t} : pc'[u] = p
      BY <2>1 DEF QueueInv, TypeOK
    <3> QED
      BY <2>1, <3>1, <3>2, HandlerMoves, {t} \in SUBSET Tasks
  <2> HIDE DEF Moves
  <2>2. CASE Start(t)
    <3>1. Moves("read") /\ last[t] = 0
      BY <2>2 DEF Start, Moves, redis, database, QueueInv, CursorIsDone
    <3> QED
      BY <2>1, <3>1
  <2>3. CASE Read(t)
    BY <2>3, ReadStep
  <2>4. ASSUME NEW e \in Ids, Apply(t, e) \/ UniqueViolation(t, e) PROVE QueueInv'
    BY <2>4, ProcessedStep DEF Apply, UniqueViolation
  <2>5. ASSUME Break(t), UNCHANGED done PROVE QueueInv'
    <3>1. Moves(AfterLoop(last[t]))
      BY <2>5 DEF Break, Moves, redis
    <3>2. AfterLoop(last[t]) \in {"trim", "unlock"}
          /\ (AfterLoop(last[t]) = "trim" => last[t] # 0)
      BY DEF AfterLoop
    <3> QED
      BY <2>1, <3>1, <3>2
  <2>6. ASSUME NEW e \in Ids, BreakOnEntry(t, e) \/ QueryFails(t, e) PROVE QueueInv'
    BY <2>5, <2>6 DEF BreakOnEntry, QueryFails, database
  <2>7. CASE EndOfBatch(t)
    BY <2>5, <2>7 DEF EndOfBatch, database
  <2>8. CASE Trim(t) \/ Delete(t) \/ TrimFails(t) \/ DeleteFails(t)
    <3>1. /\ pc[t] \in {"trim", "del"}
          /\ pc' = [pc EXCEPT ![t] = "del"] \/ pc' = [pc EXCEPT ![t] = "unlock"]
          /\ UNCHANGED <<log, done, on, batch, last>>
      BY <2>8 DEF Trim, Delete, TrimFails, DeleteFails, SessionFails, OnlyData, database
    <3>2. PICK S \in SUBSET stream[on[t]] :
            /\ stream' = [stream EXCEPT ![on[t]] = S]
            /\ \A i \in stream[on[t]] \ S : i <= last[t]
      <4> DEFINE Q == stream[on[t]]
      <4>1. /\ stream = [stream EXCEPT ![on[t]] = Q] /\ Q \subseteq Ids
            /\ last[t] \in Ids \cup {0}
        BY DEF QueueInv, TypeOK
      <4>2. \A i \in Q \ StreamTrimEntries(Q, last[t]) : i <= last[t]
        BY <4>1 DEF StreamTrimEntries, Ids
      <4>3. \A i \in Q \ StreamDeleteEntries(Q, last[t]) : i <= last[t]
        BY <4>1 DEF StreamDeleteEntries, Ids
      <4>4. \E S \in {Q, StreamTrimEntries(Q, last[t]), StreamDeleteEntries(Q, last[t])} :
              stream' = [stream EXCEPT ![on[t]] = S]
        BY <2>8, <4>1 DEF Trim, Delete, TrimFails, DeleteFails
      <4> QED
        BY <4>2, <4>3, <4>4 DEF StreamTrimEntries, StreamDeleteEntries
    <3> QED
      BY <3>1, <3>2, RemovalStep
  <2>9. CASE Unlock(t) \/ UnlockFails(t)
    <3>1. Moves("leave")
      BY <2>9 DEF Unlock, UnlockFails, Moves, database
    <3> QED
      BY <2>1, <3>1
  <2>10. CASE Leave(t)
    BY <1>7, <2>10, {t} \in SUBSET Tasks DEF Leave, redis, database
  <2>11. CASE ReadFails(t)
    <3>1. Moves("unlock")
      BY <2>11 DEF ReadFails, SessionFails, Moves, database
    <3> QED
      BY <2>1, <3>1
  <2>12. ASSUME NEW e \in Ids, ConnectionPanics(t, e) PROVE QueueInv'
    BY <1>7, <2>12, {t} \in SUBSET Tasks DEF ConnectionPanics, redis, database
  <2> QED
    BY <1>9, <2>2, <2>3, <2>4, <2>6, <2>7, <2>8, <2>9, <2>10, <2>11, <2>12
    DEF HandlerStep, HandlerFault, ExecuteEntry, ExecutionFault
<1> QED
  BY <1>1, <1>2, <1>3, <1>4, <1>5, <1>6, <1>8, <1>9
  DEF Next, LoopStep, IsStreamAvailable

\* The invariant behind the two theorems that follow holds in every state.
THEOREM QueueInvariant == Spec => []QueueInv
<1>1. Init => QueueInv
  <2>1. Init => TypeOK
    BY DEF Init, TypeOK, Streams, Ids, HoldingSteps, Entry
  <2> QED
    BY <2>1
    DEF Init, QueueInv, StreamsOwn, CursorIsDone, BatchHasNoGap, NoLoss,
        ProcessedInOrder, Ids
<1>2. QueueInv /\ TypeOK' /\ [Next]_vars => QueueInv'
  BY QueueInvStep
<1> QED
  BY <1>1, <1>2, Typing, PTL DEF Spec

\* No query is lost: an entry leaves its stream only after a handler counted it
\* as processed, with or without expired flags, crashes, panics, lost replies.
THEOREM NothingLost == Spec => []NoLoss
  BY QueueInvariant, PTL DEF QueueInv

\* The queries of a partition are processed in the order of their push.
THEOREM OrderKept == Spec => []ProcessedInOrder
  BY QueueInvariant, PTL DEF QueueInv

-----------------------------------------------------------------------------
(* One handler per partition, if no flag expires under a handler.          *)

\* A handler at work finds the flag of its partition set: by the SET NX that
\* led to it, and undone by nobody but itself.
FlagHeld == \A t \in Tasks : Holding(t) => flag[on[t]]

LockInv == TypeOK /\ FlagHeld /\ MutualExclusion

\* A step that sets no flag back and brings no handler to work.
LEMMA LockKept ==
  ASSUME LockInv, TypeOK',
         \A s \in Streams : flag[s] => flag'[s],
         \A t \in Tasks : Holding(t)' => Holding(t) /\ on'[t] = on[t]
  PROVE  LockInv'
  BY DEF LockInv, FlagHeld, MutualExclusion, TypeOK

LEMMA LockInvStep ==
  ASSUME SafeTTL, LockInv, TypeOK', [Next]_vars
  PROVE  LockInv'
<1> DEFINE Moves(t, p) ==
      /\ UNCHANGED <<flag, on>>
      /\ p \in HoldingSteps \cup {"idle", "leave"}
      /\ pc' = [pc EXCEPT ![t] = p]
<1>1. ASSUME UNCHANGED <<flag, pc, on>> PROVE LockInv'
  BY <1>1, LockKept DEF Holding
<1>2. ASSUME NEW t \in Tasks, NEW p, Moves(t, p), Holding(t) PROVE LockInv'
  <2>1. \A u \in Tasks : Holding(u)' => Holding(u)
    BY <1>2 DEF Holding, LockInv, TypeOK
  <2> QED
    BY <1>2, <2>1, LockKept
<1>3. ASSUME NEW T \in SUBSET Tasks, Idle(T), UNCHANGED flag PROVE LockInv'
  <2>1. \A u \in Tasks : Holding(u)' => Holding(u) /\ on'[u] = on[u]
    BY <1>3 DEF Holding, HoldingSteps, Idle, LockInv, TypeOK
  <2> QED
    BY <1>3, <2>1, LockKept
<1> HIDE DEF Moves
<1>4. ASSUME NEW k \in Keys, NEW kind \in Kinds, Push(k, kind) PROVE LockInv'
  BY <1>1, <1>4 DEF Push, handler
<1>5. ASSUME NEW s \in Streams, Expire(s) PROVE LockInv'
  <2>1. \A t \in Tasks : Holding(t) => on[t] # s
    BY <1>5 DEF Expire
  <2>2. flag' = [flag EXCEPT ![s] = FALSE] /\ UNCHANGED <<pc, on>>
    BY <1>5 DEF Expire, handler
  <2> QED
    BY <2>1, <2>2 DEF LockInv, FlagHeld, MutualExclusion, Holding, TypeOK
<1>6. ASSUME NEW i \in Instances, LoopCheck(i) \/ StreamTaken(i) PROVE LockInv'
  BY <1>1, <1>6 DEF LoopCheck, StreamTaken, redis, handler
<1>7. ASSUME NEW i \in Instances, LockFails(i) PROVE LockInv'
  <2>1. UNCHANGED <<pc, on>> /\ \A s \in Streams : flag[s] => flag'[s]
    BY <1>7 DEF LockFails, handler, LockInv, TypeOK
  <2> QED
    BY <2>1, LockKept DEF Holding
<1>8. ASSUME NEW i \in Instances, NEW t \in Tasks, TakeStream(i, t) PROVE LockInv'
  <2>1. /\ ~flag[idx[i]] /\ idx[i] \in Streams
        /\ flag' = [flag EXCEPT ![idx[i]] = TRUE]
        /\ pc' = [pc EXCEPT ![t] = "spawned"]
        /\ on' = [on EXCEPT ![t] = idx[i]]
    BY <1>8 DEF TakeStream, LockInv, TypeOK
  <2>2. \A u \in Tasks \ {t} : /\ Holding(u)' => Holding(u) /\ on[u] # idx[i]
                               /\ on'[u] = on[u]
    BY <2>1 DEF LockInv, FlagHeld, Holding, TypeOK
  <2>3. FlagHeld'
    BY <2>1, <2>2 DEF FlagHeld, LockInv, TypeOK
  <2>4. \A u, v \in Tasks : Holding(u)' /\ Holding(v)' /\ on'[u] = on'[v] => u = v
    <3> SUFFICES ASSUME NEW u \in Tasks, NEW v \in Tasks,
                        Holding(u)', Holding(v)', on'[u] = on'[v]
                 PROVE  u = v
      OBVIOUS
    <3>1. on'[t] = idx[i]
      BY <2>1 DEF LockInv, TypeOK
    <3>2. CASE u = t \/ v = t
      BY ONLY <2>2, <3>1, <3>2, Holding(u)', Holding(v)', on'[u] = on'[v],
              u \in Tasks, v \in Tasks
    <3>3. CASE u # t /\ v # t
      <4>1. Holding(u) /\ Holding(v) /\ on[u] = on[v]
        BY ONLY <2>2, <3>3, Holding(u)', Holding(v)', on'[u] = on'[v],
                u \in Tasks, v \in Tasks
      <4> QED
        BY <4>1 DEF MutualExclusion, LockInv
    <3> QED
      BY <3>2, <3>3
  <2> QED
    BY <2>3, <2>4 DEF LockInv, MutualExclusion
<1>9. ASSUME NEW i \in Instances,
             ShutdownRequest(i) \/ ListenerStep(i) \/ Restart(i)
      PROVE  LockInv'
  BY <1>1, <1>9
  DEF ShutdownRequest, ListenerStep, ListenerSeesIdle, Close, Restart, redis, handler
<1>10. ASSUME NEW i \in Instances, Exit(i) \/ Crash(i) PROVE LockInv'
  BY <1>3, <1>10 DEF Exit, Crash, Die, redis
<1>11. ASSUME NEW t \in Tasks, HandlerStep(t) \/ HandlerFault(t) PROVE LockInv'
  <2> USE DEF redis, process, OnlyData
  <2>1. CASE Start(t)
    <3>1. Moves(t, "read") /\ Holding(t)
      BY <2>1 DEF Start, Moves, Holding, HoldingSteps
    <3> QED
      BY <1>2, <3>1
  <2>2. CASE Read(t)
    <3>1. Holding(t) /\ (Moves(t, "unlock") \/ Moves(t, "exec"))
      BY <2>2 DEF Read, Moves, Holding, HoldingSteps
    <3> QED
      BY <1>2, <3>1
  <2>3. ASSUME NEW e \in Ids, Apply(t, e) \/ UniqueViolation(t, e) PROVE LockInv'
    BY <1>1, <2>3 DEF Apply, UniqueViolation, Processed
  <2>4. ASSUME Break(t), pc[t] = "exec" PROVE LockInv'
    <3>1. Holding(t) /\ Moves(t, AfterLoop(last[t]))
      BY <2>4 DEF Break, Moves, AfterLoop, Holding, HoldingSteps
    <3> QED
      BY <1>2, <3>1
  <2>5. ASSUME NEW e \in Ids, BreakOnEntry(t, e) \/ QueryFails(t, e) PROVE LockInv'
    BY <2>4, <2>5 DEF BreakOnEntry, QueryFails, Executing
  <2>6. CASE EndOfBatch(t)
    BY <2>4, <2>6 DEF EndOfBatch
  <2>7. CASE Trim(t)
    <3>1. Moves(t, "del") /\ Holding(t)
      BY <2>7 DEF Trim, Moves, Holding, HoldingSteps
    <3> QED
      BY <1>2, <3>1
  <2>8. CASE Delete(t) \/ TrimFails(t) \/ DeleteFails(t) \/ ReadFails(t)
    <3>1. Moves(t, "unlock") /\ Holding(t)
      BY <2>8
      DEF Delete, TrimFails, DeleteFails, ReadFails, SessionFails, Moves, Holding,
          HoldingSteps
    <3> QED
      BY <1>2, <3>1
  <2>9. CASE Unlock(t) \/ UnlockFails(t)
    <3>1. /\ Holding(t) /\ on' = on
          /\ pc' = [pc EXCEPT ![t] = "leave"]
          /\ flag' = flag \/ flag' = [flag EXCEPT ![on[t]] = FALSE]
      BY <2>9 DEF Unlock, UnlockFails, Holding, HoldingSteps
    <3>2. \A u \in Tasks : Holding(u)' => Holding(u) /\ u # t
      BY <3>1 DEF Holding, HoldingSteps, LockInv, TypeOK
    <3>3. \A u \in Tasks : Holding(u)' => on[u] # on[t]
      BY <3>1, <3>2 DEF LockInv, MutualExclusion
    <3>4. FlagHeld'
      BY <3>1, <3>2, <3>3 DEF FlagHeld, LockInv, TypeOK
    <3>5. MutualExclusion'
      BY <3>1, <3>2 DEF MutualExclusion, LockInv
    <3> QED
      BY <3>4, <3>5 DEF LockInv
  <2>10. CASE Leave(t)
    BY <1>3, <2>10, {t} \in SUBSET Tasks DEF Leave
  <2>11. ASSUME NEW e \in Ids, ConnectionPanics(t, e) PROVE LockInv'
    BY <1>3, <2>11, {t} \in SUBSET Tasks DEF ConnectionPanics
  <2> QED
    BY <1>11, <2>1, <2>2, <2>3, <2>5, <2>6, <2>7, <2>8, <2>9, <2>10, <2>11
    DEF HandlerStep, HandlerFault, ExecuteEntry, ExecutionFault
<1>12. CASE UNCHANGED vars
  BY <1>1, <1>12 DEF vars, redis, handler
<1> QED
  BY <1>4, <1>5, <1>6, <1>7, <1>8, <1>9, <1>10, <1>11, <1>12
  DEF Next, LoopStep, IsStreamAvailable

\* While no flag expires under a handler at work, no two handlers, of one or
\* of two processes, are at work on one partition.
THEOREM Exclusion == ASSUME SafeTTL PROVE Spec => []MutualExclusion
<1>1. Init => LockInv
  <2>1. Init => TypeOK
    BY DEF Init, TypeOK, Streams, Ids, HoldingSteps, Entry
  <2> QED
    BY <2>1 DEF Init, LockInv, FlagHeld, MutualExclusion, Holding, HoldingSteps
<1>2. LockInv /\ TypeOK' /\ [Next]_vars => LockInv'
  BY LockInvStep
<1>3. LockInv => MutualExclusion
  BY DEF LockInv
<1> QED
  BY <1>1, <1>2, <1>3, Typing, PTL DEF Spec

-----------------------------------------------------------------------------
(* The drainer implements WorkQueue                                        *)

\* A push is an Enqueue: the new entry waits, and the others wait as before.
LEMMA PushRefines ==
  ASSUME QueueInv, NEW k \in Keys, NEW kind \in Kinds, Push(k, kind)
  PROVE  Queue!Enqueue(k, kind)
<1>0. PICK n \in Nat : n = Len(log) + 1
  BY PushLog DEF QueueInv
<1>1. /\ Ids' = Ids \cup {n} /\ n \notin Ids
      /\ \A i \in Ids : StreamOf(i)' = StreamOf(i)
      /\ StreamOf(n)' = Shard[k] /\ Shard[k] \in Streams
  <2>1. Ids' = Ids \cup {n} /\ n \notin Ids
    BY <1>0, PushLog DEF QueueInv, Ids
  <2>2. \A i \in Ids : StreamOf(i)' = StreamOf(i)
    BY PushLog DEF QueueInv, StreamOf
  <2>3. log'[n].key = k
    BY <1>0, PushLog DEF QueueInv
  <2>4. StreamOf(n)' = Shard[k] /\ Shard[k] \in Streams
    BY <2>3 DEF StreamOf
  <2> QED
    BY <2>1, <2>2, <2>4
<1>2. /\ stream \in [Streams -> SUBSET Ids] /\ done' = done /\ done \subseteq Ids
      /\ stream' = [stream EXCEPT ![Shard[k]] = @ \cup {n}]
  BY <1>0 DEF Push, database, QueueInv, TypeOK
<1>3. Pending' = Pending \cup {n}
  <2>1. \A i \in Ids : StreamOf(i) \in Streams
    BY EntryType DEF QueueInv
  <2>2. \A i \in Ids : i \in stream'[StreamOf(i)'] <=> i \in stream[StreamOf(i)]
    BY <1>1, <1>2, <2>1
  <2>3. n \in stream'[StreamOf(n)'] /\ n \notin done'
    BY <1>1, <1>2
  <2> QED
    BY <1>1, <1>2, <2>2, <2>3 DEF Pending
<1> QED
  BY <1>0, <1>2, <1>3 DEF Queue!Enqueue, Push

\* A processed entry is executed, if it was not before: no earlier entry of its
\* partition waits.
LEMMA ProcessedRefines ==
  ASSUME QueueInv, NEW t \in Tasks, NEW e \in Ids, Executing(t, e), Processed(t, e)
  PROVE  (\E i \in Pending : Queue!Execute(i)) \/ UNCHANGED <<log, Pending, done>>
<1>1. UNCHANGED <<log, stream>> /\ done' = done \cup {e}
  BY DEF Processed, OnlyData
<1>2. Pending' = Pending \ {e}
  BY <1>1 DEF Pending, Ids, StreamOf
<1>3. CASE e \in done
  BY <1>1, <1>2, <1>3 DEF Pending
<1>4. CASE e \notin done
  <2>1. e \in Pending
    BY <1>4 DEF Pending, QueueInv, NoLoss
  <2>2. ASSUME NEW j \in Pending, StreamOf(e) = StreamOf(j) PROVE e <= j
    BY <2>2, EarlierAreDone DEF Pending, Ids
  <2>3. Queue!Execute(e)
    BY <1>1, <1>2, <2>1, <2>2 DEF Queue!Execute, Queue!SamePartition, StreamOf
  <2> QED
    BY <2>1, <2>3
<1> QED
  BY <1>3, <1>4

\* What a trim or a deletion removes does not wait any more.
LEMMA RemovalRefines ==
  ASSUME QueueInv, QueueInv', UNCHANGED <<log, done>>,
         \A s \in Streams : stream'[s] \subseteq stream[s]
  PROVE  Pending' = Pending
<1>1. Ids' = Ids /\ \A i : StreamOf(i)' = StreamOf(i)
  BY DEF Ids, StreamOf
<1>2. \A i \in Ids : StreamOf(i) \in Streams
  BY EntryType DEF QueueInv
<1>3. \A i \in Ids : i \in stream'[StreamOf(i)] \/ i \in done
  BY <1>1 DEF QueueInv, NoLoss
<1> QED
  BY <1>1, <1>2, <1>3 DEF Pending

\* Every step of the drainer is a step of the queue, or one it does not see.
LEMMA QueueStep ==
  ASSUME QueueInv, QueueInv', [Next]_vars
  PROVE  [Queue!Next]_(Queue!vars)
<1> DEFINE Unseen == UNCHANGED <<log, Pending, done>>
<1>1. ASSUME UNCHANGED <<log, stream, done>> PROVE Unseen
  BY <1>1 DEF Pending, Ids, StreamOf
<1>2. ASSUME NEW k \in Keys, NEW kind \in Kinds, Push(k, kind) PROVE Queue!Next
  BY <1>2, PushRefines DEF Queue!Next
<1> HIDE DEF Unseen
<1>3. ASSUME NEW s \in Streams, Expire(s) PROVE Unseen
  BY <1>1, <1>3 DEF Expire, database
<1>4. ASSUME NEW i \in Instances,
             \/ LoopStep(i) \/ LockFails(i) \/ ShutdownRequest(i)
             \/ ListenerStep(i) \/ Exit(i) \/ Crash(i) \/ Restart(i)
      PROVE  Unseen
  BY <1>1, <1>4
  DEF LoopStep, LoopCheck, IsStreamAvailable, TakeStream, StreamTaken, LockFails,
      NextPartition, ShutdownRequest, ListenerStep, ListenerSeesIdle, Close, Exit,
      Crash, Die, Restart, redis, database
<1>5. ASSUME NEW t \in Tasks, NEW e \in Ids, Apply(t, e) \/ UniqueViolation(t, e)
      PROVE  Queue!Next \/ Unseen
  BY <1>5, ProcessedRefines DEF Apply, UniqueViolation, Queue!Next, Unseen
<1>6. ASSUME NEW t \in Tasks,
             Trim(t) \/ Delete(t) \/ TrimFails(t) \/ DeleteFails(t)
      PROVE  Unseen
  <2>1. UNCHANGED <<log, done>>
    BY <1>6 DEF Trim, Delete, TrimFails, DeleteFails, SessionFails, OnlyData, database
  <2>2. \A s \in Streams : stream'[s] \subseteq stream[s]
    <3>1. stream \in [Streams -> SUBSET Ids] /\ on[t] \in Streams
      BY DEF QueueInv, TypeOK
    <3>2. \/ UNCHANGED stream
          \/ stream' = [stream EXCEPT ![on[t]] = StreamTrimEntries(@, last[t])]
          \/ stream' = [stream EXCEPT ![on[t]] = StreamDeleteEntries(@, last[t])]
      BY <1>6 DEF Trim, Delete, TrimFails, DeleteFails
    <3> QED
      BY <3>1, <3>2 DEF StreamTrimEntries, StreamDeleteEntries
  <2> QED
    BY <2>1, <2>2, RemovalRefines DEF Unseen
<1>7. ASSUME NEW t \in Tasks, NEW e \in Ids,
             BreakOnEntry(t, e) \/ QueryFails(t, e) \/ ConnectionPanics(t, e)
      PROVE  Unseen
  BY <1>1, <1>7
  DEF BreakOnEntry, QueryFails, ConnectionPanics, Break, redis, database
<1>8. ASSUME NEW t \in Tasks,
             \/ Start(t) \/ Read(t) \/ EndOfBatch(t) \/ Unlock(t) \/ Leave(t)
             \/ ReadFails(t) \/ UnlockFails(t)
      PROVE  Unseen
  BY <1>1, <1>8
  DEF Start, Read, EndOfBatch, Break, Unlock, Leave, ReadFails, UnlockFails,
      SessionFails, OnlyData, redis, database
<1>9. ASSUME UNCHANGED vars PROVE Unseen
  BY <1>1, <1>9 DEF vars, redis, database
<1>10. ASSUME NEW t \in Tasks, HandlerStep(t) \/ HandlerFault(t)
       PROVE  Queue!Next \/ Unseen
  BY <1>5, <1>6, <1>7, <1>8, <1>10
  DEF HandlerStep, HandlerFault, ExecuteEntry, ExecutionFault
<1>11. Queue!Next \/ Unseen
  BY <1>2, <1>3, <1>4, <1>9, <1>10 DEF Next
<1> QED
  BY <1>11 DEF Queue!vars, Unseen

\* The drainer implements a queue for each partition: whatever its processes
\* and handlers do to one another, crash or repeat, the application that fills
\* the streams sees entries wait, and leave executed, once and in their order.
THEOREM QueueImplemented == Spec => ImplementsQueue
<1>1. Init => Queue!Init
  BY DEF Init, Queue!Init, Pending, Ids
<1>2. QueueInv /\ QueueInv' /\ [Next]_vars => [Queue!Next]_(Queue!vars)
  BY QueueStep
<1> QED
  BY <1>1, <1>2, QueueInvariant, PTL DEF Spec, ImplementsQueue, Queue!Spec

-----------------------------------------------------------------------------
(* The count of active tasks                                               *)

\* ActiveTasksCounted speaks of cardinalities: the handlers that count are
\* finitely many, since each was started and nobody starts two at once.
CountInv ==
  /\ TypeOK
  /\ \A i \in Instances : IsFiniteSet(Counted(i))
  /\ ActiveTasksCounted

\* Handlers of a process may move on, end or panic: what is counted stays an
\* upper bound while the counter is left alone.
LEMMA CountShrinks ==
  ASSUME CountInv, NEW i \in Instances,
         \A t \in Tasks : pc'[t] \in CountedSteps => pc[t] \in CountedSteps,
         active'[i] = active[i], active[i] \in Int
  PROVE  IsFiniteSet(Counted(i)') /\ Cardinality(Counted(i)') <= active'[i]
<1>1. Counted(i)' \subseteq Counted(i)
  BY DEF Counted
<1>2. IsFiniteSet(Counted(i)) /\ Cardinality(Counted(i)) <= active[i]
  BY DEF CountInv, ActiveTasksCounted
<1>3. IsFiniteSet(Counted(i)') /\ Cardinality(Counted(i)') <= Cardinality(Counted(i))
  BY <1>1, <1>2, FS_Subset
<1>4. Cardinality(Counted(i)') \in Int /\ Cardinality(Counted(i)) \in Int
  BY <1>2, <1>3, FS_CardinalityType
<1> QED
  BY <1>2, <1>3, <1>4

LEMMA CountInvStep ==
  ASSUME CountInv, TypeOK', [Next]_vars
  PROVE  CountInv'
<1> DEFINE Holds(i) == IsFiniteSet(Counted(i)') /\ Cardinality(Counted(i)') <= active'[i]
<1>0. ASSUME \A i \in Instances : Holds(i) PROVE CountInv'
  BY <1>0 DEF CountInv, ActiveTasksCounted
<1>t. /\ active \in [Instances -> Int]
      /\ pc \in [Tasks -> HoldingSteps \cup {"idle", "leave"}]
  BY DEF CountInv, TypeOK
<1>1. ASSUME UNCHANGED active,
             \A t \in Tasks : pc'[t] \in CountedSteps => pc[t] \in CountedSteps
      PROVE  CountInv'
  BY <1>0, <1>1, <1>t, CountShrinks
<1>2. ASSUME NEW t \in Tasks, NEW p, UNCHANGED active, pc' = [pc EXCEPT ![t] = p],
             pc[t] \in CountedSteps \/ p \notin CountedSteps
      PROVE  CountInv'
  BY <1>1, <1>2, <1>t
<1>3. ASSUME NEW t \in Tasks, Start(t) PROVE CountInv'
  <2>1. /\ pc[t] = "spawned" /\ pc' = [pc EXCEPT ![t] = "read"]
        /\ active' = [active EXCEPT ![Owner[t]] = @ + 1] /\ Owner[t] \in Instances
    BY <1>3 DEF Start
  <2>2. ASSUME NEW i \in Instances, i # Owner[t] PROVE Holds(i)
    <3>1. Counted(i)' = Counted(i) /\ active'[i] = active[i]
      BY <1>t, <2>1, <2>2 DEF Counted
    <3> QED
      BY <3>1 DEF CountInv, ActiveTasksCounted
  <2>3. ASSUME NEW i \in Instances, i = Owner[t] PROVE Holds(i)
    <3>1. Counted(i)' = Counted(i) \cup {t} /\ t \notin Counted(i)
      BY <1>t, <2>1, <2>3 DEF Counted, CountedSteps
    <3>2. IsFiniteSet(Counted(i)) /\ Cardinality(Counted(i)) <= active[i]
      BY DEF CountInv, ActiveTasksCounted
    <3>3. /\ IsFiniteSet(Counted(i)')
          /\ Cardinality(Counted(i)') = Cardinality(Counted(i)) + 1
      BY <3>1, <3>2, FS_AddElement
    <3>4. Cardinality(Counted(i)) \in Int /\ active'[i] = active[i] + 1
      BY <1>t, <2>1, <2>3, <3>2, FS_CardinalityType
    <3> QED
      BY <1>t, <3>2, <3>3, <3>4
  <2> QED
    BY <1>0, <2>2, <2>3
<1>4. ASSUME NEW t \in Tasks, Leave(t) PROVE CountInv'
  <2>1. /\ pc[t] = "leave" /\ pc' = [pc EXCEPT ![t] = "idle"]
        /\ active' = [active EXCEPT ![Owner[t]] = @ - 1] /\ Owner[t] \in Instances
    BY <1>4, <1>t DEF Leave, Idle
  <2>2. ASSUME NEW i \in Instances, i # Owner[t] PROVE Holds(i)
    <3>1. Counted(i)' = Counted(i) /\ active'[i] = active[i]
      BY <1>t, <2>1, <2>2 DEF Counted
    <3> QED
      BY <3>1 DEF CountInv, ActiveTasksCounted
  <2>3. ASSUME NEW i \in Instances, i = Owner[t] PROVE Holds(i)
    <3>1. Counted(i)' = Counted(i) \ {t} /\ t \in Counted(i)
      BY <1>t, <2>1, <2>3 DEF Counted, CountedSteps
    <3>2. IsFiniteSet(Counted(i)) /\ Cardinality(Counted(i)) <= active[i]
      BY DEF CountInv, ActiveTasksCounted
    <3>3. /\ IsFiniteSet(Counted(i)')
          /\ Cardinality(Counted(i)') = Cardinality(Counted(i)) - 1
      BY <3>1, <3>2, FS_RemoveElement
    <3>4. Cardinality(Counted(i)) \in Int /\ active'[i] = active[i] - 1
      BY <1>t, <2>1, <2>3, <3>2, FS_CardinalityType
    <3> QED
      BY <1>t, <3>2, <3>3, <3>4
  <2> QED
    BY <1>0, <2>2, <2>3
<1>5. ASSUME NEW i \in Instances, Exit(i) \/ Crash(i) PROVE CountInv'
  <2>1. /\ active' = [active EXCEPT ![i] = 0]
        /\ pc' = [t \in Tasks |-> IF Owner[t] = i THEN "idle" ELSE pc[t]]
    BY <1>5 DEF Exit, Crash, Die, Idle
  <2>2. ASSUME NEW j \in Instances, j # i PROVE Holds(j)
    BY <1>t, <2>1, <2>2, CountShrinks DEF CountedSteps
  <2>3. Holds(i)
    <3>1. Counted(i)' = {} /\ active'[i] = 0
      BY <1>t, <2>1 DEF Counted, CountedSteps
    <3> QED
      BY <3>1, FS_EmptySet
  <2> QED
    BY <1>0, <2>2, <2>3
<1>6. ASSUME NEW t \in Tasks, NEW e \in Ids,
             Apply(t, e) \/ UniqueViolation(t, e) \/ BreakOnEntry(t, e)
               \/ QueryFails(t, e) \/ ConnectionPanics(t, e)
      PROVE  CountInv'
  <2>1. CASE Apply(t, e) \/ UniqueViolation(t, e)
    BY <1>1, <2>1 DEF Apply, UniqueViolation, Processed, OnlyData, process
  <2>2. CASE BreakOnEntry(t, e) \/ QueryFails(t, e)
    <3>1. /\ pc[t] = "exec" /\ UNCHANGED active
          /\ pc' = [pc EXCEPT ![t] = AfterLoop(last[t])]
      BY <2>2 DEF BreakOnEntry, QueryFails, Executing, Break, process
    <3> QED
      BY <1>2, <3>1 DEF CountedSteps
  <2>3. CASE ConnectionPanics(t, e)
    <3>1. UNCHANGED active /\ pc' = [pc EXCEPT ![t] = "idle"]
      BY <1>t, <2>3 DEF ConnectionPanics, Idle, process
    <3> QED
      BY <1>2, <3>1 DEF CountedSteps
  <2> QED
    BY <1>6, <2>1, <2>2, <2>3
<1>7. ASSUME NEW t \in Tasks,
             \/ Read(t) \/ EndOfBatch(t) \/ Trim(t) \/ Delete(t) \/ Unlock(t)
             \/ ReadFails(t) \/ TrimFails(t) \/ DeleteFails(t) \/ UnlockFails(t)
      PROVE  CountInv'
  <2>1. UNCHANGED active /\ pc[t] \in CountedSteps /\ \E p : pc' = [pc EXCEPT ![t] = p]
    BY <1>7
    DEF Read, EndOfBatch, Break, Trim, Delete, Unlock, ReadFails, TrimFails,
        DeleteFails, UnlockFails, SessionFails, OnlyData, process, CountedSteps
  <2> QED
    BY <1>2, <2>1
<1>8. ASSUME NEW i \in Instances, NEW t \in Tasks, TakeStream(i, t) PROVE CountInv'
  <2>1. UNCHANGED active /\ pc' = [pc EXCEPT ![t] = "spawned"]
    BY <1>8 DEF TakeStream, NextPartition
  <2> QED
    BY <1>2, <2>1 DEF CountedSteps
<1>9. ASSUME UNCHANGED <<active, pc>> PROVE CountInv'
  BY <1>1, <1>9
<1>10. ASSUME NEW k \in Keys, NEW kind \in Kinds, Push(k, kind) PROVE CountInv'
  BY <1>9, <1>10 DEF Push, process, handler
<1>11. ASSUME NEW s \in Streams, Expire(s) PROVE CountInv'
  BY <1>9, <1>11 DEF Expire, process, handler
<1>12. ASSUME NEW i \in Instances,
              \/ LoopCheck(i) \/ StreamTaken(i) \/ LockFails(i)
              \/ ShutdownRequest(i) \/ ListenerStep(i) \/ Restart(i)
       PROVE  CountInv'
  BY <1>9, <1>12
  DEF LoopCheck, StreamTaken, LockFails, NextPartition, ShutdownRequest,
      ListenerStep, ListenerSeesIdle, Close, Restart, handler
<1>13. CASE UNCHANGED vars
  BY <1>9, <1>13 DEF vars, process, handler
<1>14. ASSUME NEW t \in Tasks, HandlerStep(t) \/ HandlerFault(t) PROVE CountInv'
  BY <1>3, <1>4, <1>6, <1>7, <1>14
  DEF HandlerStep, HandlerFault, ExecuteEntry, ExecutionFault
<1> QED
  BY <1>5, <1>8, <1>10, <1>11, <1>12, <1>13, <1>14
  DEF Next, LoopStep, IsStreamAvailable

\* active_tasks is never below the number of handlers that have started and not
\* left: the shutdown listener that reads zero interrupts no session, and the
\* u64 is never decremented below zero.
THEOREM TasksCounted == Spec => []ActiveTasksCounted
<1>1. Init => CountInv
  <2>1. Init => TypeOK
    BY PartitionsAssumption
    DEF Init, TypeOK, Streams, Ids, HoldingSteps, Entry
  <2>2. ASSUME Init, NEW i \in Instances PROVE Counted(i) = {} /\ active[i] = 0
    BY <2>2 DEF Init, Counted, CountedSteps
  <2>3. IsFiniteSet({}) /\ Cardinality({}) = 0
    BY FS_EmptySet
  <2>4. Init => ActiveTasksCounted
    BY <2>2, <2>3 DEF ActiveTasksCounted, Counted
  <2>5. ASSUME Init, NEW i \in Instances PROVE IsFiniteSet(Counted(i))
    BY <2>2, <2>3, <2>5
  <2> QED
    BY <2>1, <2>4, <2>5 DEF CountInv
<1>2. CountInv /\ TypeOK' /\ [Next]_vars => CountInv'
  BY CountInvStep
<1>3. CountInv => ActiveTasksCounted
  BY DEF CountInv
<1> QED
  BY <1>1, <1>2, <1>3, Typing, PTL DEF Spec
-----------------------------------------------------------------------------
(* A drained row holds its latest value                                    *)
(*                                                                         *)
(* A batch that was executed and not trimmed is executed again, by another *)
(* handler, from its first entry: rows go back to older values on the way. *)
(* They are right again when it matters because nothing is trimmed above   *)
(* the handler's cursor, and up to the cursor every update was written in  *)
(* this session (PassedAreWritten) or trimmed by an earlier one            *)
(* (RemovedAreWritten), with nobody else at work on the partition.         *)

\* A stream holds the newer part of its partition: XTRIM removes what is below
\* the last processed entry, and the XDEL of that one comes after the trim.
StreamIsSuffix ==
  \A s \in Streams : \A i \in stream[s] : \A j \in Ids :
    i < j /\ StreamOf(j) = s => j \in stream[s]

TrimmedBelow ==
  \A t \in Tasks : pc[t] = "del" => \A i \in stream[on[t]] : last[t] <= i

\* What a handler executes is the oldest part of what its stream holds: no
\* other handler trims that stream under it.
BatchIsOldest ==
  \A t \in Tasks : pc[t] = "exec" =>
    /\ batch[t] \subseteq stream[on[t]]
    /\ \A i \in batch[t] : \A j \in stream[on[t]] : j < i => j \in batch[t]

\* A row stays once it was written, and an insert does not overwrite it.
DoneIsWritten ==
  \A i \in done :
    /\ log[i].kind = "insert" => row[log[i].key] # 0
    /\ log[i].kind = "update" => row[log[i].key] \in UpdatesOf(log[i].key)

\* A row is as recent as the updates of it that left the stream ...
RemovedAreWritten ==
  \A i \in Ids :
    log[i].kind = "update" /\ i \notin stream[StreamOf(i)] => i <= row[log[i].key]

\* ... and as those that the handler of its partition has passed, although
\* these may be executed again from the start and write older values first.
PassedAreWritten ==
  \A t \in Tasks : pc[t] \in {"exec", "trim", "del"} =>
    \A i \in Ids :
      log[i].kind = "update" /\ StreamOf(i) = on[t] /\ i <= last[t]
        => i <= row[log[i].key]

RowInv ==
  /\ QueueInv
  /\ MutualExclusion
  /\ StreamIsSuffix
  /\ TrimmedBelow
  /\ BatchIsOldest
  /\ DoneIsWritten
  /\ RemovedAreWritten
  /\ PassedAreWritten

\* RowInv, of which the queue and the exclusion are shown above.
LEMMA RowInvParts ==
  ASSUME QueueInv', MutualExclusion', StreamIsSuffix', TrimmedBelow', BatchIsOldest',
         DoneIsWritten', RemovedAreWritten', PassedAreWritten'
  PROVE  RowInv'
  BY DEF RowInv

\* Handlers that go on or end, with nothing written and nothing removed.
LEMMA RowKept ==
  ASSUME RowInv, QueueInv', MutualExclusion', UNCHANGED <<log, stream, row, done>>,
         \A u \in Tasks :
           /\ pc'[u] = "exec" => pc[u] = "exec" /\ batch'[u] = batch[u]
           /\ pc'[u] = "del" => pc[u] = "del"
           /\ pc'[u] \in {"exec", "trim", "del"} =>
                /\ pc[u] \in {"exec", "trim", "del"}
                /\ on'[u] = on[u] /\ last'[u] = last[u]
  PROVE  RowInv'
<1>1. /\ Ids' = Ids /\ \A i : StreamOf(i)' = StreamOf(i)
      /\ \A k : UpdatesOf(k)' = UpdatesOf(k)
  BY DEF Ids, StreamOf, UpdatesOf
<1>2. StreamIsSuffix' /\ DoneIsWritten' /\ RemovedAreWritten'
  BY <1>1 DEF RowInv, StreamIsSuffix, DoneIsWritten, RemovedAreWritten
<1>3. TrimmedBelow'
  BY DEF RowInv, TrimmedBelow
<1>4. BatchIsOldest'
  BY DEF RowInv, BatchIsOldest
<1>5. PassedAreWritten'
  BY <1>1 DEF RowInv, PassedAreWritten
<1> QED
  BY <1>2, <1>3, <1>4, <1>5, RowInvParts

\* A push adds the newest entry.
LEMMA RowPush ==
  ASSUME RowInv, QueueInv', MutualExclusion',
         NEW k \in Keys, NEW kind \in Kinds, Push(k, kind)
  PROVE  RowInv'
<1>0. PICK n \in Nat : n = Len(log) + 1
  BY PushLog DEF RowInv, QueueInv
<1>1. /\ Ids' = Ids \cup {n} /\ n \notin Ids
      /\ \A i \in Ids : i \in Nat /\ i < n /\ log'[i] = log[i]
  <2>1. /\ Len(log) \in Nat /\ Ids' = Ids \cup {n}
        /\ \A i \in Ids : log'[i] = log[i]
    BY <1>0, PushLog DEF RowInv, QueueInv
  <2> QED
    BY <1>0, <2>1 DEF Ids
<1>2. \A i \in Ids : StreamOf(i)' = StreamOf(i) /\ StreamOf(i) \in Streams
  BY <1>1, EntryType DEF StreamOf, RowInv, QueueInv
<1>3. StreamOf(n)' = Shard[k] /\ Shard[k] \in Streams
  <2>1. log'[n].key = k
    BY <1>0, PushLog DEF RowInv, QueueInv
  <2> QED
    BY <2>1 DEF StreamOf
<1>4. \A x : \A i \in Ids : i \in UpdatesOf(x) => i \in UpdatesOf(x)'
  BY <1>1 DEF UpdatesOf
<1>5. /\ UNCHANGED <<row, done, pc, on, batch, last>>
      /\ stream' = [stream EXCEPT ![Shard[k]] = @ \cup {n}]
  BY <1>0 DEF Push, database, handler
<1>6. /\ stream \in [Streams -> SUBSET Ids] /\ on \in [Tasks -> Streams]
      /\ done \subseteq Ids /\ batch \in [Tasks -> SUBSET Ids]
      /\ last \in [Tasks -> Ids \cup {0}]
  BY DEF RowInv, QueueInv, TypeOK
<1>7. \A s \in Streams :
        /\ stream[s] \subseteq stream'[s]
        /\ stream'[s] \subseteq stream[s] \cup {n}
        /\ s = Shard[k] => n \in stream'[s]
  BY <1>3, <1>5, <1>6
<1>8. StreamIsSuffix'
  BY <1>1, <1>2, <1>3, <1>6, <1>7 DEF RowInv, StreamIsSuffix
<1>9. TrimmedBelow'
  <2> SUFFICES ASSUME NEW t \in Tasks, pc[t] = "del", NEW i \in stream'[on[t]]
               PROVE  last[t] <= i
    BY <1>5 DEF TrimmedBelow
  <2>1. CASE i \in stream[on[t]]
    BY <2>1 DEF RowInv, TrimmedBelow
  <2>2. CASE i = n
    BY <1>1, <1>6, <2>2
  <2> QED
    BY <1>6, <1>7, <2>1, <2>2
<1>10. BatchIsOldest'
  <2> SUFFICES ASSUME NEW t \in Tasks, pc[t] = "exec"
               PROVE  /\ batch[t] \subseteq stream'[on[t]]
                      /\ \A i \in batch[t] : \A j \in stream'[on[t]] :
                           j < i => j \in batch[t]
    BY <1>5 DEF BatchIsOldest
  <2>1. \A i \in batch[t] : i \in Nat /\ i < n
    BY <1>1, <1>6
  <2> QED
    BY <1>0, <1>6, <1>7, <2>1 DEF RowInv, BatchIsOldest
<1>11. DoneIsWritten'
  BY <1>1, <1>4, <1>5, <1>6 DEF RowInv, DoneIsWritten, UpdatesOf
<1>12. RemovedAreWritten'
  BY <1>1, <1>2, <1>3, <1>5, <1>7 DEF RowInv, RemovedAreWritten
<1>13. PassedAreWritten'
  BY <1>0, <1>1, <1>2, <1>5, <1>6 DEF RowInv, PassedAreWritten
<1> QED
  BY <1>8, <1>9, <1>10, <1>11, <1>12, <1>13, RowInvParts

\* A batch is read, and the cursor stands before it.
LEMMA RowRead ==
  ASSUME RowInv, QueueInv', MutualExclusion', NEW t \in Tasks, Read(t)
  PROVE  RowInv'
<1> DEFINE S == stream[on[t]]
           B == StreamReadEntries(S, MaxReadCount)
<1>1. /\ UNCHANGED <<log, stream, row, done, on, last>> /\ last[t] = 0
      /\ batch' = [batch EXCEPT ![t] = B]
      /\ pc' = [pc EXCEPT ![t] = IF B = {} THEN "unlock" ELSE "exec"]
  BY DEF Read, OnlyData, database, RowInv, QueueInv, CursorIsDone
<1>2. S \subseteq Ids /\ B \subseteq S
  BY DEF RowInv, QueueInv, TypeOK, StreamReadEntries
<1>3. \A i \in B, j \in S : j < i => j \in B
  <2>1. IsFiniteSet(S) /\ S \subseteq Nat
    BY <1>2, IdsFinite, FS_Subset DEF RowInv, QueueInv
  <2> QED
    BY <2>1, ReadIsPrefix, ReadCountAssumption
<1> HIDE DEF B
<1>4. /\ Ids' = Ids /\ \A i : StreamOf(i)' = StreamOf(i)
      /\ \A k : UpdatesOf(k)' = UpdatesOf(k) 
  BY <1>1 DEF Ids, StreamOf, UpdatesOf
<1>5. \A u \in Tasks \ {t} : pc'[u] = pc[u] /\ batch'[u] = batch[u]
  BY <1>1 DEF RowInv, QueueInv, TypeOK
<1>6. pc'[t] \in {"unlock", "exec"} /\ batch'[t] = B
  BY <1>1 DEF RowInv, QueueInv, TypeOK
<1>7. StreamIsSuffix' /\ DoneIsWritten' /\ RemovedAreWritten'
  BY <1>1, <1>4 DEF RowInv, StreamIsSuffix, DoneIsWritten, RemovedAreWritten
<1>8. TrimmedBelow'
  BY <1>1, <1>5, <1>6 DEF RowInv, TrimmedBelow
<1>9. BatchIsOldest'
  <2> SUFFICES ASSUME NEW u \in Tasks, pc'[u] = "exec"
               PROVE  /\ batch'[u] \subseteq stream[on[u]]
                      /\ \A i \in batch'[u] : \A j \in stream[on[u]] :
                           j < i => j \in batch'[u]
    BY <1>1 DEF BatchIsOldest
  <2>1. CASE u = t
    BY <1>2, <1>3, <1>6, <2>1
  <2>2. CASE u # t
    BY <1>5, <2>2 DEF RowInv, BatchIsOldest
  <2> QED
    BY <2>1, <2>2
<1>10. PassedAreWritten'
  <2> SUFFICES ASSUME NEW u \in Tasks, pc'[u] \in {"exec", "trim", "del"},
                      NEW i \in Ids, log[i].kind = "update", StreamOf(i) = on[u],
                      i <= last[u]
               PROVE  i <= row[log[i].key]
    BY <1>1, <1>4 DEF PassedAreWritten
  <2>1. u # t
    BY <1>1 DEF Ids
  <2> QED
    BY <1>5, <2>1 DEF RowInv, PassedAreWritten
<1> QED
  BY <1>7, <1>8, <1>9, <1>10, RowInvParts

\* What an executing handler knows: whatever left its stream is older than the
\* entry it stands at, and every older update of the partition is in its row.
LEMMA ExecutingFacts ==
  ASSUME RowInv, NEW t \in Tasks, NEW e \in Ids, Executing(t, e)
  PROVE  /\ StreamOf(e) = on[t] /\ last[t] < e /\ pc[t] = "exec"
         /\ \A i \in Ids : StreamOf(i) = on[t] /\ i \notin stream[on[t]] => i < e
         /\ \A i \in Ids :
              log[i].kind = "update" /\ StreamOf(i) = on[t] /\ i < e
                => i <= row[log[i].key]
<1>1. /\ e \in batch[t] /\ StreamOf(e) = on[t] /\ pc[t] = "exec" /\ last[t] < e
      /\ \A j \in batch[t] : last[t] < j => e <= j
  BY EarlierAreDone DEF Executing, Todo, RowInv
<1>2. /\ e \in stream[on[t]] /\ on[t] \in Streams
      /\ \A j \in stream[on[t]] : j < e => j \in batch[t]
  BY <1>1 DEF RowInv, BatchIsOldest, QueueInv, TypeOK
<1>3. ASSUME NEW i \in Ids, StreamOf(i) = on[t], i \notin stream[on[t]] PROVE i < e
  <2>1. ~(e < i)
    BY <1>2, <1>3 DEF RowInv, StreamIsSuffix
  <2> QED
    BY <1>2, <1>3, <2>1 DEF Ids
<1>4. ASSUME NEW i \in Ids, log[i].kind = "update", StreamOf(i) = on[t], i < e
      PROVE  i <= row[log[i].key]
  <2>1. CASE i <= last[t]
    BY <1>1, <1>4, <2>1 DEF RowInv, PassedAreWritten
  <2>2. CASE last[t] < i
    <3>1. i \notin batch[t]
      BY <1>1, <1>4, <2>2 DEF Ids
    <3>2. i \notin stream[on[t]]
      BY <1>2, <1>4, <3>1
    <3> QED
      BY <1>4, <3>2 DEF RowInv, RemovedAreWritten
  <2>3. i \in Nat /\ last[t] \in Nat
    BY IdsFinite DEF RowInv, QueueInv, TypeOK
  <2> QED
    BY <2>1, <2>2, <2>3
<1> QED
  BY <1>1, <1>3, <1>4

\* Nobody else is at work on the partition of a handler.
LEMMA OthersElsewhere ==
  ASSUME RowInv, NEW t \in Tasks, NEW u \in Tasks, u # t,
         pc[t] \in {"exec", "trim", "del"}, pc[u] \in {"exec", "trim", "del"}
  PROVE  on[u] # on[t]
  BY DEF RowInv, MutualExclusion, Holding, HoldingSteps

\* The handler executes an entry, which may or may not write its row, and may or
\* may not be counted as processed; what is counted was written, or is an insert
\* whose row is there.
LEMMA RowExecute ==
  ASSUME RowInv, QueueInv', MutualExclusion', NEW t \in Tasks, NEW e \in Ids,
         Executing(t, e), UNCHANGED <<log, stream, on, batch>>,
         \/ Applies(e) /\ row' = [row EXCEPT ![log[e].key] = e]
         \/ row' = row,
         \/ done' = done /\ last' = last
         \/ /\ done' = done \cup {e} /\ last' = [last EXCEPT ![t] = e]
            /\ \/ row' = [row EXCEPT ![log[e].key] = e]
               \/ log[e].kind = "insert" /\ row[log[e].key] # 0,
         NEW p \in {"exec", "trim", "unlock"}, pc' = [pc EXCEPT ![t] = p]
  PROVE  RowInv'
<1> DEFINE k == log[e].key
<1>1. /\ Ids' = Ids /\ \A i : StreamOf(i)' = StreamOf(i)
      /\ \A x : UpdatesOf(x)' = UpdatesOf(x)
  BY DEF Ids, StreamOf, UpdatesOf
<1>2. /\ row \in [Keys -> Ids \cup {0}] /\ last \in [Tasks -> Ids \cup {0}]
      /\ pc \in [Tasks -> HoldingSteps \cup {"idle", "leave"}]
      /\ done \subseteq Ids /\ e \in Nat /\ e # 0 /\ last[t] \in Nat
      /\ \A i \in Ids : log[i].key \in Keys /\ i \in Nat /\ i # 0
  <2>1. \A i \in Ids : log[i].key \in Keys
    BY EntryType DEF RowInv, QueueInv
  <2>2. TypeOK
    BY DEF RowInv, QueueInv
  <2>3. /\ row \in [Keys -> Ids \cup {0}] /\ last \in [Tasks -> Ids \cup {0}]
        /\ pc \in [Tasks -> HoldingSteps \cup {"idle", "leave"}]
        /\ done \subseteq Ids
    BY <2>2 DEF TypeOK
  <2>4. \A i \in Ids : i \in Nat /\ i # 0
    BY <2>2, IdsFinite DEF Ids
  <2> QED
    BY <2>1, <2>3, <2>4
<1>3. \A i \in Ids : log[i].key = k => StreamOf(i) = on[t]
  BY ExecutingFacts DEF StreamOf
<1>4. \A u \in Tasks \ {t} : pc'[u] = pc[u] /\ last'[u] = last[u]
  BY <1>2
<1>5. pc[t] = "exec" /\ (pc'[t] = "exec" \/ pc'[t] = "trim" \/ pc'[t] = "unlock")
  BY <1>2, ExecutingFacts
<1>6. \A x \in Keys : x # k => row'[x] = row[x]
  BY <1>2
<1>7. row'[k] = row[k] \/ (Applies(e) /\ row'[k] = e)
  BY <1>2
<1>8. last'[t] = last[t] \/ last'[t] = e
  BY <1>2
<1>9. StreamIsSuffix'
  BY <1>1 DEF RowInv, StreamIsSuffix
<1>10. TrimmedBelow'
  BY <1>4, <1>5 DEF RowInv, TrimmedBelow
<1>11. BatchIsOldest'
  BY <1>4, <1>5 DEF RowInv, BatchIsOldest
<1>12. RemovedAreWritten'
  <2> SUFFICES ASSUME NEW i \in Ids, log[i].kind = "update", i \notin stream[StreamOf(i)]
               PROVE  i <= row'[log[i].key]
    BY <1>1 DEF RemovedAreWritten
  <2>1. i <= row[log[i].key]
    BY DEF RowInv, RemovedAreWritten
  <2>2. CASE log[i].key = k /\ row'[k] = e
    BY <1>2, <1>3, <2>2, ExecutingFacts
  <2> QED
    BY <1>2, <1>6, <1>7, <2>1, <2>2
<1>13. PassedAreWritten'
  <2> SUFFICES ASSUME NEW u \in Tasks, pc'[u] \in {"exec", "trim", "del"},
                      NEW i \in Ids, log[i].kind = "update", StreamOf(i) = on[u],
                      i <= last'[u]
               PROVE  i <= row'[log[i].key]
    BY <1>1 DEF PassedAreWritten
  <2>1. CASE u # t
    <3>1. on[u] # on[t]
      BY <1>4, <1>5, <2>1, OthersElsewhere
    <3>2. log[i].key # k /\ i <= row[log[i].key]
      BY <1>3, <1>4, <2>1, <3>1 DEF RowInv, PassedAreWritten
    <3> QED
      BY <1>2, <1>6, <3>2
  <2>2. CASE u = t
    <3>0. last[t] < e /\ last[t] \in Nat /\ e \in Nat /\ i \in Nat
      BY <1>2, ExecutingFacts
    <3>1. i <= e /\ (last'[t] = last[t] => i < e)
      BY <1>8, <2>2, <3>0
    <3>2. CASE log[i].key = k /\ row'[k] = e
      BY <3>1, <3>2
    <3>3. CASE i < e /\ row'[log[i].key] = row[log[i].key]
      BY <2>2, <3>3, ExecutingFacts
    <3>4. CASE i = e /\ row'[k] = row[k]
      <4>1. last'[t] = e
        BY <1>8, <3>0, <3>1, <3>4
      <4>2. last[t] # e
        BY <3>0
      <4>3. row' = [row EXCEPT ![log[e].key] = e]
        BY <3>4, <4>1, <4>2
      <4> QED
        BY <1>2, <3>4, <4>3
    <3>5. i = e \/ i < e
      BY <3>0, <3>1
    <3>6. i = e => log[i].key = k
      OBVIOUS
    <3>7. row'[log[i].key] = row[log[i].key] \/ (log[i].key = k /\ row'[k] = e)
      BY <1>2, <1>6, <1>7
    <3> QED
      BY <3>2, <3>3, <3>4, <3>5, <3>6, <3>7
  <2> QED
    BY <2>1, <2>2
<1>14. DoneIsWritten'
  <2> SUFFICES ASSUME NEW i \in done'
               PROVE  /\ log[i].kind = "insert" => row'[log[i].key] # 0
                      /\ log[i].kind = "update" =>
                           row'[log[i].key] \in UpdatesOf(log[i].key)
    BY <1>1 DEF DoneIsWritten
  <2>1. CASE i \in done
    <3>1. /\ log[i].kind = "insert" => row[log[i].key] # 0
          /\ log[i].kind = "update" => row[log[i].key] \in UpdatesOf(log[i].key)
      BY <2>1 DEF RowInv, DoneIsWritten
    <3>2. CASE log[i].key = k /\ row'[k] = e /\ Applies(e)
      <4>1. log[e].kind = "update" => e \in UpdatesOf(k)
        BY DEF UpdatesOf
      <4>2. log[i].kind = "update" => row[k] # 0
        BY <3>1, <3>2 DEF UpdatesOf, Ids
      <4> QED
        BY <1>2, <3>2, <4>1, <4>2 DEF Applies
    <3>3. CASE row'[log[i].key] = row[log[i].key]
      BY <3>1, <3>3
    <3> QED
      BY <1>2, <1>6, <1>7, <2>1, <3>2, <3>3
  <2>2. CASE i = e /\ i \notin done
    <3>1. CASE row' = [row EXCEPT ![log[e].key] = e]
      BY <1>2, <2>2, <3>1 DEF UpdatesOf
    <3>2. CASE row' = row /\ log[e].kind = "insert" /\ row[log[e].key] # 0
      BY <2>2, <3>2
    <3> QED
      BY <2>2, <3>1, <3>2
  <2> QED
    BY <2>1, <2>2
<1> QED
  BY <1>9, <1>10, <1>11, <1>12, <1>13, <1>14, RowInvParts

\* Entries leave the stream of a handler: the oldest, up to its cursor.
LEMMA RowRemoval ==
  ASSUME RowInv, QueueInv', MutualExclusion', NEW t \in Tasks,
         pc[t] \in {"trim", "del"}, UNCHANGED <<log, row, done, on, batch, last>>,
         NEW p \in {"del", "unlock"}, pc' = [pc EXCEPT ![t] = p],
         NEW S \in SUBSET stream[on[t]], stream' = [stream EXCEPT ![on[t]] = S],
         \A i \in stream[on[t]] \ S : i <= last[t] /\ \A j \in S : i < j,
         p = "del" => \A i \in S : last[t] <= i
  PROVE  RowInv'
<1>1. Ids' = Ids /\ \A i : StreamOf(i)' = StreamOf(i)
  BY DEF Ids, StreamOf
<1>2. /\ stream \in [Streams -> SUBSET Ids] /\ on \in [Tasks -> Streams]
      /\ pc \in [Tasks -> HoldingSteps \cup {"idle", "leave"}]
  BY DEF RowInv, QueueInv, TypeOK
<1>3. \A u \in Tasks \ {t} : pc'[u] = pc[u]
  BY <1>2
<1>4. pc'[t] = p
  BY <1>2
<1>5. ASSUME NEW u \in Tasks \ {t}, pc[u] \in {"exec", "trim", "del"}
      PROVE  stream'[on[u]] = stream[on[u]]
  BY <1>2, <1>5, OthersElsewhere
<1>6. StreamIsSuffix'
  <2> SUFFICES ASSUME NEW s \in Streams, NEW i \in stream'[s], NEW j \in Ids,
                      i < j, StreamOf(j) = s
               PROVE  j \in stream'[s]
    BY <1>1 DEF StreamIsSuffix
  <2>1. i \in stream[s]
    BY <1>2
  <2>2. j \in stream[s] /\ i \in Nat /\ j \in Nat
    BY <1>2, <2>1 DEF RowInv, StreamIsSuffix, Ids
  <2>3. CASE s = on[t] /\ j \notin S
    BY <1>2, <2>2, <2>3
  <2> QED
    BY <1>2, <2>2, <2>3
<1>7. TrimmedBelow'
  <2> SUFFICES ASSUME NEW u \in Tasks, pc'[u] = "del", NEW i \in stream'[on[u]]
               PROVE  last[u] <= i
    BY DEF TrimmedBelow
  <2>1. CASE u = t
    BY <1>2, <1>4, <2>1
  <2>2. CASE u # t
    BY <1>3, <1>5, <2>2 DEF RowInv, TrimmedBelow
  <2> QED
    BY <2>1, <2>2
<1>8. BatchIsOldest'
  <2> SUFFICES ASSUME NEW u \in Tasks, pc'[u] = "exec"
               PROVE  /\ batch[u] \subseteq stream'[on[u]]
                      /\ \A i \in batch[u] : \A j \in stream'[on[u]] :
                           j < i => j \in batch[u]
    BY DEF BatchIsOldest
  <2>1. u # t
    BY <1>4
  <2> QED
    BY <1>3, <1>5, <2>1 DEF RowInv, BatchIsOldest
<1>9. DoneIsWritten'
  BY DEF RowInv, DoneIsWritten, UpdatesOf, Ids
<1>10. PassedAreWritten'
  BY <1>1, <1>3 DEF RowInv, PassedAreWritten
<1>11. RemovedAreWritten'
  <2> SUFFICES ASSUME NEW i \in Ids, log[i].kind = "update",
                      i \notin stream'[StreamOf(i)]
               PROVE  i <= row[log[i].key]
    BY <1>1 DEF RemovedAreWritten
  <2>1. CASE i \notin stream[StreamOf(i)]
    BY <2>1 DEF RowInv, RemovedAreWritten
  <2>2. CASE i \in stream[StreamOf(i)]
    <3>1. StreamOf(i) \in Streams
      BY EntryType DEF RowInv, QueueInv
    <3>2. StreamOf(i) = on[t] /\ i <= last[t]
      BY <1>2, <2>2, <3>1
    <3> QED
      BY <3>2 DEF RowInv, PassedAreWritten
  <2> QED
    BY <2>1, <2>2
<1> QED
  BY <1>6, <1>7, <1>8, <1>9, <1>10, <1>11, RowInvParts

LEMMA RowInvStep ==
  ASSUME RowInv, QueueInv', MutualExclusion', [Next]_vars
  PROVE  RowInv'
<1>t. pc \in [Tasks -> HoldingSteps \cup {"idle", "leave"}]
  BY DEF RowInv, QueueInv, TypeOK
<1>1. ASSUME NEW k \in Keys, NEW kind \in Kinds, Push(k, kind) PROVE RowInv'
  BY <1>1, RowPush
<1>2. ASSUME UNCHANGED <<log, stream, row, done, pc, on, batch, last>> PROVE RowInv'
  BY <1>2, RowKept
<1>3. ASSUME NEW s \in Streams, Expire(s) PROVE RowInv'
  BY <1>2, <1>3 DEF Expire, database, handler
<1>4. ASSUME NEW i \in Instances,
             \/ LoopCheck(i) \/ StreamTaken(i) \/ LockFails(i)
             \/ ShutdownRequest(i) \/ ListenerStep(i) \/ Restart(i)
      PROVE  RowInv'
  BY <1>2, <1>4
  DEF LoopCheck, StreamTaken, LockFails, NextPartition, ShutdownRequest,
      ListenerStep, ListenerSeesIdle, Close, Restart, redis, database, handler
<1>5. CASE UNCHANGED vars
  BY <1>2, <1>5 DEF vars, redis, database, handler
<1>6. ASSUME NEW t \in Tasks, NEW p, UNCHANGED <<log, stream, row, done, batch, last>>,
             pc' = [pc EXCEPT ![t] = p],
             p \notin {"exec", "del", "trim"} \/ (p = "trim" /\ pc[t] = "exec"),
             p = "trim" => on' = on,
             \A u \in Tasks \ {t} : on'[u] = on[u]
      PROVE  RowInv'
  <2>1. \A u \in Tasks : u # t => pc'[u] = pc[u]
    BY <1>6, <1>t
  <2>2. pc'[t] = p
    BY <1>6, <1>t
  <2> QED
    BY <1>6, <2>1, <2>2, RowKept
<1>7. ASSUME NEW i \in Instances, NEW t \in Tasks, TakeStream(i, t) PROVE RowInv'
  <2>1. /\ UNCHANGED <<log, stream, row, done, batch, last>>
        /\ pc' = [pc EXCEPT ![t] = "spawned"]
        /\ \A u \in Tasks \ {t} : on'[u] = on[u]
    BY <1>7 DEF TakeStream, NextPartition, database, RowInv, QueueInv, TypeOK
  <2> QED
    BY <1>6, <2>1
<1>8. ASSUME NEW T \in SUBSET Tasks, Idle(T), UNCHANGED <<log, stream, row, done>>
      PROVE  RowInv'
  BY <1>8, RowKept DEF Idle
<1>9. ASSUME NEW i \in Instances, Exit(i) \/ Crash(i) PROVE RowInv'
  BY <1>8, <1>9 DEF Exit, Crash, Die, redis, database
<1>10. ASSUME NEW t \in Tasks, HandlerStep(t) \/ HandlerFault(t) PROVE RowInv'
  <2>1. CASE Start(t)
    BY <1>6, <2>1 DEF Start, redis, database
  <2>2. CASE Read(t)
    BY <2>2, RowRead
  <2>3. ASSUME NEW e \in Ids, Apply(t, e) \/ UniqueViolation(t, e) PROVE RowInv'
    <3>1. /\ Executing(t, e) /\ UNCHANGED <<log, stream, on, batch>>
          /\ done' = done \cup {e} /\ last' = [last EXCEPT ![t] = e]
          /\ \/ Applies(e) /\ row' = [row EXCEPT ![log[e].key] = e]
             \/ row' = row /\ log[e].kind = "insert" /\ row[log[e].key] # 0
      BY <2>3 DEF Apply, UniqueViolation, Processed, OnlyData
    <3>2. pc' = [pc EXCEPT ![t] = "exec"]
      BY <1>t, <2>3 DEF Apply, UniqueViolation, Processed, Executing
    <3> QED
      BY <3>1, <3>2, RowExecute
  <2>4. ASSUME NEW e \in Ids, BreakOnEntry(t, e) \/ QueryFails(t, e) PROVE RowInv'
    <3>1. /\ Executing(t, e) /\ UNCHANGED <<log, stream, on, batch, done, last>>
          /\ \/ Applies(e) /\ row' = [row EXCEPT ![log[e].key] = e]
             \/ row' = row
      BY <2>4 DEF BreakOnEntry, QueryFails, Break, redis, database
    <3>2. pc' = [pc EXCEPT ![t] = AfterLoop(last[t])]
          /\ AfterLoop(last[t]) \in {"exec", "trim", "unlock"}
      BY <2>4 DEF BreakOnEntry, QueryFails, Break, AfterLoop
    <3> QED
      BY <3>1, <3>2, RowExecute
  <2>5. CASE EndOfBatch(t)
    BY <1>6, <2>5 DEF EndOfBatch, Break, AfterLoop, redis, database
  <2>6. CASE Unlock(t) \/ UnlockFails(t) \/ ReadFails(t)
    BY <1>6, <2>6 DEF Unlock, UnlockFails, ReadFails, SessionFails, database
  <2>7. CASE Leave(t)
    BY <1>8, <2>7, {t} \in SUBSET Tasks DEF Leave, redis, database
  <2>8. ASSUME NEW e \in Ids, ConnectionPanics(t, e) PROVE RowInv'
    BY <1>8, <2>8, {t} \in SUBSET Tasks DEF ConnectionPanics, redis, database
  <2>9. CASE Trim(t) \/ Delete(t) \/ TrimFails(t) \/ DeleteFails(t)
    <3> DEFINE Q == stream[on[t]]
    <3>1. /\ pc[t] \in {"trim", "del"} /\ UNCHANGED <<log, row, done, on, batch, last>>
          /\ pc' = [pc EXCEPT ![t] = IF Trim(t) THEN "del" ELSE "unlock"]
      BY <2>9 DEF Trim, Delete, TrimFails, DeleteFails, SessionFails, OnlyData, database
    <3>2. /\ last[t] \in Nat /\ Q \subseteq Nat
          /\ stream = [stream EXCEPT ![on[t]] = Q]
      BY IdsFinite DEF RowInv, QueueInv, TypeOK
    <3>3. pc[t] = "del" => \A i \in Q : last[t] <= i
      BY DEF RowInv, TrimmedBelow
    <3>4. PICK S \in SUBSET Q :
            /\ stream' = [stream EXCEPT ![on[t]] = S]
            /\ \A i \in Q \ S : i <= last[t] /\ \A j \in S : i < j
            /\ Trim(t) => \A i \in S : last[t] <= i
      <4>1. CASE stream' = [stream EXCEPT ![on[t]] = StreamTrimEntries(Q, last[t])]
        <5>1. /\ StreamTrimEntries(Q, last[t]) \in SUBSET Q
              /\ \A i \in Q \ StreamTrimEntries(Q, last[t]) : i < last[t]
              /\ \A i \in StreamTrimEntries(Q, last[t]) : last[t] <= i
          BY <3>2 DEF StreamTrimEntries
        <5>2. PICK S \in SUBSET Q : S = StreamTrimEntries(Q, last[t])
          BY <5>1
        <5>3. /\ \A i \in Q \ S : i <= last[t] /\ \A j \in S : i < j
              /\ \A i \in S : last[t] <= i
          BY <3>2, <5>1, <5>2
        <5> QED
          BY <4>1, <5>2, <5>3
      <4>2. CASE /\ pc[t] = "del"
                 /\ stream' = [stream EXCEPT ![on[t]] = StreamDeleteEntries(Q, last[t])]
        <5>1. /\ StreamDeleteEntries(Q, last[t]) \in SUBSET Q
              /\ \A i \in Q \ StreamDeleteEntries(Q, last[t]) : i = last[t]
              /\ \A i \in StreamDeleteEntries(Q, last[t]) : i # last[t]
          BY DEF StreamDeleteEntries
        <5>2. ~Trim(t)
          BY <4>2 DEF Trim
        <5>3. PICK S \in SUBSET Q : S = StreamDeleteEntries(Q, last[t])
          BY <5>1
        <5>4. \A i \in Q \ S : i <= last[t] /\ \A j \in S : i < j
          BY <3>2, <3>3, <4>2, <5>1, <5>3
        <5> QED
          BY <4>2, <5>2, <5>3, <5>4
      <4>3. CASE ~Trim(t) /\ stream' = stream
        BY <3>2, <4>3
      <4> QED
        BY <2>9, <4>1, <4>2, <4>3 DEF Trim, Delete, TrimFails, DeleteFails
    <3> QED
      BY <3>1, <3>4, RowRemoval
  <2> QED
    BY <1>10, <2>1, <2>2, <2>3, <2>4, <2>5, <2>6, <2>7, <2>8, <2>9
    DEF HandlerStep, HandlerFault, ExecuteEntry, ExecutionFault
<1> QED
  BY <1>1, <1>3, <1>4, <1>5, <1>7, <1>9, <1>10
  DEF Next, LoopStep, IsStreamAvailable

\* Once a row's entries have left the stream it holds what the last update of it
\* wrote, however often a session failed and its batch was executed again, if
\* no flag expires under a handler at work.
THEOREM RowsAreLatest == ASSUME SafeTTL PROVE Spec => []DrainedRowIsLatest
<1>1. Init /\ QueueInv /\ MutualExclusion => RowInv
  BY DEF Init, RowInv, StreamIsSuffix, TrimmedBelow, BatchIsOldest, DoneIsWritten,
    RemovedAreWritten, PassedAreWritten, Ids
<1>2. RowInv /\ QueueInv' /\ MutualExclusion' /\ [Next]_vars => RowInv'
  BY RowInvStep
<1>3. RowInv => DrainedRowIsLatest
  <2> SUFFICES ASSUME RowInv, NEW k \in Keys,
                      \A i \in stream[Shard[k]] : log[i].key # k
               PROVE  /\ InsertsOf(k) # {} => row[k] # 0
                      /\ \A i \in UpdatesOf(k) : i <= row[k]
                      /\ row[k] # 0 => row[k] \in UpdatesOf(k) \/ UpdatesOf(k) = {}
    BY DEF DrainedRowIsLatest
  <2>1. \A i \in Ids : log[i].key = k => i \notin stream[StreamOf(i)] /\ i \in done
    BY DEF RowInv, QueueInv, NoLoss, StreamOf
  <2>2. \A i \in InsertsOf(k) : row[k] # 0
    BY <2>1 DEF InsertsOf, RowInv, DoneIsWritten
  <2>3. \A i \in UpdatesOf(k) : i <= row[k] /\ row[k] \in UpdatesOf(k)
    BY <2>1 DEF UpdatesOf, RowInv, DoneIsWritten, RemovedAreWritten
  <2> QED
    BY <2>2, <2>3
<1> QED
  BY <1>1, <1>2, <1>3, QueueInvariant, Exclusion, PTL DEF Spec

=============================================================================
