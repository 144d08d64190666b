---------------------------- MODULE CacheProofs ----------------------------
(***************************************************************************)
(* What Cache promises, for any number of processes, readers and writers:  *)
(* its typing, and that an old value is in Redis or in the memory of a     *)
(* process only while an invalidation of it is still to come, unless a     *)
(* reader overtook the invalidation or a call failed.                      *)
(***************************************************************************)
EXTENDS Cache, TLAPS

\* A reader that is about to fill a memory knows which one.
PushKnowsCache == \A r \in Readers : rpc[r] = "push" => via[r] \in Caches

\* A writer invalidates what its mode is about.
TargetKnown ==
  \A w \in Writers :
    /\ wpc[w] = "memory" => target[w] \in Caches \cup {"none"}
    /\ wpc[w] = "publish" => target[w] \in Kinds

Typed == TypeOK /\ PushKnowsCache /\ TargetKnown

\* Only a failure ends a listener.
ListenersLive == faults = 0 => \A i \in Instances : listener[i] # "ended"

-----------------------------------------------------------------------------
(* Typing *)

\* The initial state.
LEMMA InitTyped == Init => Typed
<1> SUFFICES ASSUME Init PROVE Typed
  OBVIOUS
<1> USE CachesAssumption, LimitsAssumption DEF Init
<1>1. db \in 1..MaxVersion /\ redis \in 0..db /\ faults \in 0..MaxFaults
  OBVIOUS
<1>2. memory \in [Instances -> [AllCaches -> 0..db]]
  OBVIOUS
<1>3. inbox \in [Instances -> Seq(Kinds)]
  OBVIOUS
<1>4. held \in [Readers -> 0..db]
  OBVIOUS
<1> QED BY <1>1, <1>2, <1>3, <1>4 DEF Typed, TypeOK, PushKnowsCache, TargetKnown

\* A cache of a process is cleared, or filled with a value there has been.
LEMMA MemoryType ==
  ASSUME TypeOK, NEW i \in Instances, NEW c \in AllCaches, NEW v \in 0..db
  PROVE  [memory EXCEPT ![i][c] = v] \in [Instances -> [AllCaches -> 0..db]]
<1>1. memory \in [Instances -> [AllCaches -> 0..db]]
  BY DEF TypeOK
<1>2. [memory[i] EXCEPT ![c] = v] \in [AllCaches -> 0..db]
  BY <1>1
<1> QED BY <1>1, <1>2

\* Clearing a cache keeps the types.
LEMMA ClearType ==
  ASSUME TypeOK, NEW i \in Instances, NEW c \in AllCaches, ClearMemory(i, c)
  PROVE  /\ memory' \in [Instances -> [AllCaches -> 0..db]]
         /\ late' \subseteq Places
<1>1. 0 \in 0..db
  BY LimitsAssumption DEF TypeOK
<1> QED BY <1>1, MemoryType DEF ClearMemory, TypeOK

\* A reader that has found a value holds one of its type.
LEMMA FoundType ==
  ASSUME Typed, NEW r \in Readers, NEW v \in 0..db, Found(r, v)
  PROVE  /\ rpc' \in [Readers -> {"idle", "get", "fun", "set", "push"}]
         /\ held' \in [Readers -> 0..db]
         /\ \A q \in Readers : rpc'[q] = "push" => via[q] \in Caches
<1>1. 0 \in 0..db
  BY LimitsAssumption DEF Typed, TypeOK
<1>2. CASE via[r] = "none"
  BY <1>1, <1>2 DEF Typed, TypeOK, PushKnowsCache, Found
<1>3. CASE via[r] # "none"
  BY <1>3 DEF Typed, TypeOK, PushKnowsCache, Found
<1> QED BY <1>2, <1>3

\* Every step of a reader keeps the types.
LEMMA ReaderTyped ==
  ASSUME Typed, NEW r \in Readers,
         \/ \E c \in Caches \cup {"none"} : Lookup(r, c)
         \/ ReaderStep(r) \/ GetGarbage(r) \/ Abandon(r)
  PROVE  Typed'
<1> USE HomeAssumption, CachesAssumption, LimitsAssumption
    DEF Typed, TypeOK, PushKnowsCache, TargetKnown, stores, pubsub, reader, writer
<1>1. CASE \E c \in Caches \cup {"none"} : Lookup(r, c)
  BY <1>1 DEF Lookup
<1>2. CASE GetKey(r)
  <2>1. CASE redis # 0
    <3>1. redis \in 0..db /\ Found(r, redis)
      BY <1>2, <2>1 DEF GetKey
    <3> HIDE DEF Typed
    <3>2. /\ rpc' \in [Readers -> {"idle", "get", "fun", "set", "push"}]
          /\ held' \in [Readers -> 0..db]
          /\ \A q \in Readers : rpc'[q] = "push" => via[q] \in Caches
      BY <3>1, FoundType
    <3> QED BY <1>2, <3>2 DEF GetKey, Typed
  <2>2. CASE redis = 0
    BY <1>2, <2>2 DEF GetKey
  <2> QED BY <2>1, <2>2
<1>3. CASE CallFun(r)
  BY <1>3 DEF CallFun
<1>4. CASE SetKey(r)
  <2>1. late' \subseteq Places
    BY <1>4 DEF SetKey, FillRedis, LateWith, Places
  <2>2. held[r] \in 0..db /\ Found(r, held[r])
    BY <1>4 DEF SetKey
  <2> HIDE DEF Typed
  <2>3. /\ rpc' \in [Readers -> {"idle", "get", "fun", "set", "push"}]
        /\ held' \in [Readers -> 0..db]
        /\ \A q \in Readers : rpc'[q] = "push" => via[q] \in Caches
    BY <2>2, FoundType
  <2> QED BY <1>4, <2>1, <2>2, <2>3 DEF SetKey, FillRedis, Typed
<1>5. CASE Push(r)
  <2>1. via[r] \in Caches /\ Home[r] \in Instances
    BY <1>5 DEF Push
  <2>2. late' \subseteq Places
    BY <1>5, <2>1 DEF Push, LateWith, Places
  <2>3. memory' \in [Instances -> [AllCaches -> 0..db]]
    BY <1>5, <2>1, MemoryType DEF Push
  <2>4. 0 \in 0..db
    OBVIOUS
  <2>5. /\ rpc' \in [Readers -> {"idle", "get", "fun", "set", "push"}]
        /\ held' \in [Readers -> 0..db]
        /\ \A q \in Readers : rpc'[q] = "push" => via[q] \in Caches
    BY <1>5, <2>4 DEF Push
  <2> QED BY <1>5, <2>2, <2>3, <2>5 DEF Push
<1>6. CASE GetGarbage(r)
  BY <1>6 DEF GetGarbage, Fault
<1>7. CASE Abandon(r)
  <2>1. late' \subseteq Places
    BY <1>7 DEF Abandon, FillRedis, LateWith, Places
  <2> QED BY <1>7, <2>1 DEF Abandon, FillRedis, Fault
<1> QED BY <1>1, <1>2, <1>3, <1>4, <1>5, <1>6, <1>7 DEF ReaderStep

\* Every step of a writer keeps the types.
LEMMA WriterTyped ==
  ASSUME Typed, NEW w \in Writers,
         \/ \E c \in Caches \cup {"none"} : Redact(w, c)
         \/ \E kind \in Kinds : Update(w, kind)
         \/ WriterStep(w) \/ WriteFails(w) \/ GiveUp(w)
  PROVE  Typed'
<1> USE HomeAssumption, CachesAssumption, LimitsAssumption
    DEF Typed, TypeOK, PushKnowsCache, TargetKnown, stores, pubsub, reader, writer
<1>0. ASSUME NewVersion, UNCHANGED <<redis, memory, held>>
      PROVE  /\ db' \in 1..MaxVersion
             /\ redis' \in 0..db'
             /\ memory' \in [Instances -> [AllCaches -> 0..db']]
             /\ held' \in [Readers -> 0..db']
  <2>1. 0..db \subseteq 0..db' /\ db' \in 1..MaxVersion
    BY <1>0 DEF NewVersion
  <2>2. redis' \in 0..db' /\ held' \in [Readers -> 0..db']
    BY <1>0, <2>1
  <2>3. \A i \in Instances : memory[i] \in [AllCaches -> 0..db']
    BY <2>1
  <2> QED BY <1>0, <2>1, <2>2, <2>3
<1>1. CASE \E c \in Caches \cup {"none"} : Redact(w, c)
  <2>1. late' \subseteq Places
    BY <1>1 DEF Redact, Places
  <2> QED BY <1>0, <1>1, <2>1 DEF Redact
<1>2. CASE \E kind \in Kinds : Update(w, kind)
  BY <1>0, <1>2 DEF Update
<1>3. CASE Invalidate(w)
  <2>1. Home[w] \in Instances /\ target[w] \in Caches \cup {"none"}
    BY <1>3 DEF Invalidate
  <2>2. /\ memory' \in [Instances -> [AllCaches -> 0..db]]
        /\ late' \subseteq Places
    BY <1>3, <2>1, ClearType DEF Invalidate
  <2> QED BY <1>3, <2>2 DEF Invalidate
<1>4. CASE DeleteKey(w)
  BY <1>4 DEF DeleteKey, ClearRedis
<1>5. CASE Publish(w)
  <2>1. inbox' \in [Instances -> Seq(Kinds)]
    BY <1>5 DEF Publish, Send
  <2> QED BY <1>5, <2>1 DEF Publish
<1>6. CASE WriteFails(w)
  BY <1>0, <1>6 DEF WriteFails, Fault
<1>7. CASE GiveUp(w)
  <2>1. CASE wpc[w] = "publish" /\ Send(target[w]) /\ UNCHANGED <<redis, late>>
    <3>1. inbox' \in [Instances -> Seq(Kinds)]
      BY <2>1 DEF Send
    <3> QED BY <1>7, <2>1, <3>1 DEF GiveUp, Fault
  <2>2. CASE UNCHANGED inbox
    BY <1>7, <2>2 DEF GiveUp, ClearRedis, Fault
  <2> QED BY <1>7, <2>1, <2>2 DEF GiveUp
<1> QED BY <1>1, <1>2, <1>3, <1>4, <1>5, <1>6, <1>7 DEF WriterStep

\* Every step of a listener keeps the types.
LEMMA ListenerTyped ==
  ASSUME Typed, NEW i \in Instances,
         ListenerStep(i) \/ DeleteFails(i) \/ LoseMessage(i) \/ ListenerEnds(i)
  PROVE  Typed'
<1> USE CachesAssumption, LimitsAssumption
    DEF Typed, TypeOK, PushKnowsCache, TargetKnown, stores, pubsub, reader, writer
<1>0. inbox[i] # <<>> => Head(inbox[i]) \in Kinds /\ Tail(inbox[i]) \in Seq(Kinds)
  OBVIOUS
<1>1. CASE Receive(i)
  <2> DEFINE kind == Head(inbox[i])
  <2>1. kind \in AllKinds /\ (IF kind = "all" THEN "config" ELSE kind) \in AllCaches
    BY <1>0, <1>1 DEF Receive, AllKinds, AllCaches
  <2>2. /\ memory' \in [Instances -> [AllCaches -> 0..db]]
        /\ late' \subseteq Places
    BY <1>1, <2>1, ClearType DEF Receive
  <2> QED BY <1>0, <1>1, <2>2 DEF Receive
<1>2. CASE ReceiveAll(i)
  <2>1. /\ memory' \in [Instances -> [AllCaches -> 0..db]]
        /\ late' \subseteq Places
    BY <1>2, ClearType DEF ReceiveAll, AllCaches
  <2> QED BY <1>2, <2>1 DEF ReceiveAll
<1>3. CASE DeleteOnMessage(i)
  BY <1>3 DEF DeleteOnMessage, ClearRedis
<1>4. CASE DeleteFails(i)
  BY <1>4 DEF DeleteFails, ClearRedis, Fault
<1>5. CASE LoseMessage(i)
  BY <1>0, <1>5 DEF LoseMessage, Fault
<1>6. CASE ListenerEnds(i)
  BY <1>6 DEF ListenerEnds, Fault
<1> QED BY <1>1, <1>2, <1>3, <1>4, <1>5, <1>6 DEF ListenerStep

\* So does every step.
LEMMA StepTyped == Typed /\ [Next]_vars => Typed'
<1> SUFFICES ASSUME Typed, [Next]_vars PROVE Typed'
  OBVIOUS
<1>1. CASE ExpireRedis
  BY <1>1 DEF ExpireRedis, ClearRedis, Typed, TypeOK, PushKnowsCache, TargetKnown,
              pubsub, reader, writer
<1>2. CASE \E i \in Instances, c \in Caches : ExpireMemory(i, c)
  BY <1>2, CachesAssumption, ClearType
     DEF ExpireMemory, Typed, TypeOK, PushKnowsCache, TargetKnown,
         pubsub, reader, writer
<1>3. CASE UNCHANGED vars
  BY <1>3 DEF vars, stores, pubsub, reader, writer, Typed, TypeOK, PushKnowsCache,
              TargetKnown
<1> QED BY <1>1, <1>2, <1>3, ReaderTyped, WriterTyped, ListenerTyped DEF Next

\* Every value any cache, reader or message of the system holds is of its type.
THEOREM CacheTyping == Spec => []TypeOK
<1>1. Spec => []Typed
  BY InitTyped, StepTyped, PTL DEF Spec
<1> QED BY <1>1, PTL DEF Typed

-----------------------------------------------------------------------------
(* Every old value is due, or late *)

\* After a failure nothing is promised any more.
LEMMA FaultsCount == Typed /\ Fault => faults' # 0
BY LimitsAssumption DEF Typed, TypeOK, Fault

\* Nothing is stale at first.
LEMMA InitDue == Init => ListenersLive /\ StaleRedisIsDue /\ StaleMemoryIsDue
BY CachesAssumption
   DEF Init, ListenersLive, StaleRedisIsDue, StaleMemoryIsDue, Stale, AllCaches

\* The steps that are not a failure.
Regular ==
  \/ ExpireRedis
  \/ \E i \in Instances, c \in Caches : ExpireMemory(i, c)
  \/ \E r \in Readers :
       (\E c \in Caches \cup {"none"} : Lookup(r, c)) \/ ReaderStep(r)
  \/ \E w \in Writers :
       \/ \E c \in Caches \cup {"none"} : Redact(w, c)
       \/ \E kind \in Kinds : Update(w, kind)
       \/ WriterStep(w)
  \/ \E i \in Instances : ListenerStep(i)

\* Before the first failure only regular steps are taken.
LEMMA RegularStep ==
  ASSUME Typed, [Next]_vars, faults' = 0
  PROVE  (Regular \/ UNCHANGED vars) /\ faults = 0
<1>1. ~Fault
  BY FaultsCount
<1>2. Regular \/ UNCHANGED vars
  BY <1>1 DEF Next, Regular, GetGarbage, Abandon, WriteFails, GiveUp, DeleteFails,
              LoseMessage, ListenerEnds
<1>3. UNCHANGED faults
  BY <1>2 DEF Regular, vars, ExpireRedis, ExpireMemory, Lookup, ReaderStep, GetKey, CallFun,
              SetKey, Push, Redact, Update, WriterStep, Invalidate, DeleteKey, Publish,
              ListenerStep, Receive, ReceiveAll, DeleteOnMessage
<1> QED BY <1>2, <1>3

\* And listeners go on.
LEMMA LiveStep == Typed /\ ListenersLive /\ [Next]_vars => ListenersLive'
<1> SUFFICES ASSUME Typed, ListenersLive, [Next]_vars, faults' = 0
             PROVE  \A i \in Instances : listener'[i] # "ended"
  BY DEF ListenersLive
<1>1. faults = 0 /\ (Regular \/ UNCHANGED vars)
  BY RegularStep
<1>2. CASE \E i \in Instances : ListenerStep(i)
  BY <1>1, <1>2 DEF ListenerStep, Receive, ReceiveAll, DeleteOnMessage, Typed, TypeOK,
                    ListenersLive
<1>3. CASE UNCHANGED listener
  BY <1>1, <1>3 DEF ListenersLive
<1> QED
  BY <1>1, <1>2, <1>3
     DEF Regular, vars, pubsub, ExpireRedis, ExpireMemory, Lookup, ReaderStep, GetKey,
         CallFun, SetKey, Push, Redact, Update, WriterStep, Invalidate, DeleteKey, Publish

\* A step that leaves an old value in Redis leaves it due, or late.
LEMMA RedisStep ==
  ASSUME Typed, ListenersLive, StaleRedisIsDue, [Next]_vars
  PROVE  StaleRedisIsDue'
<1> SUFFICES ASSUME faults' = 0, Stale(redis)'
             PROVE  RedisDue' \/ RedisPlace \in late'
  BY DEF StaleRedisIsDue
<1>0. faults = 0 /\ (Regular \/ UNCHANGED vars)
  BY RegularStep
<1> USE DEF stores, pubsub, reader, writer
\* A step that leaves Redis and the invalidations of it alone.
<1>1. ASSUME UNCHANGED <<db, redis>>, RedisDue => RedisDue', RedisPlace \in late => RedisPlace \in late'
      PROVE  RedisDue' \/ RedisPlace \in late'
  BY <1>0, <1>1 DEF StaleRedisIsDue, Stale
<1>2. ASSUME redis' = 0 PROVE FALSE
  BY <1>2 DEF Stale
<1>3. \A i \in Instances, c \in Caches : RedisPlace # <<i, c>>
  BY CachesAssumption DEF RedisPlace, AllCaches
<1>4. CASE ExpireRedis
  BY <1>2, <1>4 DEF ExpireRedis, ClearRedis
<1>5. ASSUME NEW i \in Instances, NEW c \in Caches, ExpireMemory(i, c)
      PROVE  RedisDue' \/ RedisPlace \in late'
  <2>1. RedisDue => RedisDue'
    BY <1>5 DEF ExpireMemory, RedisDue
  <2> QED BY <1>1, <1>3, <1>5, <2>1 DEF ExpireMemory, ClearMemory
<1>6. ASSUME NEW r \in Readers, (\E c \in Caches \cup {"none"} : Lookup(r, c)) \/ ReaderStep(r)
      PROVE  RedisDue' \/ RedisPlace \in late'
  <2>1. RedisDue => RedisDue'
    BY <1>6 DEF Lookup, ReaderStep, GetKey, CallFun, SetKey, Push, RedisDue
  <2>2. CASE SetKey(r)
    <3>1. held[r] # db
      BY <2>2 DEF SetKey, FillRedis, Stale
    <3> QED BY <2>1, <2>2, <3>1 DEF SetKey, FillRedis, LateWith
  <2>3. CASE Push(r)
    <3>1. <<Home[r], via[r]>> # RedisPlace
      BY <1>3, <2>3, HomeAssumption DEF Push, Typed, PushKnowsCache
    <3> QED BY <1>1, <2>1, <2>3, <3>1 DEF Push, LateWith
  <2> QED BY <1>1, <1>6, <2>1, <2>2, <2>3 DEF Lookup, ReaderStep, GetKey, CallFun
<1>7. ASSUME NEW w \in Writers,
             \/ \E c \in Caches \cup {"none"} : Redact(w, c)
             \/ \E kind \in Kinds : Update(w, kind)
             \/ Invalidate(w)
      PROVE  RedisDue'
  <2>1. wpc'[w] # "idle"
    BY <1>7 DEF Redact, Update, Invalidate, Typed, TypeOK
  <2> QED BY <2>1 DEF RedisDue
<1>8. ASSUME NEW w \in Writers, DeleteKey(w) PROVE FALSE
  BY <1>2, <1>8 DEF DeleteKey, ClearRedis
<1>9. ASSUME NEW w \in Writers, Publish(w) PROVE RedisDue'
  <2>1. PICK i \in Instances : TRUE
    BY HomeAssumption
  <2>2. listener[i] # "ended" /\ inbox[i] \in Seq(Kinds)
    BY <1>0 DEF ListenersLive, Typed, TypeOK
  <2>3. inbox'[i] = Append(inbox[i], target[w]) /\ target[w] \in Kinds
    BY <1>9, <2>2 DEF Publish, Send, Typed, TargetKnown
  <2>4. inbox'[i] # <<>>
    BY <2>2, <2>3
  <2> QED BY <2>4 DEF RedisDue
<1>10. ASSUME NEW i \in Instances, Receive(i) \/ ReceiveAll(i) PROVE RedisDue'
  <2>1. listener'[i] \in {"accounts", "delete"}
    BY <1>10 DEF Receive, ReceiveAll, Typed, TypeOK
  <2> QED BY <2>1 DEF RedisDue
<1>11. ASSUME NEW i \in Instances, DeleteOnMessage(i) PROVE FALSE
  BY <1>2, <1>11 DEF DeleteOnMessage, ClearRedis
<1>12. CASE UNCHANGED vars
  BY <1>1, <1>12 DEF vars, RedisDue
<1> QED
  BY <1>0, <1>4, <1>5, <1>6, <1>7, <1>8, <1>9, <1>10, <1>11, <1>12
     DEF Regular, WriterStep, ListenerStep

\* A step that leaves an old value in a memory leaves it due, or late.
LEMMA MemoryStep ==
  ASSUME Typed, ListenersLive, StaleMemoryIsDue, [Next]_vars
  PROVE  StaleMemoryIsDue'
<1> SUFFICES ASSUME faults' = 0,
                    NEW i \in Instances, NEW c \in Caches, Stale(memory[i][c])'
             PROVE  MemoryDue(i, c)' \/ <<i, c>> \in late'
  BY DEF StaleMemoryIsDue
<1>0. faults = 0 /\ (Regular \/ UNCHANGED vars)
  BY RegularStep
<1> USE DEF stores, pubsub, reader, writer
<1>a. c \in AllCaches
  BY CachesAssumption
\* A step that leaves this memory and the invalidations of it alone.
<1>1. ASSUME UNCHANGED db, memory'[i][c] = memory[i][c],
             MemoryDue(i, c) => MemoryDue(i, c)', <<i, c>> \in late => <<i, c>> \in late'
      PROVE  MemoryDue(i, c)' \/ <<i, c>> \in late'
  BY <1>0, <1>1 DEF StaleMemoryIsDue, Stale
<1>2. ASSUME memory'[i][c] = 0 PROVE FALSE
  BY <1>2 DEF Stale
<1>3. RedisPlace # <<i, c>>
  BY CachesAssumption DEF RedisPlace, AllCaches
\* Clearing a memory, this one or another.
<1>4. ASSUME NEW j \in Instances, NEW d \in AllCaches, ClearMemory(j, d)
      PROVE  /\ <<j, d>> # <<i, c>>
             /\ memory'[i][c] = memory[i][c]
             /\ <<i, c>> \in late => <<i, c>> \in late'
  <2>1. memory \in [Instances -> [AllCaches -> 0..db]]
    BY DEF Typed, TypeOK
  <2>2. <<j, d>> # <<i, c>>
    BY <1>2, <1>4, <1>a, <2>1 DEF ClearMemory
  <2> QED BY <1>4, <2>1, <2>2 DEF ClearMemory
<1>5. CASE ExpireRedis
  <2>1. MemoryDue(i, c) => MemoryDue(i, c)'
    BY <1>5 DEF ExpireRedis, MemoryDue
  <2> QED BY <1>1, <1>3, <1>5, <2>1 DEF ExpireRedis, ClearRedis
<1>6. ASSUME NEW j \in Instances, NEW d \in Caches, ExpireMemory(j, d)
      PROVE  MemoryDue(i, c)' \/ <<i, c>> \in late'
  <2>1. MemoryDue(i, c) => MemoryDue(i, c)'
    BY <1>6 DEF ExpireMemory, MemoryDue
  <2> QED BY <1>1, <1>4, <1>6, <2>1, CachesAssumption DEF ExpireMemory
<1>7. ASSUME NEW r \in Readers, (\E d \in Caches \cup {"none"} : Lookup(r, d)) \/ ReaderStep(r)
      PROVE  MemoryDue(i, c)' \/ <<i, c>> \in late'
  <2>1. MemoryDue(i, c) => MemoryDue(i, c)'
    BY <1>7 DEF Lookup, ReaderStep, GetKey, CallFun, SetKey, Push, MemoryDue
  <2>2. CASE SetKey(r)
    BY <1>1, <1>3, <2>1, <2>2 DEF SetKey, FillRedis, LateWith
  <2>3. CASE Push(r)
    <3>1. Home[r] \in Instances /\ via[r] \in AllCaches
      BY <2>3, HomeAssumption, CachesAssumption DEF Push, Typed, PushKnowsCache
    <3>2. memory \in [Instances -> [AllCaches -> 0..db]]
      BY DEF Typed, TypeOK
    <3>3. CASE <<Home[r], via[r]>> = <<i, c>>
      <4>1. Home[r] = i /\ via[r] = c
        BY <3>3
      <4>2. memory'[i][c] = held[r]
        BY <2>3, <3>1, <3>2, <4>1 DEF Push
      <4>3. held[r] # db
        BY <2>3, <4>2 DEF Push, Stale
      <4> QED BY <2>1, <2>3, <4>1, <4>3 DEF Push, LateWith
    <3>4. CASE <<Home[r], via[r]>> # <<i, c>>
      <4>1. memory'[i][c] = memory[i][c]
        BY <1>a, <2>3, <3>1, <3>2, <3>4 DEF Push
      <4> QED BY <1>1, <2>1, <2>3, <3>4, <4>1 DEF Push, LateWith
    <3> QED BY <3>3, <3>4
  <2> QED BY <1>1, <1>7, <2>1, <2>2, <2>3 DEF Lookup, ReaderStep, GetKey, CallFun
<1>8. ASSUME NEW w \in Writers, NEW kind \in Kinds, Update(w, kind)
      PROVE  MemoryDue(i, c)'
  <2>1. wpc'[w] = "publish" /\ target'[w] = kind
    BY <1>8 DEF Update, Typed, TypeOK
  <2> QED BY <2>1, KindsAssumption DEF MemoryDue
<1>9. ASSUME NEW w \in Writers, NEW d \in Caches \cup {"none"}, Redact(w, d)
      PROVE  MemoryDue(i, c)' \/ <<i, c>> \in late'
  <2>1. CASE Home[w] = i /\ d = c
    <3>1. wpc'[w] = "memory" /\ target'[w] = c
      BY <1>9, <2>1 DEF Redact, Typed, TypeOK
    <3> QED BY <2>1, <3>1 DEF MemoryDue
  <2>2. CASE Home[w] # i \/ d # c
    BY <1>9, <2>2 DEF Redact
  <2> QED BY <2>1, <2>2
<1>10. ASSUME NEW w \in Writers, DeleteKey(w)
       PROVE  MemoryDue(i, c)' \/ <<i, c>> \in late'
  <2>1. MemoryDue(i, c) => MemoryDue(i, c)'
    BY <1>10 DEF DeleteKey, MemoryDue, Typed, TypeOK
  <2> QED BY <1>1, <1>3, <1>10, <2>1 DEF DeleteKey, ClearRedis
<1>11. ASSUME NEW w \in Writers, Invalidate(w)
       PROVE  MemoryDue(i, c)' \/ <<i, c>> \in late'
  <2>1. ASSUME memory'[i][c] = memory[i][c], Home[w] # i \/ target[w] # c
        PROVE  MemoryDue(i, c) => MemoryDue(i, c)'
    BY <1>11, <2>1 DEF Invalidate, MemoryDue, Typed, TypeOK
  <2>2. CASE target[w] = "none"
    BY <1>1, <1>11, <1>a, <2>1, <2>2 DEF Invalidate, AllCaches
  <2>3. CASE target[w] # "none"
    <3>1. ClearMemory(Home[w], target[w]) /\ target[w] \in AllCaches /\ Home[w] \in Instances
      BY <1>11, <2>3, CachesAssumption, HomeAssumption DEF Invalidate, Typed, TargetKnown
    <3> QED BY <1>1, <1>4, <1>11, <2>1, <3>1 DEF Invalidate
  <2> QED BY <2>2, <2>3
<1>12. ASSUME NEW w \in Writers, Publish(w)
       PROVE  MemoryDue(i, c)' \/ <<i, c>> \in late'
  <2>1. listener[i] # "ended" /\ inbox[i] \in Seq(Kinds) /\ target[w] \in Kinds
    BY <1>0, <1>12 DEF ListenersLive, Typed, TypeOK, TargetKnown, Publish, Send
  <2>2. inbox'[i] = Append(inbox[i], target[w])
    BY <1>12, <2>1 DEF Publish, Send
  <2>3. Len(inbox'[i]) \in 1..Len(inbox'[i]) /\ inbox'[i][Len(inbox'[i])] = target[w]
    BY <2>1, <2>2
  <2> QED BY <2>1, <2>3, KindsAssumption DEF MemoryDue
<1>13. ASSUME NEW j \in Instances, Receive(j)
       PROVE  MemoryDue(i, c)' \/ <<i, c>> \in late'
  <2> DEFINE kind == Head(inbox[j])
             first == IF kind = "all" THEN "config" ELSE kind
  <2>1. inbox[j] \in Seq(Kinds) /\ inbox[j] # <<>> /\ kind \in AllKinds
    BY <1>13, CachesAssumption DEF Receive, Typed, TypeOK
  <2>2. first \in AllCaches /\ ClearMemory(j, first)
    BY <1>13, <2>1 DEF Receive, AllKinds, AllCaches
  <2>3. /\ <<j, first>> # <<i, c>>
        /\ memory'[i][c] = memory[i][c]
        /\ <<i, c>> \in late => <<i, c>> \in late'
    BY <1>4, <2>2
  <2>4. CASE j # i
    <3>1. inbox'[i] = inbox[i] /\ listener'[i] = listener[i]
      BY <1>13, <2>4 DEF Receive, Typed, TypeOK
    <3>2. MemoryDue(i, c) => MemoryDue(i, c)'
      BY <1>13, <3>1 DEF Receive, MemoryDue
    <3> QED BY <1>1, <1>13, <2>3, <3>2 DEF Receive
  <2>5. CASE j = i
    <3>1. CASE kind = "all"
      <4>1. c = "accounts"
        BY <1>a, <2>3, <2>5, <3>1 DEF AllCaches
      <4>2. listener'[i] = "accounts"
        BY <1>13, <2>5, <3>1 DEF Receive, Typed, TypeOK
      <4> QED BY <4>1, <4>2 DEF MemoryDue
    <3>2. CASE kind # "all"
      <4>1. c \notin Clears(kind)
        BY <2>3, <2>5, <3>2 DEF Clears
      <4>2. inbox'[i] = Tail(inbox[i]) /\ listener[i] = "recv"
        BY <1>13, <2>5 DEF Receive, Typed, TypeOK
      <4>3. ASSUME NEW n \in 1..Len(inbox[i]), c \in Clears(inbox[i][n])
            PROVE  n - 1 \in 1..Len(inbox'[i]) /\ inbox'[i][n - 1] = inbox[i][n]
        <5>1. n # 1
          BY <4>1, <4>3, <2>1, <2>5
        <5> QED BY <2>1, <2>5, <4>2, <5>1
      <4>4. MemoryDue(i, c) => MemoryDue(i, c)'
        BY <1>13, <4>2, <4>3 DEF Receive, MemoryDue
      <4> QED BY <1>1, <1>13, <2>3, <4>4 DEF Receive
    <3> QED BY <3>1, <3>2
  <2> QED BY <2>4, <2>5
<1>14. ASSUME NEW j \in Instances, ReceiveAll(j)
       PROVE  MemoryDue(i, c)' \/ <<i, c>> \in late'
  <2>1. ClearMemory(j, "accounts") /\ "accounts" \in AllCaches
    BY <1>14 DEF ReceiveAll, AllCaches
  <2>2. /\ <<j, "accounts">> # <<i, c>>
        /\ memory'[i][c] = memory[i][c]
        /\ <<i, c>> \in late => <<i, c>> \in late'
    BY <1>4, <2>1
  <2>3. MemoryDue(i, c) => MemoryDue(i, c)'
    BY <1>14, <2>2 DEF ReceiveAll, MemoryDue, Typed, TypeOK
  <2> QED BY <1>1, <1>14, <2>2, <2>3 DEF ReceiveAll
<1>15. ASSUME NEW j \in Instances, DeleteOnMessage(j)
       PROVE  MemoryDue(i, c)' \/ <<i, c>> \in late'
  <2>1. MemoryDue(i, c) => MemoryDue(i, c)'
    BY <1>15 DEF DeleteOnMessage, MemoryDue, Typed, TypeOK
  <2> QED BY <1>1, <1>3, <1>15, <2>1 DEF DeleteOnMessage, ClearRedis
<1>16. CASE UNCHANGED vars
  <2>1. MemoryDue(i, c) => MemoryDue(i, c)'
    BY <1>16 DEF vars, MemoryDue
  <2> QED BY <1>1, <1>16, <2>1 DEF vars
<1> QED
  BY <1>0, <1>5, <1>6, <1>7, <1>8, <1>9, <1>10, <1>11, <1>12, <1>13, <1>14, <1>15, <1>16
     DEF Regular, WriterStep, ListenerStep

\* As long as no call fails, an old value in Redis is still to be deleted by the
\* DEL of a writer or of a listener, or a reader's SET overtook them all.
THEOREM RedisDueOrLate == Spec => []StaleRedisIsDue
<1> DEFINE Inv == Typed /\ ListenersLive /\ StaleRedisIsDue
<1>1. Init => Inv
  BY InitTyped, InitDue
<1>2. Inv /\ [Next]_vars => Inv'
  BY StepTyped, LiveStep, RedisStep
<1> QED BY <1>1, <1>2, PTL DEF Spec

\* The same of every in-memory cache, whichever way its writers invalidate: no
\* memory is forgotten by on_message, whichever kind of message is published.
THEOREM MemoryDueOrLate == Spec => []StaleMemoryIsDue
<1> DEFINE Inv == Typed /\ ListenersLive /\ StaleMemoryIsDue
<1>1. Init => Inv
  BY InitTyped, InitDue
<1>2. Inv /\ [Next]_vars => Inv'
  BY StepTyped, LiveStep, MemoryStep
<1> QED BY <1>1, <1>2, PTL DEF Spec

=============================================================================
