------------------------------- MODULE Cache -------------------------------
(***************************************************************************)
(* The two-level cache (src/crates/storage_impl/src/redis/cache.rs and     *)
(* pub_sub.rs; src/crates/router/src/cache.rs repeats it): a value of the  *)
(* database is kept in Redis and in the memory of every process.           *)
(*                                                                         *)
(* A reader looks in memory, then in Redis, then in the database, and      *)
(* fills what it missed on its way back.  A writer changes the database    *)
(* and then either clears its own memory and Redis (redact_cache) or       *)
(* publishes a message on which every process does so                      *)
(* (publish_and_redact, on_message).                                       *)
(*                                                                         *)
(* The model is of one key.  A value is the number of the write that made  *)
(* it, 0 stands for "not there".  Every awaited call is one step.          *)
(***************************************************************************)
EXTENDS Naturals, Sequences, FiniteSets

CONSTANTS
  Instances,      \* processes, each with its memory and its listener
  Readers, Writers,
  Home,           \* the process a reader or a writer runs in
  Caches,         \* the in-memory caches that hold the key
  Kinds,          \* the kinds of the messages published for it (CacheKind)
  Modes,          \* how writers invalidate: "redact", "publish"
  MaxVersion,     \* bound on writes
  MaxFaults       \* bound on failed calls, dropped requests, lost messages

AllCaches == {"config", "accounts"}

AllKinds == AllCaches \cup {"all"}

\* The caches a message of a kind clears.
Clears(kind) == IF kind = "all" THEN AllCaches ELSE {kind}

ASSUME HomeAssumption == Home \in [Readers \cup Writers -> Instances]
ASSUME CachesAssumption == Caches \subseteq AllCaches /\ Kinds \subseteq AllKinds
ASSUME KindsAssumption == \A kind \in Kinds : Caches \subseteq Clears(kind)
ASSUME ModesAssumption == Modes \subseteq {"redact", "publish"}
ASSUME LimitsAssumption == MaxVersion \in Nat \ {0} /\ MaxFaults \in Nat

VARIABLES
  db,         \* PostgreSQL: the value, the first of which is there initially
  redis,      \* Redis: the cached value
  memory,     \* each process: CONFIG_CACHE and ACCOUNTS_CACHE
  inbox,      \* each process: the messages its listener has to receive
  listener,   \* each process: where on_message stands
  rpc, via, held,   \* each reader: its next step, its cache, its value
  wpc, target,      \* each writer: its next step, what it invalidates
  late,       \* history: the places that no invalidation will reach: a reader
              \*   filled them after all of them, or redact_cache left them out
  faults

stores  == <<db, redis, memory>>
pubsub  == <<inbox, listener>>
reader  == <<rpc, via, held>>
writer  == <<wpc, target>>
vars    == <<stores, pubsub, reader, writer, late, faults>>

Fault == faults < MaxFaults /\ faults' = faults + 1

-----------------------------------------------------------------------------
(* Invalidations that are still to come *)

RedisPlace == <<"redis", "all">>

Places == (Instances \X Caches) \cup {RedisPlace}

\* Some writer or listener will yet delete the key from Redis.
RedisDue ==
  \/ \E w \in Writers : wpc[w] # "idle"
  \/ \E i \in Instances : inbox[i] # <<>> \/ listener[i] \in {"accounts", "delete"}

\* Some writer or listener will yet clear cache c of process i.
MemoryDue(i, c) ==
  \/ \E w \in Writers :
       \/ wpc[w] = "publish" /\ c \in Clears(target[w])
       \/ wpc[w] = "memory" /\ Home[w] = i /\ target[w] = c
  \/ \E n \in 1..Len(inbox[i]) : c \in Clears(inbox[i][n])
  \/ listener[i] = "accounts" /\ c = "accounts"

\* What late becomes when a place takes the value v.
LateWith(place, v, due) ==
  IF v # db /\ ~due THEN late \cup {place} ELSE late \ {place}

-----------------------------------------------------------------------------
Init ==
  /\ db = 1
  /\ redis = 0
  /\ memory = [i \in Instances |-> [c \in AllCaches |-> 0]]
  /\ inbox = [i \in Instances |-> <<>>]
  /\ listener = [i \in Instances |-> "recv"]
  /\ rpc = [r \in Readers |-> "idle"]
  /\ via = [r \in Readers |-> "none"]
  /\ held = [r \in Readers |-> 0]
  /\ wpc = [w \in Writers |-> "idle"]
  /\ target = [w \in Writers |-> "none"]
  /\ late = {}
  /\ faults = 0

-----------------------------------------------------------------------------
(* Expiry: time_to_live, time_to_idle and capacity of the memory, default_ttl *)
(* of the Redis key                                                           *)

ClearMemory(i, c) ==
  /\ memory' = [memory EXCEPT ![i][c] = 0]
  /\ late' = late \ {<<i, c>>}

ClearRedis ==
  /\ redis' = 0
  /\ late' = late \ {RedisPlace}

ExpireMemory(i, c) ==
  /\ memory[i][c] # 0
  /\ ClearMemory(i, c)
  /\ UNCHANGED <<db, redis, pubsub, reader, writer, faults>>

\* Mutant of ExpireRedis: the key was set without an expiry.
KeyNeverExpires ==
  /\ redis # 0
  /\ UNCHANGED vars

ExpireRedis ==
  /\ redis # 0
  /\ ClearRedis
  /\ UNCHANGED <<db, memory, pubsub, reader, writer, faults>>

-----------------------------------------------------------------------------
(* get_or_populate_in_memory, and get_or_populate_redis (via "none") *)

\* The cached value is returned, or the search goes on in Redis.
Lookup(r, c) ==
  /\ rpc[r] = "idle"
  /\ c \in Caches => memory[Home[r]][c] = 0
  /\ rpc' = [rpc EXCEPT ![r] = "get"]
  /\ via' = [via EXCEPT ![r] = c]
  /\ UNCHANGED <<stores, pubsub, held, writer, late, faults>>

\* Mutant of Found: the memory is filled in any case.
FoundAndPush(r, v) ==
  /\ rpc' = [rpc EXCEPT ![r] = "push"]
  /\ held' = [held EXCEPT ![r] = v]

\* The reader has its value: it fills its memory, or is done.
Found(r, v) ==
  IF via[r] = "none"
    THEN /\ rpc' = [rpc EXCEPT ![r] = "idle"]
         /\ held' = [held EXCEPT ![r] = 0]
    ELSE /\ rpc' = [rpc EXCEPT ![r] = "push"]
         /\ held' = [held EXCEPT ![r] = v]

GetKey(r) ==
  /\ rpc[r] = "get"
  /\ IF redis # 0
       THEN Found(r, redis)
       ELSE rpc' = [rpc EXCEPT ![r] = "fun"] /\ UNCHANGED held
  /\ UNCHANGED <<stores, pubsub, via, writer, late, faults>>

\* What Redis holds cannot be deserialized: as if it were not there.
GetGarbage(r) ==
  /\ rpc[r] = "get" /\ redis # 0
  /\ Fault
  /\ rpc' = [rpc EXCEPT ![r] = "fun"]
  /\ UNCHANGED <<stores, pubsub, via, held, writer, late>>

CallFun(r) ==
  /\ rpc[r] = "fun"
  /\ rpc' = [rpc EXCEPT ![r] = "set"]
  /\ held' = [held EXCEPT ![r] = db]
  /\ UNCHANGED <<stores, pubsub, via, writer, late, faults>>

FillRedis(v) ==
  /\ redis' = v
  /\ late' = LateWith(RedisPlace, v, RedisDue)

SetKey(r) ==
  /\ rpc[r] = "set"
  /\ FillRedis(held[r])
  /\ Found(r, held[r])
  /\ UNCHANGED <<db, memory, pubsub, via, writer, faults>>

Push(r) ==
  /\ rpc[r] = "push"
  /\ memory' = [memory EXCEPT ![Home[r]][via[r]] = held[r]]
  /\ late' = LateWith(<<Home[r], via[r]>>, held[r], MemoryDue(Home[r], via[r]))
  /\ rpc' = [rpc EXCEPT ![r] = "idle"]
  /\ held' = [held EXCEPT ![r] = 0]
  /\ UNCHANGED <<db, redis, pubsub, via, writer, faults>>

\* A call fails, or the request is dropped at an await; the SET that was under
\* way may have taken effect.
Abandon(r) ==
  /\ rpc[r] # "idle"
  /\ Fault
  /\ \/ UNCHANGED <<redis, late>>
     \/ rpc[r] = "set" /\ FillRedis(held[r])
  /\ rpc' = [rpc EXCEPT ![r] = "idle"]
  /\ held' = [held EXCEPT ![r] = 0]
  /\ UNCHANGED <<db, memory, pubsub, via, writer>>

-----------------------------------------------------------------------------
(* redact_cache and publish_and_redact *)

NewVersion == db < MaxVersion /\ db' = db + 1

\* Mutant of Redact: the caches are cleared before the write, not after it.
RedactFirst(w, c) ==
  /\ wpc[w] = "idle" /\ "redact" \in Modes
  /\ NewVersion
  /\ UNCHANGED <<redis, memory, pubsub, reader, wpc, target, late, faults>>

\* The write of redact_cache, which will clear cache c (None for "none") of
\* its own process; no other memory hears of it.
Redact(w, c) ==
  /\ wpc[w] = "idle" /\ "redact" \in Modes
  /\ NewVersion
  /\ wpc' = [wpc EXCEPT ![w] = "memory"]
  /\ target' = [target EXCEPT ![w] = c]
  /\ late' = late \cup ((Instances \X Caches) \ {<<Home[w], c>>})
  /\ UNCHANGED <<redis, memory, pubsub, reader, faults>>

Invalidate(w) ==
  /\ wpc[w] = "memory"
  /\ IF target[w] = "none"
       THEN UNCHANGED <<memory, late>>
       ELSE ClearMemory(Home[w], target[w])
  /\ wpc' = [wpc EXCEPT ![w] = "delete"]
  /\ UNCHANGED <<db, redis, pubsub, reader, target, faults>>

DeleteKey(w) ==
  /\ wpc[w] = "delete"
  /\ ClearRedis
  /\ wpc' = [wpc EXCEPT ![w] = "idle"]
  /\ UNCHANGED <<db, memory, pubsub, reader, target, faults>>

\* The write of publish_and_redact.
Update(w, kind) ==
  /\ wpc[w] = "idle" /\ "publish" \in Modes
  /\ NewVersion
  /\ wpc' = [wpc EXCEPT ![w] = "publish"]
  /\ target' = [target EXCEPT ![w] = kind]
  /\ UNCHANGED <<redis, memory, pubsub, reader, late, faults>>

\* PUBLISH: every process that listens is sent the message.
Send(kind) ==
  inbox' = [i \in Instances |->
              IF listener[i] = "ended" THEN inbox[i] ELSE Append(inbox[i], kind)]

Publish(w) ==
  /\ wpc[w] = "publish"
  /\ Send(target[w])
  /\ wpc' = [wpc EXCEPT ![w] = "idle"]
  /\ UNCHANGED <<stores, listener, reader, target, late, faults>>

\* The write reports an error but was committed: nothing is invalidated.
WriteFails(w) ==
  /\ wpc[w] = "idle"
  /\ Fault
  /\ NewVersion
  /\ UNCHANGED <<redis, memory, pubsub, reader, writer, late>>

\* The writer gives up where it stands, with its write committed; the call
\* that was under way may have had its effect.
GiveUp(w) ==
  /\ wpc[w] # "idle"
  /\ Fault
  /\ \/ UNCHANGED <<redis, inbox, late>>
     \/ wpc[w] = "delete" /\ ClearRedis /\ UNCHANGED inbox
     \/ wpc[w] = "publish" /\ Send(target[w]) /\ UNCHANGED <<redis, late>>
  /\ wpc' = [wpc EXCEPT ![w] = "idle"]
  /\ UNCHANGED <<db, memory, listener, reader, target>>

-----------------------------------------------------------------------------
(* on_message *)

\* Mutant of Receive: a message of kind All clears the accounts cache only.
ReceiveAccounts(i) ==
  /\ listener[i] = "recv" /\ inbox[i] # <<>>
  /\ ClearMemory(i, IF Head(inbox[i]) = "all" THEN "accounts" ELSE Head(inbox[i]))
  /\ inbox' = [inbox EXCEPT ![i] = Tail(@)]
  /\ listener' = [listener EXCEPT ![i] = "delete"]
  /\ UNCHANGED <<db, redis, reader, writer, faults>>

Receive(i) ==
  /\ listener[i] = "recv" /\ inbox[i] # <<>>
  /\ LET kind == Head(inbox[i]) IN
       /\ ClearMemory(i, IF kind = "all" THEN "config" ELSE kind)
       /\ listener' = [listener EXCEPT ![i] = IF kind = "all" THEN "accounts" ELSE "delete"]
  /\ inbox' = [inbox EXCEPT ![i] = Tail(@)]
  /\ UNCHANGED <<db, redis, reader, writer, faults>>

ReceiveAll(i) ==
  /\ listener[i] = "accounts"
  /\ ClearMemory(i, "accounts")
  /\ listener' = [listener EXCEPT ![i] = "delete"]
  /\ UNCHANGED <<db, redis, inbox, reader, writer, faults>>

DeleteOnMessage(i) ==
  /\ listener[i] = "delete"
  /\ ClearRedis
  /\ listener' = [listener EXCEPT ![i] = "recv"]
  /\ UNCHANGED <<db, memory, inbox, reader, writer, faults>>

\* The error is logged and the next message received; the DEL may have had
\* its effect.
DeleteFails(i) ==
  /\ listener[i] = "delete"
  /\ Fault
  /\ UNCHANGED <<redis, late>> \/ ClearRedis
  /\ listener' = [listener EXCEPT ![i] = "recv"]
  /\ UNCHANGED <<db, memory, inbox, reader, writer>>

\* Redis keeps no message for a subscriber that is not connected; a message
\* that is no CacheKind is skipped.
LoseMessage(i) ==
  /\ inbox[i] # <<>>
  /\ Fault
  /\ inbox' = [inbox EXCEPT ![i] = Tail(@)]
  /\ UNCHANGED <<stores, listener, reader, writer, late>>

\* recv answers that the receiver fell behind and messages were dropped: the
\* loop, written for the end of the channel, ends for good.
ListenerEnds(i) ==
  /\ listener[i] = "recv" /\ inbox[i] # <<>>
  /\ Fault
  /\ listener' = [listener EXCEPT ![i] = "ended"]
  /\ inbox' = [inbox EXCEPT ![i] = <<>>]
  /\ UNCHANGED <<stores, reader, writer, late>>

-----------------------------------------------------------------------------
ReaderStep(r) == GetKey(r) \/ CallFun(r) \/ SetKey(r) \/ Push(r)

WriterStep(w) == Invalidate(w) \/ DeleteKey(w) \/ Publish(w)

ListenerStep(i) == Receive(i) \/ ReceiveAll(i) \/ DeleteOnMessage(i)

Next ==
  \/ ExpireRedis
  \/ \E i \in Instances, c \in Caches : ExpireMemory(i, c)
  \/ \E r \in Readers :
       \/ \E c \in Caches \cup {"none"} : Lookup(r, c)
       \/ ReaderStep(r) \/ GetGarbage(r) \/ Abandon(r)
  \/ \E w \in Writers :
       \/ \E c \in Caches \cup {"none"} : Redact(w, c)
       \/ \E kind \in Kinds : Update(w, kind)
       \/ WriterStep(w) \/ WriteFails(w) \/ GiveUp(w)
  \/ \E i \in Instances :
       ListenerStep(i) \/ DeleteFails(i) \/ LoseMessage(i) \/ ListenerEnds(i)

Spec == Init /\ [][Next]_vars

\* Tokio runs every task that can go on; expiries run out.  Nothing is assumed
\* of requests.
Fairness ==
  /\ WF_vars(ExpireRedis)
  /\ \A i \in Instances, c \in Caches : WF_vars(ExpireMemory(i, c))
  /\ \A r \in Readers : WF_vars(ReaderStep(r))
  /\ \A w \in Writers : WF_vars(WriterStep(w))
  /\ \A i \in Instances : WF_vars(ListenerStep(i))

FairSpec == Spec /\ Fairness

-----------------------------------------------------------------------------
(* Properties *)

\* Every variable has its type: versions are never from the future, and only
\* caches that hold the key are filled.
TypeOK ==
  /\ db \in 1..MaxVersion
  /\ redis \in 0..db
  /\ memory \in [Instances -> [AllCaches -> 0..db]]
  /\ inbox \in [Instances -> Seq(Kinds)]
  /\ listener \in [Instances -> {"recv", "accounts", "delete", "ended"}]
  /\ rpc \in [Readers -> {"idle", "get", "fun", "set", "push"}]
  /\ via \in [Readers -> Caches \cup {"none"}]
  /\ held \in [Readers -> 0..db]
  /\ wpc \in [Writers -> {"idle", "memory", "delete", "publish"}]
  /\ target \in [Writers -> Caches \cup Kinds \cup {"none"}]
  /\ late \subseteq Places
  /\ faults \in 0..MaxFaults

Stale(v) == v # 0 /\ v # db

\* An old value in Redis is about to be deleted, or a reader put it there after
\* every invalidation had passed (the SET of get_or_populate_redis is not
\* conditional); nothing else leaves one behind, unless a call fails.
StaleRedisIsDue ==
  faults = 0 /\ Stale(redis) => RedisDue \/ RedisPlace \in late

\* The same of the memory of every process, however redact_cache and
\* publish_and_redact are mixed: an old value stays only where a reader came
\* too late or where redact_cache, which clears one cache of one process, left
\* it; whatever kind is published reaches all the others.
StaleMemoryIsDue ==
  faults = 0 =>
    \A i \in Instances, c \in Caches :
      Stale(memory[i][c]) => MemoryDue(i, c) \/ <<i, c>> \in late

\* Once writes stop, every cache settles on the value of the database, whatever
\* was lost, overtaken or given up on the way: the expiries see to it.
EventuallyFresh ==
  <>[](~Stale(redis) /\ \A i \in Instances, c \in Caches : ~Stale(memory[i][c]))

=============================================================================
