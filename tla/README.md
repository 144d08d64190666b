# Verification of mercado

TLA+ models of this repository, the TLC runs that check them on small instances
and TLAPS proofs for instances of every size.  A module is translated from the
Rust source; `PROJECT.json` gives the lines behind every definition.

## 1. Inventory of the system

The repository is a Cargo workspace of sixteen crates, a commerce back end
derived from a payment router.  Its core is a handful of protocols over shared
stores; around them are the start of a process, the way of an error to the
client, and tables of values.

| Part | State it keeps | Operations | Who else touches that state |
|---|---|---|---|
| **Drainer** (`crates/drainer`) | Redis: a stream and an in-use flag per partition; process: `stream_index`, `running`, `active_tasks`; PostgreSQL: the rows | loop over partitions, handler task (read, execute, trim, unlock), shutdown listener | the application appends to the streams; other drainer processes; the flag's expiry |
| **Drainer health endpoint** | Redis: a test key and a test stream | deep check: SELECT, SET, GET, DEL, XADD, XREAD, XTRIM | checks of the same and of other processes |
| **Scheduler producer** (`crates/scheduler`) | Redis: producer lock, stream of batches; PostgreSQL: `process_tracker` | acquire, fetch due tasks, divide, mark Processing, append, release | other producers, consumers, the application that creates tasks |
| **Scheduler consumer** | Redis: consumer group; PostgreSQL: `process_tracker` | create group, read, acknowledge, delete, mark ProcessStarted, run workflows | producers, other consumers, workflows |
| **Scheduler cleaner** | – | "This flow has not been implemented yet!" (`scheduler.rs:73`) | – |
| **Retry schedules** (`scheduler/src/utils.rs`) | – (pure) | `get_schedule_time`, `get_pm_schedule_time`, the webhooks' schedule, `get_delay` | workflows |
| **Two-level cache** (`storage_impl/src/redis/cache.rs`, repeated in `router/src/cache.rs`) | memory of every process, Redis, database | populate on read, `redact_cache`, `publish_and_redact`, `on_message` | every request of every process |
| **KV store** (`storage_impl/src/redis/kv_store.rs`) | Redis records and constraint sets, drainer stream | `kv_wrapper`: HSET, HSETNX, SETNX, HGET, GET, HSCAN, constraint check, push | drainer, expiry |
| **redis_interface** | connection pool, `is_redis_available` | typed Redis commands, `on_error` | all of the above |
| **API keys, users** (`modules`, `diesel_models`) | tables `api_key`, `user`; the pool of connections | retrieve, list, insert, update, upsert, delete, authenticate | requests at the same time |
| **Settings and start-up** (`drainer`, `data_models/src/configs`, `modules/src/app.rs`, `external_services`) | the settings, secured and raw | read the sources, deserialize, validate, fetch secrets, set up the store | – |
| **Errors** (`storage_impl`, `data_models`, `api_models`) | – | conversions from a failure of a store to the response | every request |
| **Values** (`common_enums`, `common_utils`) | – | amounts, percentages, dates, currencies, country codes | every request |
| Static cache, signals (`common_utils`) | a locked map; the shutdown channel | store, retrieve; signal handler | – |
| Others: records, `masking`, `router_derive`, `router_env`, `hyperswitch_interfaces`, `router` configuration | none that is shared | derived conversions, I/O | – |

How they interact.  A request writes a row through the KV store, which puts it in
Redis and appends the SQL to a drainer stream; the drainer executes it later.
The scheduler is a second pipeline: the producer copies rows into a Redis stream,
the consumer takes them out and writes the rows back.  The cache is between the
requests and the database; processes tell each other about writes with Redis
pub/sub.  Nothing in the workspace uses a transaction that spans two of these
stores, so every pair of calls has a window in which another actor, a failure or
a crash can come.

What is hard here:

* *interleavings* of tasks of one process and of several processes, at every
  `await`;
* *locks with an expiry* that are released by a plain DEL, whoever holds them
  (the partition flags, the producer lock);
* *lost replies*: a command that reports an error may have had its effect;
* *crashes and panics* between two steps of a session, after which the flag, the
  counter `active_tasks` or a row's status stays as it was;
* *snapshots*: the consumer and its workflows work on rows as the producer read
  them;
* *redelivery*: a batch that was executed and not trimmed is executed again;
* *unreliable messages*: pub/sub keeps nothing for a subscriber that is away;
* *two stores written one after the other*: Redis and then the stream, a set of
  constraints and then the record, an UPDATE and then an INSERT;
* *layers that translate each other's results*: an error goes through up to four
  enums, a country through three formats, a setting has three sources, and the
  tables of one direction are written independently of those of the other;
* *narrow numbers*: counts in `i32`, milliseconds in `u32`, percentages in `f32`,
  amounts in `f64`.

`PROJECT.json` lists each hazard at its line with the property that would catch
it.

What makes each part correct:

* Drainer – nothing leaves a stream before it was executed; a partition's
  queries are executed in order; one handler per partition as long as the flag
  lives; after redelivery the rows end as if every query had run once; every
  executable entry is drained; a shutdown waits for handlers and completes.
* Scheduler – one producer at a time; no process is run twice at once; retries
  are counted; a finished process is not on its way any more and stays finished;
  a created task is started; no row is left behind in Processing.
* Cache – an old value is only there while its invalidation is on its way; once
  writes stop all caches agree with the database.
* KV store – no two inserts with the same constraint reach the database; a read
  shows at least what was acknowledged; what Redis shows is on its way to the
  database; an acknowledged write arrives there.
* Rows – NotFound is only answered for what was absent; requests do not wait for a connection while they hold one.
* Health checks – checks at the same time do not make each other fail, and leave
  a bounded rest behind.
* Start-up – a drainer that runs has what it needs, an application waits for its
  locks no longer than they are held, every secret is in its place; good settings
  are accepted wherever they come from.
* Errors – the store's faults are not blamed on the client, and its answers about
  the client's data are not reported as faults; an error is sent with the code it
  was declared with.
* Values – a round trip through any chain of conversions changes nothing but what
  the format cannot express; a task is retried as configured.

## 2. Modules

| Module | What it is |
|---|---|
| `WorkQueue` | what the drainer promises: a queue per partition, in order, at least once |
| `Drainer`, `MCDrainer`, `DrainerProofs` | the drainer, with its streams, flags, rows, crashes and restarts; `ImplementsQueue` says that it implements `WorkQueue` |
| `Scheduler`, `MCScheduler`, `SchedulerProofs` | producers, consumers, workflows, process tracker rows |
| `Cache`, `MCCache`, `CacheProofs` | the two-level cache of one key |
| `KvStore`, `MCKvStore`, `KvStoreProofs` | `kv_wrapper`, command by command, with the drainer as `WorkQueue` shows it and the health of the connection |
| `Records`, `RecordsProofs` | rows of api keys and users under concurrent requests, over a pool of connections |
| `HealthCheck`, `HealthCheckProofs` | deep health checks at the same time |
| `Startup` | settings, validation, secrets, start of the drainer and of the application |
| `ErrorPath` | an error from a store to the response |
| `RetrySchedule`, `RetryScheduleProofs` | delays of retries, with the width of their counts |
| `Money` | currencies, conversions of amounts, percentages |
| `Timestamps` | date formats |
| `Countries` | the seven tables of country codes |
| `Components`, `MCComponents`, `ComponentsProofs` | the last eight side by side, a small instance of them, and the theorems about them |

`Components` puts eight components side by side.  They share no state: a behaviour
is one of the component its variable `focus` names, whose variables are mapped to
the first of the slots `x1` … `x9`.  Each property there is the component's own,
guarded by its focus; its assumptions are those the eight need.  `MCComponents`
gives the constants their values for one run.

Conventions.  Every awaited call is one action.  An action `XFails` is the call
that reports an error, with and without the effect the call may have had; it
consumes one unit of the bound `MaxFaults`.  A failed statement of `Records` changes
nothing: one that was committed and whose answer is lost is, to every other request,
the same request after it was done.  Definitions marked as mutants are
plausible mistakes in the code; they are not part of the specifications, and each
property is shown to fail when one of them replaces the definition it follows.

### Drainer

| State | Code |
|---|---|
| `log`, `stream` | entries of the streams in the order of their XADD; ids are 1, 2, 3, … |
| `flag` | `{shard_i}_drainer_stream_flag`, SET NX with an expiry |
| `row` | the entry that last wrote a row |
| `loop`, `idx`, `running`, `active`, `listener` | `Handler::spawn`'s loop and `stream_index`, the fields of `Handler`, `shutdown_listener` |
| `pc`, `on`, `batch`, `last`, `trimmed` | a `drainer_handler` task: step, partition, entries read, `last_processed_id`, result of XTRIM |
| `done` | history: entries counted as processed |

`LoopCheck`, `TakeStream`, `StreamTaken`, `LockFails` are a turn of
`Handler::spawn`; `Start` to `Leave` are `drainer_handler` with `drainer`,
`trim_from_stream` (XTRIM and XDEL are separate actions) and
`make_stream_available`; `ShutdownRequest`, `ListenerSeesIdle`, `Close`, `Exit`
are the shutdown; `Crash`, `Exit` drop every task of the process and `Restart`
starts it again.

An entry is an insert or an update of one row, or garbage.  An insert of a row
that exists is a unique violation, which the code skips; an update of a row that
does not exist, garbage and any other error end the session at that entry.  At
this commit the enums `Insertable` and `Updateable` have no variant, so a real
entry cannot deserialize yet: the model follows the code of `drainer`,
`execute_query` and `DBOperation::execute` as it is written for entries that do.

`SafeTTL` says whether a flag outlives the handler that relies on it.  Its expiry
is the Redis default TTL, 300 s; a session of 100 entries normally takes far
less.  What needs it is stated under it, the rest is checked and proved without.

`ImplementsQueue` is `WorkQueue`'s specification with `pending` read as the
entries of a stream that are not done: reads, repeated executions, trims, flags,
crashes and restarts are stuttering steps, an XADD is an `Enqueue`, and counting
an entry as processed for the first time is an `Execute`.

### Scheduler

| State | Code |
|---|---|
| `status`, `retry`, `business`, `window` | a `process_tracker` row; `window` is its schedule time against the fetch window |
| `lock` | the producer lock |
| `queue`, `group` | what the consumer group has still to deliver, and whether it exists |
| `ppc`, `fetched`, `batch` | a producer: step, tasks still to divide, the batch it appends |
| `cpc`, `received`, `work` | a consumer: step, the batch it read, its workflows with their snapshots |

`AcquirePtLock` … `ReleasePtLock` follow `lock_acquire_release`,
`fetch_producer_tasks`, `divide_and_append_tasks` and
`update_status_and_append`, with its error path (`RestoreStatus`).  `CreateGroup`
… `JoinAll` follow `consumer_operations`, `get_batches`, `fetch_consumer_tasks`.
Workflows are the application's and not in the repository: one ends with a finish,
a retry, a reset, without an update, with an error (then `error_handler` and the
last resort of `execute_workflow`) or with a panic.  The order of the chunks is
left open, which allows every order the database may return.  The stop signal of
either loop is only read between operations, which are awaited inline: a stopped
loop is a loop that takes no more steps, so it needs no action.

### Cache

One key: `db`, `redis`, `memory[process][cache]`, the messages each listener has
to receive (`inbox`) and where it stands.  A value is the number of its write.
Readers step through `get_or_populate_in_memory` (or `get_or_populate_redis`
alone), writers through `redact_cache` or `publish_and_redact`, of which each
write chooses one, listeners through `on_message`.  `late` is a history variable:
the places that a reader filled with an old value when no invalidation of them
was to come any more, the known race of a cache that is filled with an
unconditional SET.  It makes the invariants exact: an old value is due, or late,
and nothing else.

### KvStore

| State | Code |
|---|---|
| `kv`, `timed`, `members` | the records in Redis, which of them expire, `unique_constraint:<table>` |
| `log`, `trimmed`, `executed`, `db` | the drainer stream, how much of it was removed and executed, the rows |
| `op` | a request in `kv_wrapper`: operation, record, step, value written or read |
| `link`, `signalled`, `available` | the pool's connection, the signal of `on_error`, `is_redis_available` |
| `floor`, `seen`, `early`, `torn` | history: the latest acknowledged value; records a client knows of; records updated before their insert was acknowledged; records with a write that failed after Redis had it |

A record is a field of a hash or a plain key.  `Check`, `SetHashFields`,
`SetHashFieldIfNotExist`, `SetKeyIfNotExist`, `SetExpiry`, `Push`, `Get` and
`DatabaseGet` are the awaited commands.  HSET and its EXPIRE are separate; HSetNx
asks for its constraint before it writes and SetNx after, as in the code.  `Fail`,
`PushLost`, `ScanFails`, `Crash`, `Disconnect` and `Redeliver` are the faults.
`on_error` sends the shutdown signal and then clears the flag, which nothing sets
again.  Only the drainer listens to that signal; `AppState::with_storage` drops its
sender (`app.rs:99`), so an application that lost Redis refuses until somebody starts
it again: `Restart` is a step that may happen and need not.

No client outside the crate calls `kv_wrapper` at this commit.  The model's client
is the one its types ask for: it updates a record it has inserted or read, and a
record has one constraint.

### Records

`rows` is the table, `req` what each request is doing, `free` and `holds` the pool.
`RetrieveApiKey` … `DeleteUser` are the services' functions; they become the
statements of `generics.rs` (`Find`, `Filter`, `Insert`, `Update`,
`UpsertInserts`, `Delete`, `Authenticate`), each with its `Connect` and the
`Release` of its connection.  `ApiKeyInternal` and `UserInternal` are the
`From<...Update>` conversions: which columns a variant writes.  `ErrorOf` is what
a failed statement is reported as: `generic_filter` reports any error as NotFound.

### HealthCheck

`health_check.rs`: `CheckDb`, `RedisConnection`, `SetTestKey`, `GetTestKey`,
`DeleteTestKey`, `AppendEntry`, `Read`, `Trim`, `Answer`, for several checks on one
key and one stream, which is the set of its entries' numbers.

### Startup

`file` and `environ` give settings or none, `conf` is what they become:
`WithConfigPath` (sources, defaults of a section that nobody mentions, the
deserialization of `LockSettings` in `u32`), `Validate` (the drainer's validators,
section by section), `MakeSecretsClient`, `FetchRawSecrets` (one section of `todo` at a
time, bound by position), `SetUpDrainer` or `SetUpApplication`.  The two programs have
their own defaults and secrets.

Nothing in this repository calls the application's `Settings::validate` before
`AppState::with_storage` (nor, at this commit, `with_storage` itself), so the
application goes from its settings to its client without validation, and
`ApplicationInvalid`, the validators of `validations.rs`, is a predicate that the
properties use.  The sections of `data_models` behind the features `olap`, `kv_store`
and `email`, which its `Cargo.toml` does not declare, are left out; KMS and Vault are
what the drainer's feature `release` brings.  A setting is a number, of which 0 is
zero, false and the empty string, and a blank one where the validator trims
(`ApiKeys::validate` does not).  A configuration is the usual one with up to two
settings of a section changed, in either source, or a section left out.

### ErrorPath

An error is a variant of an enum, possibly with one inside; a step is one of the
conversions a caller applies.  `cause` remembers whether the store failed, the
object was absent or a duplicate, which the conversions cannot know.  The tables
are `ApiErrorResponse`'s declared codes and the codes and statuses of its
`ErrorSwitch`, and those of the user errors.  `errors/user.rs` is behind the feature
`olap`, which `data_models` does not declare at this commit: no build has that part.

### RetrySchedule, Money, Timestamps, Countries

Pure code, each followed by a small machine that uses it as a caller would: a
workflow that asks for its next delay until there is none; an amount that goes out
in its base unit and comes back; a point in time that is copied from format to
format; a country that is sent on in other formats.  The reference definitions are
`RetrySchedule.Configured`, the schedule written out, `Configures`, how often it has
an interval, and the exact products in `Money`'s properties.

Amounts go through binary floats.  A float of `Money` is a mantissa over a power of two
and every operation (parse, quotient, product) rounds to the nearest of its precision,
ties to the even, as IEEE 754 asks; `{:.2}` rounds the binary fraction to hundredths.
The precisions `F32` and `F64` are constants, 2^24 and 2^53 in the program, and are
scaled down together with the largest `u32` and the largest amount: 2^8 and 2^15
beside 4095 and 8191.  So what a real `f32` does to amounts of millions happens here to
thousands.  Amounts below -2^53, which `as f64` would round, are left out.

## 3. Runs

| Run | Instance | Result |
|---|---|---|
| `drainer_safety` | 2 processes with a slot each, 1 partition, 3 entries of one row, 1 fault, 1 shutdown, `SafeTTL` (566,000 states) | pass: `TypeOK`, `MutualExclusion`, `DrainedRowIsLatest`, `ImplementsQueue` |
| `drainer_liveness` | 1 process with 2 slots, 2 partitions, 2 entries, garbage, 1 fault, flags that expire under live handlers (434,000) | pass: `EventuallyDrained`, `ActiveTasksCounted`, `NoLoss`, `ProcessedInOrder` |
| `drainer_exit` | 1 process, a shutdown, no fault | violation of `GracefulExit` |
| `drainer_shutdown` | 1 process, a shutdown and a panic | violation of `ShutdownCompletes` |
| `scheduler_safety` | 2 producers, 2 consumers, 2 processes, batches of 2, 2 faults with hidden commits, no group at first | pass: `TypeOK`, `ProducersExclude`, `NoDoubleRun`, `SnapshotFresh` |
| `scheduler_quiet` | the same with batches of 1, 1 fault, the group there, late tasks, no hidden commits (340,000) | pass: `FinishedIsQuiet`, `NoLimbo`, `EventuallyStarted` |
| `scheduler_finish` | 1 producer, 1 consumer, 1 process, 1 fault | violation of `FinishIsFinal` |
| `cache` | 2 processes, a reader in each, a writer, messages of kind Config and All, both ways to invalidate mixed, 1 fault (125,000) | pass: `TypeOK`, `StaleRedisIsDue`, `StaleMemoryIsDue`, `EventuallyFresh` |
| `kv_safety` | 2 clients, a hash and a plain record that share a constraint, 3 writes, 1 fault, `SafeTTL` (1,072,000) | pass: `TypeOK`, `UniqueInserted`, `ReadsAcknowledged`, `RedisIsLogged`, `BlockedIsEarly` |
| `kv_liveness` | 2 clients, a hash record (246,000) | pass: `EventuallyPersisted` |
| `components` | `Records`: 2 requests, 2 ids, 2 tokens, a pool of 1, 1 fault; `HealthCheck`: 2 checks, reads of 3, 6 appends, 3 faults; `Startup`: both programs, the three backends; `ErrorPath`: every error that can be raised; `RetrySchedule`: counts of 5 bits, negative ones too, lists of up to 4; `Money`, `Timestamps`, `Countries`: every currency, format and country (1,112,000 states together) | pass: the 12 properties below |
| `errors_code` | `ErrorPath` by itself | violation of `CodeAsDeclared` |

The properties of `components`, by module:

* `Records`: `NoHoldAndWait`, `NotFoundIsHonest`
* `HealthCheck`: `HealthyIsReported`, `LeftoverBounded`
* `Startup`: `SecretsAreOwn`, `RunsOnlyUsable`
* `ErrorPath`: `StatusFitsCause`
* `RetrySchedule`: `TriedAsConfigured`
* `Money`: `AmountSurvives`, `SurchargeCovers`
* `Timestamps`: `InstantSurvives`
* `Countries`: `CodeSurvives`

Bounds.  Two processes, slots, producers, consumers, readers or requests are what a
race takes; two partitions let one block while the other goes on; three entries of
one row are an insert, an update and one more, in two batches; three writes of two
records are an insert each and an update that can overtake; a fault and a shutdown,
or two faults, are one that leaves something behind and one that hits the recovery;
a pool of one connection is the smallest that two statements can exhaust; a read of
three entries is exceeded by the leftovers of three failed checks.  The widths of
numbers are scaled down (5 bits for an `i32`, 4095 for a `u32`, 8 and 15 bits for the
mantissas of floats) so that a few values overflow them or are rounded.  Every bound is a named constant.  TLC checks deadlock where the
loops poll; `kv_safety`, `kv_liveness` and `components` may stop, when the bound on
writes is reached and when a request, a start or a value has come to its end.

Fairness.  Weak fairness of every task, loop, listener and consumer: tokio polls
each task that is ready and the loops sleep and poll again.  Weak fairness of
expiries (Redis and moka expire by time) and of the restart of a process that
ended (its orchestrator, in `Drainer`).  `EventuallyStarted` also assumes that workflows
end and that time brings a task into the window, not that it takes one out of it.
`KvStore` assumes weak fairness of the steps of a request under way and of the
drainer's execution and trim (what `EventuallyDrained` shows), and none of `on_error` or
of a restart.  None is assumed of requests, messages and faults.  `ShutdownSpec` gives the listener strong fairness, more than its
polling has: the violation of `ShutdownCompletes` does not come from a listener
that misses the right moments.

What the violations show (`PROJECT.json`, findings):

* `GracefulExit` – the listener waits until `active_tasks` is zero and only then
  stops the loop, which goes on spawning until that moment; and a task that was
  spawned is not counted before it first runs.  A handler can be cut off in the
  middle of a batch.  `NoLoss` and `DrainedRowIsLatest` hold all the same.
* `ShutdownCompletes` – a panic in `pg_connection` leaks a count.
* `FinishIsFinal` – the error path of an append whose reply was lost sets a
  finished process back to Processing, where nothing fetches it again.  A lock
  that expires under its holder has the same effect (`SafeTTL = FALSE`).
* `CodeAsDeclared` – the code in the attribute of a variant (`api_error.rs`) and the one
  `switch` sends (`errors/transformers.rs`) differ for `ClientSecretExpired` (declared
  IR_08, sent IR_19), and also for `NotSupported`, `DisputeFailed`, `ResourceBusy`,
  `ConfigNotFound`, `MandateUpdateFailed`, `MandateSerializationFailed`,
  `MandateDeserializationFailed`, `DisputeNotFound`, `FileNotFound`, `FileNotAvailable`,
  `DisputeStatusValidationFailed`, `InvalidCardIin`, `InvalidCardIinLength`,
  `FileValidationFailed`, `MissingFile`, `MissingDisputeId`, `MissingFilePurpose`,
  `MissingFileContentType`, `WebhookInvalidMerchantSecret`, `CurrencyNotSupported` and
  `CurrencyConversionFailed`.

Exceptions that the properties name.  Where the code keeps its promise only up to a
known case, the property states the case, so that the run shows there is no other:

* `RedisIsLogged` leaves out `torn` records (the write failed or the process ended
  between Redis and the stream: nothing takes the value back) and a plain key whose
  constraint was taken, which SetNx has written before it asks.
* `ReadsAcknowledged` and `EventuallyPersisted` leave out records of which two
  updates overtook each other between HSET and XADD (`Overtaken`); a scan takes an
  error for an empty hash.  `BlockedIsEarly`: an update that a client made of a
  record whose insert was not acknowledged can reach the stream first, and then the
  drainer stands before it.
* `StatusFitsCause` leaves out `KnownBlame`: a failed SADD is reported as a
  duplicate, and `ApplicationError` always answers 400.  For the client's errors it
  holds exactly outside `Mismatched`: the API's helpers match `ValueNotFound` and
  `DuplicateValue`, the others the `DatabaseError` inside, and an error prepared for
  one of them is a 500 for the other.
* `EventuallyStarted` leaves out a task whose time left the fetch window before a
  producer read it, which no producer fetches any more, and behaviours with a failed
  call, which may leave its row in Processing.
* `RunsOnlyUsable` asks an application only for a wait that is not longer than its lock
  is held; that it retries at all is stated for settings that `validate` would take,
  since nothing makes it take them.
* `AmountSurvives` does not say that what comes back is whole: `to_currency_lower_unit`
  prints the product of two `f64` with every digit it has, and 29 US cents, written
  "0.29", come back as "28.999999999999996" (`enums.rs:591`).  It says that the amount is
  the nearest whole number, so that a caller that rounds gets it and one that parses an
  integer fails.  Currencies of three decimals are formatted with two and may be off by
  half a hundredth.  `InstantSurvives` allows the custom date format to refuse what
  it wrote itself.
* `LeftoverBounded` is about fewer checks at a time than one XREAD returns entries
  (ten).  Ten or more that all append and read before the first of them trims add at
  least ten entries and take nine away: the proof below would not go through, and TLC
  shows it with three checks and reads of three.  In step for ever, they would let the
  test stream grow for ever.
* `TriedAsConfigured` promises the configured schedule, attempt by attempt, if the
  counts are not negative and add up within an `i32`.  If they do not add up, the sum
  wraps and intervals are skipped; then it promises that no interval is used more
  often than configured.  Negative counts are not checked by the code and have no
  schedule to compare with; for them, too, it promises that retries come to an end.
* `SurchargeCovers` allows two parts in 2^24, what an `f32` and the two operations in
  `f64` can lose, above and below.  On small amounts that is at most the
  unit that `ceil` adds to a product that was whole; on larger ones the surcharge can be
  too small: 0.7% of 10,000,143 is 70,001.001 and `apply_and_ceil_result` answers 70,001.
  The comment at `types.rs:59` places the first rounding at i64::MAX / 10000.

## 4. Theorems

TLAPS proves, for all values of the constants that satisfy the assumptions in the
modules (any number of processes, tasks, partitions, keys, producers, consumers,
readers, faults):

| Module | Theorem | States |
|---|---|---|
| `DrainerProofs` | `Typing` | `TypeOK` |
| | `NothingLost`, `OrderKept` | `NoLoss`, `ProcessedInOrder` |
| | `Exclusion` | `MutualExclusion`, assuming `SafeTTL` |
| | `QueueImplemented` | `ImplementsQueue`: the refinement of `WorkQueue` |
| | `TasksCounted` | `ActiveTasksCounted` |
| | `RowsAreLatest` | `DrainedRowIsLatest`, assuming `SafeTTL` |
| `SchedulerProofs` | `SchedulerTyping` | `TypeOK` |
| | `ProducerExclusion`, `SingleRun`, `RetryCounted` | `ProducersExclude`, `NoDoubleRun`, `SnapshotFresh` |
| | `FinishQuiet`, `NothingInLimbo` | `FinishedIsQuiet`, `NoLimbo` |
| `CacheProofs` | `CacheTyping` | `TypeOK` |
| | `RedisDueOrLate`, `MemoryDueOrLate` | `StaleRedisIsDue`, `StaleMemoryIsDue`, for any mix of the ways to invalidate |
| `KvStoreProofs` | `KvTyping` | `TypeOK` |
| | `InsertedOnce`, `ShownIsLogged` | `UniqueInserted`, `RedisIsLogged` |
| | `BlockedOnlyEarly`, `AcknowledgedIsRead` | `BlockedIsEarly`, `ReadsAcknowledged` |
| `ComponentsProofs` | `ConnectionsKept`, `FoundIfThere` | `NoHoldAndWait`, `NotFoundIsHonest`, for a pool of any size |
| | `ChecksIndependent`, `StreamBounded` | `HealthyIsReported`, `LeftoverBounded`, for finitely many checks |
| | `UsableKept`, `SecretsKept` | `RunsOnlyUsable`, `SecretsAreOwn`, for any lock settings, backends and widths, validated or not |
| | `StatusFits` | `StatusFitsCause`, for chains of any length |
| | `TriedAsConfiguredAlways` | `TriedAsConfigured`, for any mappings, merchants and width |
| | `AmountKept`, `SurchargeCovered` | `AmountSurvives`, `SurchargeCovers`, for any amounts, rates and precisions |
| | `InstantKept` | `InstantSurvives`, for any resolution, times and offsets |
| | `CodeKept` | `CodeSurvives`, for chains of any length |

`RecordsProofs`, `HealthCheckProofs` and `RetryScheduleProofs` prove the same of the
three components by themselves.  `ComponentsProofs` takes their theorems over: it
instantiates each proof module with the slots of `Components`, and a step of
`Components` whose focus is on the component is a step of the component.

The assumptions are the named `ASSUME`s of the modules, which TLC evaluates on every
run, and `SafeTTL` where the property is only promised if flags outlive their handlers
(other properties have it as a premise of their own).  Those of `Components` are: a
pool has a natural number of connections; finitely many checks run at a time; the
largest `u32` is at least 2000, the usual delay of a lock; lock settings are unsigned,
as their types say; a mapping is a number and two lists of integers; amounts, rates,
times and offsets are whole; a second is a number of milliseconds and a millisecond a
number of ticks.  Of the precisions of floats: `F64` holds every amount exactly, exceeds
six times the largest `u32` (and five), and is at least four times `F32`; all of it is
true of 2^53, 2^32, i64::MAX / 10000 and 2^24.  Nothing is assumed of `Scales` but that
they are positive: a result that exists is near, and the run shows that it exists.

The arguments.

*Drainer, queue.*  `NoLoss` is not inductive: XTRIM deletes whatever is older than
the handler's last id, also what this handler never read.  `QueueInv` adds that a
stream holds only entries of its partition (`StreamsOwn`), that whatever is at or
before a handler's cursor is done (`CursorIsDone`), and that a batch has no gap:
an entry older than some entry of the batch is in the batch or done
(`BatchHasNoGap`).  A read returns a prefix of what is left, so the last holds when
it is taken; entries only leave the stream when done, so it stays true although
other handlers trim in the meantime.  Neither needs the flag: two handlers on one
partition repeat work and lose nothing.

*Drainer, refinement.*  `QueueInv` is also what the mapping to `WorkQueue` needs:
an XADD adds a pending entry at the end, an entry that is processed for the first
time is the oldest pending one of its partition (`OrderKept`, step by step), and no
other step changes what is pending, since only what is done leaves the stream.

*Drainer, count.*  `CountInv` adds that the handlers that count are finitely many,
without which their cardinality says nothing.  Each step moves at most one handler
into or out of the counted steps, and the counter with it; a panic takes the
handler out and leaves the counter, hence at most and not equal.

*Drainer, rows.*  A batch that was not trimmed is executed again from its first
entry and writes older values on the way.  `RowInv` says why that leaves no trace:
a stream holds the newer part of its partition (`StreamIsSuffix`), a batch is the
oldest part of what is there (`BatchIsOldest`), what left the stream is not newer
than the row (`RemovedAreWritten`), and neither is what the handler of the
partition has passed (`PassedAreWritten`).  The last needs the handler to be alone.

*Drainer, lock.*  `LockInv`: a handler between its SET NX and its DEL finds the
flag set (`FlagHeld`).  Under `SafeTTL` no other step clears it.

*Scheduler.*  `LockInv` is the same for the producer lock.  `NoDoubleRun` and
`SnapshotFresh` need to know where the copies of a process are.  `CopyInv` says:
what a step holds fits the step (`StepInv`); every process is in at most one
place among the producers' hands, the batches of the stream, the consumers' hands
and the running workflows (`PlaceInv`); and where it is its row's status says so
and the copy carries the row's retry count (`StatusInv`).  A step either moves a
copy from one place to the next or drops it, so one lemma (`ShrinkKeeps`) covers
all steps that only drop copies and five more the steps that move one.  An update
that reports an error may have been committed (`Hidden`): only then does a workflow
that failed no longer count as holding its process (`Held`).

*Scheduler, promises.*  `OnTheWay` is the union of those places.  `QuietInv`: as long
as no such update was hidden, nothing on its way belongs to a finished row; a
snapshot only gets on its way by a fetch, which takes New and Pending rows, and a
row is only finished by a workflow that thereby takes it off its way.  `CalmInv`, for
behaviours without a fault whose group exists: a row in Processing has a snapshot on
its way, and whatever is on its way is Pending in its business status, so that the
consumer's filter drops nothing.

*Cache.*  `Typed` adds to `TypeOK` that a reader about to fill a memory knows
which one and that a writer's target fits its mode; `ListenersLive` that only a
failure ends a listener.  With them "stale implies due or late" is inductive: a
write makes its own invalidation due, an invalidation that is carried out leaves
nothing stale or hands over to the next one, and a reader's fill is late exactly if
nothing is due.

*KV store.*  `OpInv` says what an operation is about at each of its steps; `BoundInv`
keeps the clients that may still write within the bound on values, which `TypeOK`
needs.  `UniqueInv`: the constraint of every insert in the stream, and of every
client past its check (`Holds`), is in `members`, and no two of them share it; SADD
is the step that tells them apart.  `RedisIsLogged` is inductive with the types:
between HSET and XADD the client that wrote has the value in its hand.  For the
drainer, `EarlyInv` says that an update of a record that is not early follows its
insert in the stream, and `DbInv` that the row is there once an entry was executed
and at least as new as each of them; a blocked update is then early.  For reads,
`ValueInv` says that what Redis shows is the newest value and that it forgets a
record only when nothing of it is left to drain, and `ReadInv` that a read which
falls through to the database asks for no more than what is settled there: an entry
at least as new was trimmed, which a redelivery cannot undo.  The attempt showed a
`CASE` of `Check` with overlapping guards, which TLC reads in order and the logic
leaves open; it is an `IF` now.

*Records.*  `HoldInv`: the requests with a connection are exactly those at a
statement (`AtWork`), and they and the idle connections add up.  `AliveInv`: while a
request is on its way and its row was there all the time, the row is there, and once
it has ended its result is not NotFound; a deletion is seen by every request that
names the row, an update leaves a row a row (`ChangedIsRow`), an upsert goes on to
insert only if it was told NotFound.

*Health checks.*  `CheckInv`: the stream is an interval that ends with the last entry
appended, and nobody trims above that, so a check at its XREAD finds an entry.
`LeftoverBounded` is about all the trims to come.  `TrimInv` says it of every subset:
if the checks of T trim and entry m is then the oldest, what remains is bounded by
failures and the checks not in T.  XREAD keeps it because a check trims either to
the newest entry or `ReadCount - 1` above the oldest, and T has fewer checks than
`ReadCount`.

*Retry schedules.*  What get_delay returns depends on sums over lists, which are
recursive functions.  They are proved without an induction theorem that takes an
operator: `NatSets` says that a set that contains 0 and with each number the next one
contains all numbers, and each induction names its set.  `Inv` says that the i-th delay
is what get_schedule_time gave for count i - 1.  If the counts fit, the sum that wraps
is the sum without a width, which does not decrease, so the first step that reaches a
count is the one in whose part of the written-out schedule it falls.  If they do not,
the attempts that a step serves still lie between its sum and that of the step before,
and wrapping only brings the two together: adding up over the steps with one interval,
there are at most as many attempts as configured (`AttemptsOfInterval`).
That retries end needs neither: a sum in an `i32` is at most `MaxI32`.

*Start-up.*  `StartupInv`: what a process has after reading its sources is a function of
them (`Settings`, `Retries`), it goes on only if nothing was rejected and, in a drainer
past its validation, nothing invalid, and only settings that are not the usual ones in
effect are refused.  `RunsOnlyUsable` is then about those functions: a setting that the
drainer accepts is not empty, whichever source or default it came from, and the retries
that LockSettings computes fit the expiry by the arithmetic of its division, which needs
no validation; that there is one needs it.
`SecretsInv`: each section with a secret is still in `todo` or has all its secrets in
their own fields; fetching the first one of `todo` finishes it and touches no other.

*Errors.*  `StatusFitsCause` speaks of answers only.  `ErrorInv` says where an error can
be by then: what a fault (`Fault`), an absent object (`Absent`) and a duplicate
(`Doubled`) can have become after the conversions so far, and that an error a caller
asked a helper about has become the client's answer or went a chain that loses it
(`Converted`).  Every conversion keeps it, so
it holds of chains of any length.

*Amounts.*  A rounded quotient or product is off by at most one part in its precision
(`RoundedIs`, `ProductIs`, from `NearestIs`).  Errors are carried as inequalities between
products of integers, `w * c <= (w + 3) * b`, so that no fraction is needed: two errors
of `F64` make at most three parts in it (`TwoErrors`), and one of `F32` with two of `F64`
less than two parts in `F32` (`CoarseError`).  `MoneyInv`: what is written is the amount
to the digits written (`Written`); an error of less than half a hundredth cannot reach the
next hundredth (`HundredthsNear`), and on the way back three parts of `F64` of a `u32` are
less than half a unit (`LowerUnitNear`).  A number that is whole in the units asked for is
not rounded (`RoundedWhole`), which a currency without decimals needs.  For a surcharge
`PercentageNear` bounds the product before, and `CeiledNear` the whole number after `ceil`,
which for a negative amount goes towards zero.

*Timestamps.*  `TimeInv`: a value is the instant itself, or cut to the millisecond or
to the second.  The lemmas are about `CutTo`: it yields the only multiple of the unit
within a unit below (`CutIs`), and cutting twice is cutting to the coarser
(`CutTwice`), which needs that one unit divides the other.

*Countries.*  `CountryInv`: a country that was read has, in the format it was sent in,
the code it was sent with, and a code that is written next is the code of such a
country.  Reading what was written finds the same country because every table is one to
one and the tables of the other directions are equal to it; that is proved of all seven
row by row.

The proofs led to changes of the model, none of which takes a behaviour away: counts of a
mapping may be negative, and `TriedAsConfigured` says exactly what an overflow may do.

Only model-checked: the liveness properties (`EventuallyDrained`, `EventuallyStarted`,
`EventuallyFresh`, `EventuallyPersisted`), since fairness and
ENABLED are out of the prover's reach, and the violations.  Every invariant of a passing
run is stated by a theorem.

## 5. What is not modelled

* Metrics, logging, tracing; `jobs_picked`, which only feeds a metric.
* Redis replication and failover; a command that is delayed beyond the crash of
  its sender.  A Redis command is atomic and has its effect before the client
  sees its answer, or not at all.
* `num_partitions = 0` (assumed away by `PartitionsAssumption`; the validation of
  the drainer's settings, which `Startup` has, does not exclude it).
* Entries that are pushed but whose ids are not in the order of the model's `log`:
  XADD with an automatic id is monotonic.
* Restarts of the processes of `Cache`, whose memory starts empty; several keys,
  which do not interact; replicas of the database that lag.
* The cleaner, which has no code (`reinitialize_limbo_processes` has no caller).
* `router`: its `configs` are commented out of `router/src/lib.rs`, `data_models` has
  those in use; routes and storage interface forward.  The mock database of
  `storage_impl` is a stand-in for tests.
* Cryptography, phone and e-mail validation, semantic versions (`common_utils`):
  out of reach of these tools, or a regular expression, with unit tests.  The static
  cache is a map behind one lock without a caller; the signal handler is `Drainer`'s
  `ShutdownRequest`.
* Clients of outside services (e-mail, files, KMS, Vault): I/O.  Of the secrets
  services, which one is made and whether a fetch succeeds is in `Startup`.
* `masking`, `router_derive`: wrapper types and macros that run at compile time.
* `schema.rs` is generated; tables without a service (invites and the rest), plain
  records and the enumerations with derived conversions have no behaviour of their
  own.

## 6. Plan

1. Done: `Drainer`, `Scheduler`, `Cache`, their runs and their first theorems.
2. Done: `WorkQueue` and the refinement, `KvStore`, `Records`, `HealthCheck`,
   `Startup`, `ErrorPath`, `RetrySchedule`, `Money`, `Timestamps`, `Countries`.
3. Done: the theorems of section 4: every invariant of every passing run, and the
   refinement of `WorkQueue`.
4. Done: floats in `Money` with their precision, and the application's start as the code
   has it, without validation.
5. Open: a caller of `AppState::with_storage` and of `kv_wrapper`, when the repository has
   one; the liveness properties stay with TLC.
