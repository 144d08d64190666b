-------------------------- MODULE ComponentsProofs --------------------------
(***************************************************************************)
(* Theorems about Components, for any values of its constants that meet    *)
(* its assumptions: what holds of a component holds of every behaviour     *)
(* that has it in focus.                                                   *)
(*                                                                         *)
(* The theorems about Records, HealthCheck and RetrySchedule come from     *)
(* their own proof modules; the small components (times, amounts, the      *)
(* start of a process) are proved here, in the slots of Components.        *)
(***************************************************************************)
EXTENDS Components, TLAPS

\* No step moves the focus.
LEMMA FocusKept ==
  ASSUME [Next]_vars
  PROVE  focus' = focus
BY DEF Next, vars

-----------------------------------------------------------------------------
(* Records *)

RecordsThm == INSTANCE RecordsProofs WITH
  MaxFaults <- MaxQueryFaults,
  table <- x1, rows <- x2, generated <- x3, req <- x4, free <- x5,
  holds <- x6, faults <- x7

\* Both instances of Records are the same specification.
LEMMA RecordsSame ==
  /\ RecordsOf!Init = RecordsThm!Init
  /\ RecordsOf!Next = RecordsThm!Next
  /\ RecordsOf!vars = RecordsThm!vars
  /\ RecordsOf!NoHoldAndWait = RecordsThm!NoHoldAndWait
  /\ RecordsOf!NotFoundIsHonest = RecordsThm!NotFoundIsHonest
BY Zenon DEF
  RecordsOf!Fields, RecordsThm!Fields, RecordsOf!Kinds, RecordsThm!Kinds,
  RecordsOf!NoRow, RecordsThm!NoRow, RecordsOf!vars, RecordsThm!vars, RecordsOf!Present,
  RecordsThm!Present, RecordsOf!None, RecordsThm!None, RecordsOf!NoUpdate,
  RecordsThm!NoUpdate, RecordsOf!NoId, RecordsThm!NoId, RecordsOf!Init, RecordsThm!Init,
  RecordsOf!UserInternal, RecordsThm!UserInternal, RecordsOf!ApiKeyInternal,
  RecordsThm!ApiKeyInternal, RecordsOf!Internal, RecordsThm!Internal,
  RecordsOf!Complete, RecordsThm!Complete, RecordsOf!Changed, RecordsThm!Changed,
  RecordsOf!Clash, RecordsThm!Clash, RecordsOf!Is, RecordsThm!Is, RecordsOf!Named,
  RecordsThm!Named, RecordsOf!Receive, RecordsThm!Receive, RecordsOf!Connect,
  RecordsThm!Connect, RecordsOf!ConnectTimesOut, RecordsThm!ConnectTimesOut,
  RecordsOf!Release, RecordsThm!Release, RecordsOf!Finish, RecordsThm!Finish,
  RecordsOf!Find, RecordsThm!Find, RecordsOf!Authenticate, RecordsThm!Authenticate,
  RecordsOf!Filter, RecordsThm!Filter, RecordsOf!Insert, RecordsThm!Insert,
  RecordsOf!UpdateNothing, RecordsThm!UpdateNothing, RecordsOf!Update,
  RecordsThm!Update, RecordsOf!UpsertInserts, RecordsThm!UpsertInserts,
  RecordsOf!Delete, RecordsThm!Delete, RecordsOf!ErrorOfFilter,
  RecordsThm!ErrorOfFilter, RecordsOf!ErrorOf, RecordsThm!ErrorOf, RecordsOf!QueryFails,
  RecordsThm!QueryFails, RecordsOf!Respond, RecordsThm!Respond, RecordsOf!Rows,
  RecordsThm!Rows, RecordsOf!RetrieveApiKey, RecordsThm!RetrieveApiKey,
  RecordsOf!ListApiKeys, RecordsThm!ListApiKeys, RecordsOf!InsertApiKey,
  RecordsThm!InsertApiKey, RecordsOf!UpsertApiKey, RecordsThm!UpsertApiKey,
  RecordsOf!UpdateApiKey, RecordsThm!UpdateApiKey, RecordsOf!DeleteApiKey,
  RecordsThm!DeleteApiKey, RecordsOf!AuthenticateApiKey, RecordsThm!AuthenticateApiKey,
  RecordsOf!RetrieveUser, RecordsThm!RetrieveUser, RecordsOf!ListUsers,
  RecordsThm!ListUsers, RecordsOf!InsertUser, RecordsThm!InsertUser,
  RecordsOf!UpdateUser, RecordsThm!UpdateUser, RecordsOf!DeleteUser,
  RecordsThm!DeleteUser, RecordsOf!Next, RecordsThm!Next, RecordsOf!NoHoldAndWait,
  RecordsThm!NoHoldAndWait, RecordsOf!NotFoundIsHonest, RecordsThm!NotFoundIsHonest,
  RecordsOf!Cardinality,
  RecordsThm!Cardinality, RecordsOf!Restrict, RecordsThm!Restrict

\* A behaviour with Records in focus is one of Records.
LEMMA RecordsStep ==
  /\ Init /\ focus = "Records" => RecordsThm!Init
  /\ [Next]_vars /\ focus = "Records" => [RecordsThm!Next]_(RecordsThm!vars)
<1>1. Init /\ focus = "Records" => RecordsThm!Init
  BY RecordsSame DEF Init
<1>2. ASSUME [Next]_vars, focus = "Records"
      PROVE  [RecordsThm!Next]_(RecordsThm!vars)
  <2>1. RecordsOf!Next <=> RecordsThm!Next
    BY RecordsSame
  <2>2. UNCHANGED vars => UNCHANGED RecordsThm!vars
    BY DEF vars, RecordsThm!vars
  <2>. QED BY <1>2, <2>1, <2>2 DEF Next
<1>. QED BY <1>1, <1>2

\* The connection pool: no connection is lost or given twice, and a request that
\* waits for one holds none, so that upserts cannot starve each other however
\* small the pool.
THEOREM ConnectionsKept == Spec => []NoHoldAndWait
<1>. DEFINE On == focus = "Records"
<1>1. Init /\ On => RecordsThm!Init
  BY RecordsStep
<1>2. [Next]_vars /\ On => [RecordsThm!Next]_(RecordsThm!vars)
  BY RecordsStep
<1>3. [Next]_vars => (On <=> On')
  BY FocusKept
<1>4. RecordsThm!Spec => []RecordsThm!NoHoldAndWait
  BY PoolAssumption, RecordsThm!ConnectionsKept
<1>5. RecordsThm!NoHoldAndWait => NoHoldAndWait
  BY RecordsSame DEF NoHoldAndWait
<1>6. ~On => NoHoldAndWait
  BY DEF NoHoldAndWait
<1>. HIDE DEF On
<1>. QED BY <1>1, <1>2, <1>3, <1>4, <1>5, <1>6, PTL DEF Spec, RecordsThm!Spec

\* A request of the services whose row existed from its start to its end is
\* never answered that there is no such row, whatever requests run beside it.
THEOREM FoundIfThere == Spec => []NotFoundIsHonest
<1>. DEFINE On == focus = "Records"
<1>1. Init /\ On => RecordsThm!Init
  BY RecordsStep
<1>2. [Next]_vars /\ On => [RecordsThm!Next]_(RecordsThm!vars)
  BY RecordsStep
<1>3. [Next]_vars => (On <=> On')
  BY FocusKept
<1>4. RecordsThm!Spec => []RecordsThm!NotFoundIsHonest
  BY PoolAssumption, RecordsThm!FoundIfThere
<1>5. RecordsThm!NotFoundIsHonest => NotFoundIsHonest
  BY RecordsSame DEF NotFoundIsHonest
<1>6. ~On => NotFoundIsHonest
  BY DEF NotFoundIsHonest
<1>. HIDE DEF On
<1>. QED BY <1>1, <1>2, <1>3, <1>4, <1>5, <1>6, PTL DEF Spec, RecordsThm!Spec

-----------------------------------------------------------------------------
(* HealthCheck *)

HealthCheckThm == INSTANCE HealthCheckProofs WITH
  MaxFaults <- MaxCheckFaults,
  key <- x1, stream <- x2, appended <- x3, check <- x4, clean <- x5, faults <- x6

\* Both instances of HealthCheck are the same specification.
LEMMA HealthCheckSame ==
  /\ HealthCheckOf!Init = HealthCheckThm!Init
  /\ HealthCheckOf!Next = HealthCheckThm!Next
  /\ HealthCheckOf!vars = HealthCheckThm!vars
  /\ HealthCheckOf!HealthyIsReported = HealthCheckThm!HealthyIsReported
  /\ HealthCheckOf!LeftoverBounded = HealthCheckThm!LeftoverBounded
BY Zenon DEF
  HealthCheckOf!vars, HealthCheckThm!vars, HealthCheckOf!Steps, HealthCheckThm!Steps,
  HealthCheckOf!Init, HealthCheckThm!Init, HealthCheckOf!Goes, HealthCheckThm!Goes,
  HealthCheckOf!Begin, HealthCheckThm!Begin, HealthCheckOf!CheckDb,
  HealthCheckThm!CheckDb, HealthCheckOf!RedisConnection, HealthCheckThm!RedisConnection,
  HealthCheckOf!SetTestKey, HealthCheckThm!SetTestKey, HealthCheckOf!GetTestKey,
  HealthCheckThm!GetTestKey, HealthCheckOf!DeleteTestKey, HealthCheckThm!DeleteTestKey,
  HealthCheckOf!ExpireTestKey, HealthCheckThm!ExpireTestKey, HealthCheckOf!AppendEntry,
  HealthCheckThm!AppendEntry, HealthCheckOf!AppendReplyLost,
  HealthCheckThm!AppendReplyLost, HealthCheckOf!StreamReadEntries,
  HealthCheckThm!StreamReadEntries, HealthCheckOf!Read, HealthCheckThm!Read,
  HealthCheckOf!TrimAfter, HealthCheckThm!TrimAfter, HealthCheckOf!TrimNothing,
  HealthCheckThm!TrimNothing, HealthCheckOf!Trim, HealthCheckThm!Trim,
  HealthCheckOf!Fails, HealthCheckThm!Fails, HealthCheckOf!Abort, HealthCheckThm!Abort,
  HealthCheckOf!Answer, HealthCheckThm!Answer, HealthCheckOf!Next, HealthCheckThm!Next,
  HealthCheckOf!HealthyIsReported, HealthCheckThm!HealthyIsReported,
  HealthCheckOf!LeftoverBounded, HealthCheckThm!LeftoverBounded,
  HealthCheckOf!Cardinality, HealthCheckThm!Cardinality

\* A behaviour with HealthCheck in focus is one of HealthCheck.
LEMMA HealthCheckStep ==
  /\ Init /\ focus = "HealthCheck" => HealthCheckThm!Init
  /\ [Next]_vars /\ focus = "HealthCheck" => [HealthCheckThm!Next]_(HealthCheckThm!vars)
<1>1. Init /\ focus = "HealthCheck" => HealthCheckThm!Init
  BY HealthCheckSame DEF Init
<1>2. ASSUME [Next]_vars, focus = "HealthCheck"
      PROVE  [HealthCheckThm!Next]_(HealthCheckThm!vars)
  <2>1. HealthCheckOf!Next <=> HealthCheckThm!Next
    BY HealthCheckSame
  <2>2. UNCHANGED vars => UNCHANGED HealthCheckThm!vars
    BY DEF vars, HealthCheckThm!vars
  <2>. QED BY <1>2, <2>1, <2>2 DEF Next
<1>. QED BY <1>1, <1>2

\* A deep health check of the drainer none of whose own calls failed answers
\* that all is well, whatever the other checks delete and trim meanwhile.
THEOREM ChecksIndependent == Spec => []HealthyIsReported
<1>. DEFINE On == focus = "HealthCheck"
<1>1. Init /\ On => HealthCheckThm!Init
  BY HealthCheckStep
<1>2. [Next]_vars /\ On => [HealthCheckThm!Next]_(HealthCheckThm!vars)
  BY HealthCheckStep
<1>3. [Next]_vars => (On <=> On')
  BY FocusKept
<1>4. HealthCheckThm!Spec => []HealthCheckThm!HealthyIsReported
  BY HealthCheckThm!ChecksIndependent
<1>5. HealthCheckThm!HealthyIsReported => HealthyIsReported
  BY HealthCheckSame DEF HealthyIsReported
<1>6. ~On => HealthyIsReported
  BY DEF HealthyIsReported
<1>. HIDE DEF On
<1>. QED BY <1>1, <1>2, <1>3, <1>4, <1>5, <1>6, PTL DEF Spec, HealthCheckThm!Spec

\* The test stream of the health checks does not grow with their number, if
\* fewer checks run at a time than an XREAD returns entries.
THEOREM StreamBounded == Spec => []LeftoverBounded
<1>. DEFINE On == focus = "HealthCheck"
<1>1. Init /\ On => HealthCheckThm!Init
  BY HealthCheckStep
<1>2. [Next]_vars /\ On => [HealthCheckThm!Next]_(HealthCheckThm!vars)
  BY HealthCheckStep
<1>3. [Next]_vars => (On <=> On')
  BY FocusKept
<1>4. HealthCheckThm!Spec => []HealthCheckThm!LeftoverBounded
  <2>1. HealthCheckThm!IsFiniteSet(Checks) /\ ReadCount \in Nat
    BY ChecksAssumption DEF IsFiniteSet, HealthCheckThm!IsFiniteSet
  <2>. QED BY <2>1, HealthCheckThm!StreamBounded
<1>5. HealthCheckThm!LeftoverBounded => LeftoverBounded
  BY HealthCheckSame DEF LeftoverBounded
<1>6. ~On => LeftoverBounded
  BY DEF LeftoverBounded
<1>. HIDE DEF On
<1>. QED BY <1>1, <1>2, <1>3, <1>4, <1>5, <1>6, PTL DEF Spec, HealthCheckThm!Spec

-----------------------------------------------------------------------------
(* RetrySchedule *)

RetryScheduleThm == INSTANCE RetryScheduleProofs WITH
  custom <- x1, default <- x2, merchant <- x3, retry <- x4, delays <- x5,
  over <- x6

\* Both instances of RetrySchedule are the same specification.
LEMMA RetryScheduleSame ==
  /\ RetryScheduleOf!Init = RetryScheduleThm!Init
  /\ RetryScheduleOf!Next = RetryScheduleThm!Next
  /\ RetryScheduleOf!vars = RetryScheduleThm!vars
  /\ RetryScheduleOf!TriedAsConfigured = RetryScheduleThm!TriedAsConfigured
BY Zenon DEF
  RetryScheduleOf!Wrap, RetryScheduleThm!Wrap, RetryScheduleOf!RetryMapping,
  RetryScheduleThm!RetryMapping, RetryScheduleOf!DefaultConnectorMapping,
  RetryScheduleThm!DefaultConnectorMapping, RetryScheduleOf!DefaultPmMapping,
  RetryScheduleThm!DefaultPmMapping, RetryScheduleOf!DefaultWebhookMapping,
  RetryScheduleThm!DefaultWebhookMapping, RetryScheduleOf!Defaults,
  RetryScheduleThm!Defaults, RetryScheduleOf!Steps, RetryScheduleThm!Steps,
  RetryScheduleOf!Cumulative, RetryScheduleThm!Cumulative, RetryScheduleOf!None,
  RetryScheduleThm!None, RetryScheduleOf!Some, RetryScheduleThm!Some,
  RetryScheduleOf!GetDelay, RetryScheduleThm!GetDelay, RetryScheduleOf!GetScheduleTime,
  RetryScheduleThm!GetScheduleTime, RetryScheduleOf!vars, RetryScheduleThm!vars,
  RetryScheduleOf!Init, RetryScheduleThm!Init, RetryScheduleOf!Mapping,
  RetryScheduleThm!Mapping, RetryScheduleOf!Schedule, RetryScheduleThm!Schedule,
  RetryScheduleOf!GiveUp, RetryScheduleThm!GiveUp, RetryScheduleOf!Next,
  RetryScheduleThm!Next, RetryScheduleOf!Configured, RetryScheduleThm!Configured,
  RetryScheduleOf!Sums, RetryScheduleThm!Sums, RetryScheduleOf!Counted,
  RetryScheduleThm!Counted, RetryScheduleOf!Fits, RetryScheduleThm!Fits,
  RetryScheduleOf!Uses, RetryScheduleThm!Uses, RetryScheduleOf!Configures,
  RetryScheduleThm!Configures, RetryScheduleOf!OnlyShortened,
  RetryScheduleThm!OnlyShortened, RetryScheduleOf!TriedAsConfigured,
  RetryScheduleThm!TriedAsConfigured, RetryScheduleOf!Cardinality,
  RetryScheduleThm!Cardinality, RetryScheduleOf!IsPrefix, RetryScheduleThm!IsPrefix,
  RetryScheduleOf!FlattenSeq, RetryScheduleThm!FlattenSeq

\* A behaviour with RetrySchedule in focus is one of RetrySchedule.
LEMMA RetryScheduleStep ==
  /\ Init /\ focus = "RetrySchedule" => RetryScheduleThm!Init
  /\ [Next]_vars /\ focus = "RetrySchedule" => [RetryScheduleThm!Next]_(RetryScheduleThm!vars)
<1>1. Init /\ focus = "RetrySchedule" => RetryScheduleThm!Init
  BY RetryScheduleSame DEF Init
<1>2. ASSUME [Next]_vars, focus = "RetrySchedule"
      PROVE  [RetryScheduleThm!Next]_(RetryScheduleThm!vars)
  <2>1. RetryScheduleOf!Next <=> RetryScheduleThm!Next
    BY RetryScheduleSame
  <2>2. UNCHANGED vars => UNCHANGED RetryScheduleThm!vars
    BY DEF vars, RetryScheduleThm!vars
  <2>. QED BY <1>2, <2>1, <2>2 DEF Next
<1>. QED BY <1>1, <1>2

\* get_schedule_time and its callers: whatever mapping is configured, a task is
\* tried exactly as it says when its counts add up within an i32; counts that
\* overflow only shorten the schedule, and no task is tried without end.
THEOREM TriedAsConfiguredAlways == Spec => []TriedAsConfigured
<1>. DEFINE On == focus = "RetrySchedule"
<1>1. Init /\ On => RetryScheduleThm!Init
  BY RetryScheduleStep
<1>2. [Next]_vars /\ On => [RetryScheduleThm!Next]_(RetryScheduleThm!vars)
  BY RetryScheduleStep
<1>3. [Next]_vars => (On <=> On')
  BY FocusKept
<1>4. RetryScheduleThm!Spec => []RetryScheduleThm!TriedAsConfigured
  BY WidthAssumption, MappingsAssumption, RetryScheduleThm!TriedAsConfiguredHolds
     DEF RetryScheduleThm!Lists
<1>5. RetryScheduleThm!TriedAsConfigured => TriedAsConfigured
  BY RetryScheduleSame DEF TriedAsConfigured
<1>6. ~On => TriedAsConfigured
  BY DEF TriedAsConfigured
<1>. HIDE DEF On
<1>. QED BY <1>1, <1>2, <1>3, <1>4, <1>5, <1>6, PTL DEF Spec, RetryScheduleThm!Spec

-----------------------------------------------------------------------------
(* Timestamps: at, format, time, wire and origin are x1, ..., x5 *)

\* What is cut off is less than a unit, and a whole number of units stays.
LEMMA CutType ==
  ASSUME NEW t \in Int, NEW n \in Nat \ {0}
  PROVE  /\ TimestampsOf!CutTo(t, n) \in Int
         /\ TimestampsOf!CutTo(t, n) <= t /\ t < TimestampsOf!CutTo(t, n) + n
         /\ \E q \in Int : TimestampsOf!CutTo(t, n) = n * q
<1>1. t % n \in 0..(n - 1)
  OBVIOUS
<1>2. t = n * (t \div n) + (t % n) /\ t \div n \in Int
  OBVIOUS
<1>. DEFINE q == t \div n
            r == t % n
<1>3. TimestampsOf!CutTo(t, n) = t - r
  BY DEF TimestampsOf!CutTo
<1>. HIDE DEF q, r
<1>4. r \in Int /\ 0 <= r /\ r < n
  BY <1>1 DEF r
<1>5. q \in Int /\ n * q \in Int /\ t = n * q + r
  BY <1>2 DEF q, r
<1>6. TimestampsOf!CutTo(t, n) = n * q
  BY <1>3, <1>4, <1>5
<1>. QED BY <1>3, <1>4, <1>5, <1>6

\* A whole number of units that is below one unit and above none is none.
LEMMA NoUnits ==
  ASSUME NEW n \in Nat \ {0}, NEW p \in Int, NEW q \in Int, n * p < n * q + n
  PROVE  p <= q
<1>. SUFFICES ASSUME p >= q + 1 PROVE FALSE
  OBVIOUS
<1>1. n * p >= n * (q + 1)
  OBVIOUS
<1>2. n * (q + 1) = n * q + n
  OBVIOUS
<1>3. n * p \in Int /\ n * q \in Int
  OBVIOUS
<1>. QED BY <1>1, <1>2, <1>3

\* The whole number of units just below t is what CutTo yields.
LEMMA CutIs ==
  ASSUME NEW t \in Int, NEW n \in Nat \ {0}, NEW p \in Int, n * p <= t, t < n * p + n
  PROVE  TimestampsOf!CutTo(t, n) = n * p
<1>1. PICK q \in Int : TimestampsOf!CutTo(t, n) = n * q
  BY CutType
<1>2. n * q <= t /\ t < n * q + n /\ n * q \in Int /\ n * p \in Int
  BY <1>1, CutType
<1>3. n * p < n * q + n /\ n * q < n * p + n
  BY <1>2
<1>4. p <= q /\ q <= p
  BY <1>3, NoUnits
<1>. QED BY <1>1, <1>4

\* Cutting again to the same unit, or to the coarser of two, loses nothing, and
\* cutting to the finer first makes no difference.
Nested(t, m, s) ==
  /\ TimestampsOf!CutTo(TimestampsOf!CutTo(t, s), s) = TimestampsOf!CutTo(t, s)
  /\ TimestampsOf!CutTo(TimestampsOf!CutTo(t, m), m) = TimestampsOf!CutTo(t, m)
  /\ TimestampsOf!CutTo(TimestampsOf!CutTo(t, s), m) = TimestampsOf!CutTo(t, s)
  /\ TimestampsOf!CutTo(TimestampsOf!CutTo(t, m), s) = TimestampsOf!CutTo(t, s)

LEMMA CutTwice ==
  ASSUME NEW t \in Int, NEW m \in Nat \ {0}, NEW k \in Nat \ {0}, NEW s \in Nat \ {0},
         s = m * k
  PROVE  Nested(t, m, s)
<1>. DEFINE fine   == TimestampsOf!CutTo(t, m)
            coarse == TimestampsOf!CutTo(t, s)
<1>1. PICK p \in Int : fine = m * p
  BY CutType
<1>2. PICK q \in Int : coarse = s * q
  BY CutType
<1>3. /\ fine \in Int /\ fine <= t /\ t < fine + m
      /\ coarse \in Int /\ coarse <= t /\ t < coarse + s
  BY CutType
<1>. HIDE DEF fine, coarse
<1>4. k * q \in Int /\ coarse = m * (k * q)
  BY <1>2
<1>5. coarse <= fine
  <2>1. m * (k * q) < m * p + m
    BY <1>1, <1>3, <1>4
  <2>2. k * q <= p
    BY <1>4, <2>1, NoUnits
  <2>3. m * (k * q) <= m * p
    BY <1>4, <2>2
  <2>. QED BY <1>1, <1>4, <2>3
<1>6. TimestampsOf!CutTo(coarse, s) = coarse
  BY <1>2, <1>3, CutIs
<1>7. TimestampsOf!CutTo(fine, m) = fine
  BY <1>1, <1>3, CutIs
<1>8. TimestampsOf!CutTo(coarse, m) = coarse
  BY <1>3, <1>4, CutIs
<1>9. TimestampsOf!CutTo(fine, s) = coarse
  <2>1. s * q <= fine /\ fine < s * q + s
    BY <1>2, <1>3, <1>5
  <2>. QED BY <1>2, <1>3, <2>1, CutIs
<1>. QED BY <1>6, <1>7, <1>8, <1>9 DEF fine, coarse, Nested

\* What an instant may have become: itself, or itself to the millisecond or to
\* the second.
Cuts == {x5, TimestampsOf!CutTo(x5, Milli), TimestampsOf!CutTo(x5, Second)}

\* A field holds one of them, and so does what is on the wire once its offset
\* is undone; only what the custom format wrote cannot be read.
TimeInv ==
  /\ x5 \in Int /\ x2 \in TimestampsOf!Formats
  /\ x1 \in {"field", "wire", "refused"}
  /\ x1 = "field" => x3 \in Cuts
  /\ x1 = "wire" => /\ TimestampsOf!Read(x4) \in Cuts
                    /\ TimestampsOf!Readable(x2, x4) \/ x2 = "custom"
  /\ x1 = "refused" => x2 = "custom"

\* The cuts of an instant are closed under cutting.
LEMMA CutsClosed ==
  ASSUME x5 \in Int, NEW t \in Cuts
  PROVE  /\ t \in Int
         /\ TimestampsOf!CutTo(t, Milli) \in Cuts /\ TimestampsOf!CutTo(t, Second) \in Cuts
         /\ t <= x5 /\ x5 < t + Second
<1>1. PICK k \in Nat \ {0} : Second = Milli * k
  BY ResolutionAssumption
<1>2. Milli \in Nat \ {0} /\ Second \in Nat \ {0}
  BY ResolutionAssumption
<1>. DEFINE fine   == TimestampsOf!CutTo(x5, Milli)
            coarse == TimestampsOf!CutTo(x5, Second)
<1>3. /\ TimestampsOf!CutTo(coarse, Second) = coarse /\ TimestampsOf!CutTo(fine, Milli) = fine
      /\ TimestampsOf!CutTo(coarse, Milli) = coarse /\ TimestampsOf!CutTo(fine, Second) = coarse
  <2>1. Nested(x5, Milli, Second)
    BY <1>1, <1>2, CutTwice
  <2>. QED BY <2>1 DEF Nested
<1>4. /\ fine \in Int /\ fine <= x5 /\ x5 < fine + Milli
      /\ coarse \in Int /\ coarse <= x5 /\ x5 < coarse + Second
  BY <1>2, CutType
<1>5. Milli <= Second
  <2>1. Milli * 1 <= Milli * k
    BY <1>2
  <2>. QED BY <1>1, <1>2, <2>1
<1>6. Cuts = {x5, fine, coarse}
  BY DEF Cuts
<1>. HIDE DEF fine, coarse
<1>7. CASE t = x5
  <2>1. TimestampsOf!CutTo(t, Milli) = fine /\ TimestampsOf!CutTo(t, Second) = coarse
    BY <1>7 DEF fine, coarse
  <2>. QED BY <1>2, <1>4, <1>6, <1>7, <2>1
<1>8. CASE t = fine
  <2>1. TimestampsOf!CutTo(t, Milli) = fine /\ TimestampsOf!CutTo(t, Second) = coarse
    BY <1>3, <1>8
  <2>. QED BY <1>2, <1>4, <1>5, <1>6, <1>8, <2>1
<1>9. CASE t = coarse
  <2>1. TimestampsOf!CutTo(t, Milli) = coarse /\ TimestampsOf!CutTo(t, Second) = coarse
    BY <1>3, <1>9
  <2>. QED BY <1>2, <1>4, <1>6, <1>9, <2>1
<1>. QED BY <1>6, <1>7, <1>8, <1>9

\* What is written can be read, but for the custom format, and holds the time
\* to the format's unit.
LEMMA WrittenIsRead ==
  ASSUME NEW f \in TimestampsOf!Formats, NEW t \in Int
  PROVE  /\ TimestampsOf!Read(TimestampsOf!Write(f, t))
              \in {TimestampsOf!CutTo(t, Milli), TimestampsOf!CutTo(t, Second)}
         /\ TimestampsOf!Readable(f, TimestampsOf!Write(f, t)) \/ f = "custom"
<1>1. TimestampsOf!CutTo(t, Milli) \in Int /\ TimestampsOf!CutTo(t, Second) \in Int
  BY CutType, ResolutionAssumption
<1>2. CASE f = "iso8601"
  BY <1>1, <1>2 DEF TimestampsOf!Write, TimestampsOf!Iso8601, TimestampsOf!Wire,
     TimestampsOf!Read, TimestampsOf!Readable
<1>3. CASE f = "without_timezone"
  BY <1>1, <1>3 DEF TimestampsOf!Write, TimestampsOf!WithoutTimezone, TimestampsOf!Wire,
     TimestampsOf!Read, TimestampsOf!Readable
<1>4. CASE f = "timestamp"
  BY <1>1, <1>4 DEF TimestampsOf!Write, TimestampsOf!Timestamp, TimestampsOf!Wire,
     TimestampsOf!Read, TimestampsOf!Readable
<1>5. CASE f = "custom"
  BY <1>1, <1>5 DEF TimestampsOf!Write, TimestampsOf!Custom, TimestampsOf!Wire, TimestampsOf!Read
<1>. QED BY <1>2, <1>3, <1>4, <1>5 DEF TimestampsOf!Formats

LEMMA TimeInvStep ==
  ASSUME TimeInv, [TimestampsOf!Next]_(TimestampsOf!vars)
  PROVE  TimeInv'
<1>1. x5 \in Int /\ x2 \in TimestampsOf!Formats
  BY DEF TimeInv
<1>2. ASSUME UNCHANGED x5 PROVE Cuts' = Cuts
  BY <1>2 DEF Cuts
<1>3. CASE UNCHANGED TimestampsOf!vars
  BY <1>3 DEF TimestampsOf!vars, TimeInv, Cuts, TimestampsOf!Read, TimestampsOf!Readable
<1>4. ASSUME NEW offset \in Offsets, TimestampsOf!ClientWrites(offset)
      PROVE  TimeInv'
  <2>1. /\ x1' = "wire" /\ x4' = TimestampsOf!Wire(x5 + offset, offset, TRUE, TRUE)
        /\ UNCHANGED <<x2, x5>>
    BY <1>4 DEF TimestampsOf!ClientWrites
  <2>2. offset \in Int
    BY ResolutionAssumption
  <2>3. TimestampsOf!Read(x4)' = x5 /\ TimestampsOf!Readable(x2, x4)'
    BY <1>1, <2>1, <2>2 DEF TimestampsOf!Wire, TimestampsOf!Read, TimestampsOf!Readable
  <2>4. x5 \in Cuts /\ Cuts' = Cuts
    BY <1>2, <2>1 DEF Cuts
  <2>. QED BY <1>1, <2>1, <2>3, <2>4 DEF TimeInv
<1>5. CASE TimestampsOf!Serialize
  <2>1. /\ x1' = "wire" /\ x4' = TimestampsOf!Write(x2, x3) /\ x3 \in Cuts
        /\ UNCHANGED <<x2, x5>>
    BY <1>5 DEF TimestampsOf!Serialize, TimeInv
  <2>2. /\ x3 \in Int
        /\ TimestampsOf!CutTo(x3, Milli) \in Cuts /\ TimestampsOf!CutTo(x3, Second) \in Cuts
    BY <1>1, <2>1, CutsClosed
  <2>3. TimestampsOf!Read(x4') \in Cuts /\ (TimestampsOf!Readable(x2, x4') \/ x2 = "custom")
    BY <1>1, <2>1, <2>2, WrittenIsRead
  <2>4. Cuts' = Cuts
    BY <1>2, <2>1
  <2>. QED BY <1>1, <2>1, <2>3, <2>4 DEF TimeInv
<1>6. CASE TimestampsOf!Deserialize
  <2>1. x1 = "wire" /\ x1' = "field" /\ x3' = TimestampsOf!Read(x4) /\ UNCHANGED <<x2, x5>>
    BY <1>6 DEF TimestampsOf!Deserialize
  <2>2. Cuts' = Cuts
    BY <1>2, <2>1
  <2>. QED BY <1>1, <2>1, <2>2 DEF TimeInv
<1>7. CASE TimestampsOf!DeserializeFails
  BY <1>1, <1>7 DEF TimestampsOf!DeserializeFails, TimeInv
<1>8. ASSUME NEW other \in TimestampsOf!Formats, TimestampsOf!Copy(other)
      PROVE  TimeInv'
  <2>1. x1 = "field" /\ x2' = other /\ UNCHANGED <<x1, x3, x5>>
    BY <1>8 DEF TimestampsOf!Copy
  <2>2. Cuts' = Cuts
    BY <1>2, <2>1
  <2>. QED BY <1>1, <2>1, <2>2 DEF TimeInv
<1>. QED BY <1>3, <1>4, <1>5, <1>6, <1>7, <1>8 DEF TimestampsOf!Next

\* The formats and zones of custom_serde.rs: however often and in whatever
\* formats an instant is written and read, it is at most the part of a second
\* below itself, and only the custom format refuses what was written.
THEOREM InstantKept == Spec => []InstantSurvives
<1>. DEFINE Inv == focus = "Timestamps" => TimeInv
<1>1. Init => Inv
  <2>1. TimestampsOf!Init => TimeInv
    BY ResolutionAssumption DEF TimestampsOf!Init, TimeInv, Cuts
  <2>. QED BY <2>1 DEF Init
<1>2. Inv /\ [Next]_vars => Inv'
  <2>. SUFFICES ASSUME TimeInv, [Next]_vars, focus = "Timestamps" PROVE TimeInv'
    BY FocusKept
  <2>1. [TimestampsOf!Next]_(TimestampsOf!vars)
    BY DEF Next, vars, TimestampsOf!vars
  <2>. QED BY <2>1, TimeInvStep
<1>3. Inv => InstantSurvives
  <2>. SUFFICES ASSUME TimeInv PROVE TimestampsOf!InstantSurvives
    BY DEF InstantSurvives
  <2>1. ASSUME x1 = "field" PROVE x5 - x3 \in 0..(Second - 1)
    <3>1. x5 \in Int /\ x3 \in Cuts
      BY <2>1 DEF TimeInv
    <3>2. x3 \in Int /\ x3 <= x5 /\ x5 < x3 + Second
      BY <3>1, CutsClosed
    <3>3. Second \in Int
      BY ResolutionAssumption
    <3>. QED BY <3>1, <3>2, <3>3
  <2>2. x1 = "refused" => x2 = "custom"
    BY DEF TimeInv
  <2>. QED BY <2>1, <2>2 DEF TimestampsOf!InstantSurvives
<1>. QED BY <1>1, <1>2, <1>3, PTL DEF Spec

-----------------------------------------------------------------------------
(* Money: stage, currency, sent, rate and value are x1, ..., x5 *)

LEMMA Multiply ==
  ASSUME NEW a \in Int, NEW b \in Int, NEW k \in Nat, a <= b
  PROVE  k * a <= k * b
OBVIOUS

LEMMA Cancel ==
  ASSUME NEW a \in Int, NEW b \in Int, NEW k \in Nat \ {0}
  PROVE  /\ k * a <= k * b => a <= b
         /\ k * a < k * b => a < b
<1>1. ASSUME b <= a PROVE k * b <= k * a
  BY <1>1, Multiply
<1>2. ASSUME b < a PROVE k * b < k * a
  <2>1. k * (b + 1) <= k * a
    BY <1>2, Multiply
  <2>2. k * (b + 1) = k * b + k
    OBVIOUS
  <2>. QED BY <2>1, <2>2
<1>. QED BY <1>1, <1>2

\* Two errors of one part in w add up to at most three above and two below.
LEMMA TwoErrors ==
  ASSUME NEW w \in Nat \ {0}, NEW a \in Nat, NEW b \in Nat, NEW c \in Nat,
         w * a <= (w + 1) * b, (w - 1) * b <= w * a,
         w * c <= (w + 1) * a, (w - 1) * a <= w * c
  PROVE  w * c <= (w + 3) * b /\ (w - 2) * b <= w * c
<1>1. w * c <= (w + 3) * b
  <2>1. w * (w * c) <= w * ((w + 1) * a)
    BY Multiply
  <2>2. (w + 1) * (w * a) <= (w + 1) * ((w + 1) * b)
    BY Multiply
  <2>3. w * ((w + 1) * a) = (w + 1) * (w * a)
    OBVIOUS
  <2>4. (w + 1) * ((w + 1) * b) <= w * ((w + 3) * b)
    <3>1. (w + 1) * ((w + 1) * b) = b * ((w + 1) * (w + 1))
          /\ w * ((w + 3) * b) = b * (w * (w + 3))
      OBVIOUS
    <3>2. (w + 1) * (w + 1) <= w * (w + 3)
      OBVIOUS
    <3>. QED BY <3>1, <3>2, Multiply
  <2>5. w * (w * c) <= w * ((w + 3) * b)
    BY <2>1, <2>2, <2>3, <2>4
  <2>. QED BY <2>5, Cancel
<1>2. (w - 2) * b <= w * c
  <2>1. w * ((w - 1) * a) <= w * (w * c)
    BY Multiply
  <2>2. (w - 1) * ((w - 1) * b) <= (w - 1) * (w * a)
    BY Multiply
  <2>3. w * ((w - 1) * a) = (w - 1) * (w * a)
    OBVIOUS
  <2>4. w * ((w - 2) * b) <= (w - 1) * ((w - 1) * b)
    <3>1. (w - 1) * ((w - 1) * b) = b * ((w - 1) * (w - 1))
          /\ w * ((w - 2) * b) = b * (w * (w - 2))
      OBVIOUS
    <3>2. w * (w - 2) <= (w - 1) * (w - 1)
      OBVIOUS
    <3>. QED BY <3>1, <3>2, Multiply
  <2>5. w * ((w - 2) * b) <= w * (w * c)
    BY <2>1, <2>2, <2>3, <2>4
  <2>. QED BY <2>5, Cancel
<1>. QED BY <1>1, <1>2

\* Errors of a coarse precision v and, twice, of a finer one w.
LEMMA CoarseError ==
  ASSUME NEW v \in Nat \ {0}, NEW w \in Nat, 4 * (v + 1) <= w,
         NEW a \in Nat, NEW b \in Nat, NEW c \in Nat,
         v * a <= (v + 1) * b, (v - 1) * b <= v * a,
         w * c <= (w + 3) * a, (w - 2) * a <= w * c
  PROVE  v * c <= (v + 2) * b /\ (v - 2) * b <= v * c
<1>1. v * c <= (v + 2) * b
  <2>1. v * (w * c) <= v * ((w + 3) * a)
    BY Multiply
  <2>2. (w + 3) * (v * a) <= (w + 3) * ((v + 1) * b)
    BY Multiply
  <2>3. v * ((w + 3) * a) = (w + 3) * (v * a) /\ v * (w * c) = w * (v * c)
    OBVIOUS
  <2>4. (w + 3) * ((v + 1) * b) <= w * ((v + 2) * b)
    <3>1. (w + 3) * ((v + 1) * b) = b * (w * v + w + 3 * v + 3)
          /\ w * ((v + 2) * b) = b * (w * v + 2 * w)
      OBVIOUS
    <3>2. w * v + w + 3 * v + 3 <= w * v + 2 * w
      OBVIOUS
    <3>. QED BY <3>1, <3>2, Multiply
  <2>5. w * (v * c) <= w * ((v + 2) * b)
    BY <2>1, <2>2, <2>3, <2>4
  <2>. QED BY <2>5, Cancel
<1>2. (v - 2) * b <= v * c
  <2>1. v * ((w - 2) * a) <= v * (w * c)
    BY Multiply
  <2>2. (w - 2) * ((v - 1) * b) <= (w - 2) * (v * a)
    BY Multiply
  <2>3. v * ((w - 2) * a) = (w - 2) * (v * a) /\ v * (w * c) = w * (v * c)
    OBVIOUS
  <2>4. w * ((v - 2) * b) <= (w - 2) * ((v - 1) * b)
    <3>1. (w - 2) * ((v - 1) * b) = b * (w * v - w - 2 * v + 2)
          /\ w * ((v - 2) * b) = b * (w * v - 2 * w)
      OBVIOUS
    <3>2. w * v - 2 * w <= w * v - w - 2 * v + 2
      OBVIOUS
    <3>. QED BY <3>1, <3>2, Multiply
  <2>5. w * ((v - 2) * b) <= w * (v * c)
    BY <2>1, <2>2, <2>3, <2>4
  <2>. QED BY <2>5, Cancel
<1>. QED BY <1>1, <1>2

\* A quotient rounded to a whole number is off by half of one at most.
LEMMA NearestIs ==
  ASSUME NEW n \in Nat, NEW d \in Nat \ {0}
  PROVE  /\ MoneyOf!Nearest(n, d) \in Nat
         /\ 2 * (MoneyOf!Nearest(n, d) * d - n) <= d
         /\ 2 * (n - MoneyOf!Nearest(n, d) * d) <= d
<1>. DEFINE q == n \div d
            r == n % d
<1>1. q \in Nat /\ r \in 0..(d - 1) /\ n = d * q + r
  OBVIOUS
<1>2. \/ MoneyOf!Nearest(n, d) = q /\ 2 * r <= d
      \/ MoneyOf!Nearest(n, d) = q + 1 /\ 2 * r >= d
  BY <1>1 DEF MoneyOf!Nearest
<1>. HIDE DEF q, r
<1>3. (q + 1) * d = d * q + d /\ q * d = d * q
  BY <1>1
<1>. QED BY <1>1, <1>2, <1>3

\* A float in a precision is off by one part in it at most.
LEMMA RoundedIs ==
  ASSUME NEW n \in Nat, NEW d \in Nat \ {0}, NEW w \in Nat \ {0},
         NEW f \in MoneyOf!Rounded(n, d, w)
  PROVE  /\ f.m \in Nat /\ f.s \in Nat \ {0}
         /\ w * (d * f.m) <= (w + 1) * (n * f.s)
         /\ (w - 1) * (n * f.s) <= w * (d * f.m)
<1>1. CASE n = 0
  BY <1>1 DEF MoneyOf!Rounded
<1>2. CASE n # 0
  <2>1. PICK s \in Scales : /\ f = [m |-> MoneyOf!Nearest(n * s, d), s |-> s]
                            /\ d * w <= 2 * n * s
    BY <1>2 DEF MoneyOf!Rounded
  <2>2. s \in Nat \ {0} /\ n * s \in Nat
    BY AmountsAssumption
  <2>. DEFINE e == n * s
              m == MoneyOf!Nearest(e, d)
  <2>3. m \in Nat /\ 2 * (m * d - e) <= d /\ 2 * (e - m * d) <= d
    BY <2>2, NearestIs
  <2>4. f.m = m /\ f.s = s /\ d * w <= 2 * e
    BY <2>1, <2>2
  <2>5. e \in Nat
    BY <2>2
  <2>. SUFFICES w * (d * m) <= (w + 1) * e /\ (w - 1) * e <= w * (d * m)
    BY <2>2, <2>3, <2>4
  <2>. HIDE DEF e, m
  <2>6. w * (2 * (m * d - e)) <= w * d /\ w * (2 * (e - m * d)) <= w * d
    BY <2>3, <2>5, Multiply
  <2>. QED BY <2>3, <2>4, <2>5, <2>6
<1>. QED BY <1>1, <1>2

\* So is a product, which is over the scale it lost.
LEMMA ProductIs ==
  ASSUME NEW x, x.m \in Nat, x.s \in Nat \ {0}, NEW by \in Nat,
         NEW p \in MoneyOf!Product(x, by)
  PROVE  \E t \in Nat \ {0} :
           /\ p.m \in Nat /\ p.s \in Nat \ {0} /\ t * p.s = x.s
           /\ F64 * (p.m * t) <= (F64 + 1) * (x.m * by)
           /\ (F64 - 1) * (x.m * by) <= F64 * (p.m * t)
<1>. DEFINE n == x.m * by
<1>1. PICK t \in Scales :
        /\ p = [m |-> MoneyOf!Nearest(n, t), s |-> x.s \div t]
        /\ t * (x.s \div t) = x.s /\ (t = 1 \/ t * F64 <= 2 * n)
  BY DEF MoneyOf!Product
<1>2. t \in Nat \ {0} /\ n \in Nat /\ F64 \in Nat
  BY AmountsAssumption
<1>3. x.s \div t \in Nat \ {0}
  BY <1>1, <1>2
<1>. DEFINE m == MoneyOf!Nearest(n, t)
<1>. HIDE DEF n
<1>4. m \in Nat /\ 2 * (m * t - n) <= t /\ 2 * (n - m * t) <= t
  BY <1>2, NearestIs
<1>5. p.m = m /\ p.s = x.s \div t
  BY <1>1
<1>. HIDE DEF m
<1>6. F64 * (m * t) <= (F64 + 1) * n /\ (F64 - 1) * n <= F64 * (m * t)
  <2>1. CASE t = 1
    <3>1. m * t = n
      BY <1>2, <1>4, <2>1
    <3>2. (F64 + 1) * n = F64 * n + n /\ (F64 - 1) * n = F64 * n - n
      BY <1>2
    <3>. QED BY <1>2, <3>1, <3>2
  <2>2. CASE t * F64 <= 2 * n
    <3>1. F64 * (2 * (m * t - n)) <= F64 * t /\ F64 * (2 * (n - m * t)) <= F64 * t
      BY <1>2, <1>4, Multiply
    <3>. QED BY <1>2, <1>4, <2>2, <3>1
  <2>. QED BY <1>1, <2>1, <2>2
<1>. QED BY <1>1, <1>2, <1>3, <1>4, <1>5, <1>6 DEF n

\* A number that is whole in the units asked for is held as it is.
LEMMA RoundedWhole ==
  ASSUME NEW c \in Nat, NEW d \in Nat \ {0}, NEW w, NEW f \in MoneyOf!Rounded(d * c, d, w)
  PROVE  f.s \in Nat \ {0} /\ f.m = c * f.s
<1>1. CASE d * c = 0
  <2>1. c = 0
    BY <1>1
  <2>. QED BY <1>1, <2>1 DEF MoneyOf!Rounded
<1>2. CASE d * c # 0
  <2>1. PICK s \in Scales : f = [m |-> MoneyOf!Nearest(d * c * s, d), s |-> s]
    BY <1>2 DEF MoneyOf!Rounded
  <2>2. s \in Nat \ {0} /\ c * s \in Nat /\ d * c * s = d * (c * s)
    BY AmountsAssumption
  <2>. DEFINE e == c * s
              m == MoneyOf!Nearest(d * e, d)
  <2>3. d * e \in Nat /\ e \in Nat
    BY <2>2
  <2>4. m \in Nat /\ 2 * (m * d - d * e) <= d /\ 2 * (d * e - m * d) <= d
    BY <2>3, NearestIs
  <2>5. f.m = m /\ f.s = s
    BY <2>1, <2>2
  <2>. SUFFICES m = e
    BY <2>2, <2>5
  <2>. HIDE DEF e, m
  <2>6. d * (2 * (m - e)) <= d * 1 /\ d * (2 * (e - m)) <= d * 1
    BY <2>3, <2>4
  <2>7. 2 * (m - e) <= 1 /\ 2 * (e - m) <= 1
    BY <2>3, <2>4, <2>6, Cancel
  <2>. QED BY <2>3, <2>4, <2>7
<1>. QED BY <1>1, <1>2

\* What a base unit of 100 or 1000 smallest ones leaves of them in two digits.
LEMMA HundredthsNear ==
  ASSUME NEW w \in Nat, NEW a \in Nat, 2 * a < w, NEW g \in Nat \ {0},
         NEW m \in Nat, NEW s \in Nat \ {0}, NEW h \in Nat,
         w * (100 * g * m) <= (w + 1) * (a * s),
         (w - 1) * (a * s) <= w * (100 * g * m),
         2 * (100 * m - h * s) <= s, 2 * (h * s - 100 * m) <= s
  PROVE  2 * (g * h - a) < g + 1 /\ 2 * (a - g * h) < g + 1
<1>. DEFINE k == w * g
            z == w * (100 * g * m)
<1>1. k \in Nat /\ z \in Nat /\ z = 100 * (k * m)
  OBVIOUS
<1>2. k * (2 * (100 * m - h * s)) <= k * s /\ k * (2 * (h * s - 100 * m)) <= k * s
  BY <1>1, Multiply
<1>3. /\ k * (2 * (100 * m - h * s)) = 2 * z - 2 * (k * (h * s))
      /\ k * (2 * (h * s - 100 * m)) = 2 * (k * (h * s)) - 2 * z
  BY <1>1
<1>4. /\ 2 * (k * (h * s)) - 2 * z <= k * s
      /\ 2 * z - 2 * (k * (h * s)) <= k * s
  BY <1>2, <1>3
<1>5. /\ k * (h * s) = s * (w * (g * h)) /\ k * s = s * (w * g)
      /\ (w + 1) * (a * s) = s * (w * a + a) /\ (w - 1) * (a * s) = s * (w * a - a)
  OBVIOUS
<1>. HIDE DEF z, k
<1>6. /\ 2 * (s * (w * (g * h))) <= s * (w * g) + 2 * (s * (w * a + a))
      /\ 2 * (s * (w * a - a)) <= s * (w * g) + 2 * (s * (w * (g * h)))
  BY <1>1, <1>4, <1>5 DEF z
<1>7. /\ s * (2 * (w * (g * h))) <= s * (w * g + 2 * (w * a + a))
      /\ s * (2 * (w * a - a)) <= s * (w * g + 2 * (w * (g * h)))
  <2>. DEFINE b == w * (g * h)
              c == w * a
              e == w * g
  <2>1. b \in Nat /\ c \in Nat /\ e \in Nat
    OBVIOUS
  <2>2. /\ 2 * (s * b) <= s * e + 2 * (s * (c + a))
        /\ 2 * (s * (c - a)) <= s * e + 2 * (s * b)
    BY <1>6
  <2>. HIDE DEF b, c, e
  <2>3. s * (2 * b) <= s * (e + 2 * (c + a)) /\ s * (2 * (c - a)) <= s * (e + 2 * b)
    BY <2>1, <2>2
  <2>. QED BY <2>3 DEF b, c, e
<1>8. /\ 2 * (w * (g * h)) <= w * g + 2 * (w * a + a)
      /\ 2 * (w * a - a) <= w * g + 2 * (w * (g * h))
  BY <1>7, Cancel
<1>9. /\ w * (2 * (g * h - a)) < w * (g + 1)
      /\ w * (2 * (a - g * h)) < w * (g + 1)
  <2>. DEFINE b == g * h
  <2>1. b \in Nat
    OBVIOUS
  <2>. HIDE DEF b
  <2>2. /\ w * (2 * (b - a)) = 2 * (w * b) - 2 * (w * a)
        /\ w * (2 * (a - b)) = 2 * (w * a) - 2 * (w * b)
        /\ w * (g + 1) = w * g + w
    BY <2>1
  <2>3. w * b \in Nat /\ w * a \in Nat /\ w * g \in Nat
    BY <2>1
  <2>4. /\ 2 * (w * b) <= w * g + 2 * (w * a + a)
        /\ 2 * (w * a - a) <= w * g + 2 * (w * b)
    BY <1>8 DEF b
  <2>. QED BY <2>2, <2>3, <2>4 DEF b
<1>. QED BY <1>9, Cancel

\* What is written in base units: every digit of it, or two of three.
Written(c, amount, h) ==
  /\ h \in Nat
  /\ c \in MoneyOf!ZeroDecimal     => h = 100 * amount
  /\ c \notin MoneyOf!ZeroDecimal  =>
       /\ c \in MoneyOf!ThreeDecimal    => 10 * h - amount \in -5..5
       /\ c \notin MoneyOf!ThreeDecimal => h = amount

LEMMA AmountBounds ==
  /\ F32 \in Nat \ {0} /\ F64 \in Nat \ {0} /\ MaxU32 \in Nat
  /\ 6 * (MaxU32 + 5) < F64 /\ 4 * (F32 + 1) <= F64
BY AmountsAssumption, WidthAssumption

LEMMA HundredthsWritten ==
  ASSUME NEW c, NEW amount \in 0..MaxU32, NEW x \in MoneyOf!BaseUnit(c, amount),
         NEW h \in MoneyOf!Hundredths(x)
  PROVE  Written(c, amount, h)
<1>. DEFINE u == MoneyOf!Units(c)
<1>1. /\ c \in MoneyOf!ZeroDecimal => u = 1
      /\ c \notin MoneyOf!ZeroDecimal /\ c \in MoneyOf!ThreeDecimal => u = 1000
      /\ c \notin MoneyOf!ZeroDecimal /\ c \notin MoneyOf!ThreeDecimal => u = 100
  BY DEF MoneyOf!Units
<1>2. x \in MoneyOf!Rounded(amount, u, F64) /\ amount \in Nat
  BY AmountBounds DEF MoneyOf!BaseUnit
<1>. HIDE DEF u
<1>3. /\ x.m \in Nat /\ x.s \in Nat \ {0}
      /\ F64 * (u * x.m) <= (F64 + 1) * (amount * x.s)
      /\ (F64 - 1) * (amount * x.s) <= F64 * (u * x.m)
  <2>1. u \in Nat \ {0}
    BY <1>1
  <2>. QED BY <1>2, <2>1, AmountBounds, RoundedIs
<1>4. h \in Nat /\ 2 * (100 * x.m - h * x.s) <= x.s /\ 2 * (h * x.s - 100 * x.m) <= x.s
  <2>1. (100 * x.m) \div x.s \in Nat
    BY <1>3
  <2>2. h \in Nat /\ 2 * (100 * x.m - h * x.s) \in (-x.s)..x.s
    BY <2>1 DEF MoneyOf!Hundredths
  <2>3. ASSUME NEW i \in Int, NEW j \in Int, NEW s \in Nat, 2 * (i - j) \in (-s)..s
        PROVE  2 * (i - j) <= s /\ 2 * (j - i) <= s
    BY <2>3
  <2>4. 100 * x.m \in Int /\ h * x.s \in Int
    BY <1>3, <2>2
  <2>. QED BY <1>3, <2>2, <2>3, <2>4
<1>5. CASE c \in MoneyOf!ZeroDecimal
  <2>1. x.m = amount * x.s
    <3>1. x \in MoneyOf!Rounded(1 * amount, 1, F64)
      BY <1>1, <1>2, <1>5
    <3>. QED BY <1>2, <3>1, RoundedWhole
  <2>2. x.s * (2 * (100 * amount - h)) <= x.s * 1 /\ x.s * (2 * (h - 100 * amount)) <= x.s * 1
    <3>1. ASSUME NEW m, NEW s \in Nat, m = amount * s,
                 2 * (100 * m - h * s) <= s, 2 * (h * s - 100 * m) <= s
          PROVE  s * (2 * (100 * amount - h)) <= s * 1 /\ s * (2 * (h - 100 * amount)) <= s * 1
      BY <1>2, <1>4, <3>1
    <3>. QED BY <1>3, <1>4, <2>1, <3>1
  <2>3. 2 * (100 * amount - h) <= 1 /\ 2 * (h - 100 * amount) <= 1
    BY <1>2, <1>3, <1>4, <2>2, Cancel
  <2>4. h = 100 * amount
    BY <1>2, <1>4, <2>3
  <2>. QED BY <1>4, <1>5, <2>4 DEF Written
<1>6. ASSUME NEW g \in {1, 10}, u = 100 * g
      PROVE  2 * (g * h - amount) < g + 1 /\ 2 * (amount - g * h) < g + 1
  <2>1. 2 * amount < F64
    BY <1>2, AmountBounds
  <2>2. u * x.m = 100 * g * x.m
    BY <1>6
  <2>3. /\ F64 * (100 * g * x.m) <= (F64 + 1) * (amount * x.s)
        /\ (F64 - 1) * (amount * x.s) <= F64 * (100 * g * x.m)
    BY <1>3, <2>2
  <2>4. g \in Nat \ {0} /\ F64 \in Nat
    BY AmountBounds
  <2>. QED BY <1>2, <1>3, <1>4, <2>1, <2>3, <2>4, HundredthsNear, ZenonT(60)
<1>7. CASE c \notin MoneyOf!ZeroDecimal /\ c \in MoneyOf!ThreeDecimal
  <2>1. 2 * (10 * h - amount) < 11 /\ 2 * (amount - 10 * h) < 11
    BY <1>1, <1>6, <1>7
  <2>2. 10 * h - amount \in -5..5
    BY <1>2, <1>4, <2>1
  <2>. QED BY <1>4, <1>7, <2>2 DEF Written
<1>8. CASE c \notin MoneyOf!ZeroDecimal /\ c \notin MoneyOf!ThreeDecimal
  <2>1. 2 * (1 * h - amount) < 2 /\ 2 * (amount - 1 * h) < 2
    BY <1>1, <1>6, <1>8
  <2>2. h = amount
    BY <1>2, <1>4, <2>1
  <2>. QED BY <1>4, <1>8, <2>2 DEF Written
<1>. QED BY <1>5, <1>7, <1>8

\* Read and multiplied, h hundredths are the v smallest units they stand for, but
\* for less than half of one.
LEMMA LowerUnitNear ==
  ASSUME NEW g \in {1, 10}, NEW h \in Nat, 6 * (g * h) < F64,
         NEW x \in MoneyOf!Rounded(h, 100, F64),
         NEW p \in MoneyOf!Product(x, 100 * g)
  PROVE  /\ p.m \in Nat /\ p.s \in Nat \ {0}
         /\ 2 * (p.m - (g * h) * p.s) < p.s
         /\ 2 * ((g * h) * p.s - p.m) < p.s
<1>1. /\ x.m \in Nat /\ x.s \in Nat \ {0}
      /\ F64 * (100 * x.m) <= (F64 + 1) * (h * x.s)
      /\ (F64 - 1) * (h * x.s) <= F64 * (100 * x.m)
  <2>1. 100 \in Nat \ {0}
    OBVIOUS
  <2>. QED BY <2>1, AmountBounds, RoundedIs
<1>2. PICK t \in Nat \ {0} :
        /\ p.m \in Nat /\ p.s \in Nat \ {0} /\ t * p.s = x.s
        /\ F64 * (p.m * t) <= (F64 + 1) * (x.m * (100 * g))
        /\ (F64 - 1) * (x.m * (100 * g)) <= F64 * (p.m * t)
  <2>1. 100 * g \in Nat
    OBVIOUS
  <2>. QED BY <1>1, <2>1, ProductIs
<1>3. ASSUME NEW w \in Nat \ {0}, NEW m \in Nat, NEW s \in Nat \ {0}, NEW pm \in Nat,
             NEW ps \in Nat \ {0}, t * ps = s, 6 * (g * h) < w,
             w * (100 * m) <= (w + 1) * (h * s), (w - 1) * (h * s) <= w * (100 * m),
             w * (pm * t) <= (w + 1) * (m * (100 * g)),
             (w - 1) * (m * (100 * g)) <= w * (pm * t)
      PROVE  2 * (pm - (g * h) * ps) < ps /\ 2 * ((g * h) * ps - pm) < ps
  <2>. DEFINE a == m * (100 * g)
              b == g * (h * s)
              c == pm * t
              v == g * h
  <2>1. a \in Nat /\ b \in Nat /\ c \in Nat /\ v \in Nat
    BY <1>2
  <2>2. w * a <= (w + 1) * b /\ (w - 1) * b <= w * a
    BY <1>3
  <2>3. w * c <= (w + 1) * a /\ (w - 1) * a <= w * c
    BY <1>3
  <2>4. w * c <= (w + 3) * b /\ (w - 2) * b <= w * c
    <3>. HIDE DEF a, b, c
    <3>. QED BY <2>1, <2>2, <2>3, TwoErrors
  <2>5. b = t * (v * ps) /\ c = t * pm
    BY <1>2, <1>3
  <2>6. w * pm <= (w + 3) * (v * ps) /\ (w - 2) * (v * ps) <= w * pm
    <3>. DEFINE e == v * ps
    <3>1. e \in Nat
      BY <2>1
    <3>. HIDE DEF a, b, c, v, e
    <3>2. /\ t * (w * pm) <= t * ((w + 3) * e)
          /\ t * ((w - 2) * e) <= t * (w * pm)
      <4>1. w * c = t * (w * pm) /\ (w + 3) * b = t * ((w + 3) * e)
            /\ (w - 2) * b = t * ((w - 2) * e)
        BY <1>2, <2>5, <3>1 DEF e
      <4>. QED BY <2>4, <4>1
    <3>. QED BY <1>2, <3>1, <3>2, Cancel DEF e
  <2>7. 6 * (v * ps) < w * ps
    <3>. HIDE DEF v
    <3>1. ps * (6 * v + 1) <= ps * w
      <4>1. 6 * v + 1 <= w
        BY <1>3, <2>1 DEF v
      <4>. QED BY <2>1, <4>1, Multiply
    <3>2. ps * (6 * v + 1) = 6 * (v * ps) + ps
      BY <2>1
    <3>. QED BY <2>1, <3>1, <3>2
  <2>8. w * (2 * (pm - v * ps)) < w * ps /\ w * (2 * (v * ps - pm)) < w * ps
    <3>. DEFINE e == v * ps
    <3>1. e \in Nat
      BY <2>1
    <3>2. /\ w * pm <= (w + 3) * e /\ (w - 2) * e <= w * pm /\ 6 * e < w * ps
      BY <2>6, <2>7
    <3>. HIDE DEF e, v
    <3>. QED BY <3>1, <3>2 DEF e
  <2>. HIDE DEF v
  <2>9. 2 * (pm - v * ps) < ps /\ 2 * (v * ps - pm) < ps
    <3>1. v * ps \in Int
      BY <2>1
    <3>. QED BY <2>8, <3>1, Cancel
  <2>. QED BY <2>9 DEF v
<1>. QED BY <1>1, <1>2, <1>3, AmountBounds

\* A positive percentage of an amount, before it is rounded up.
LEMMA PercentageNear ==
  ASSUME NEW h \in Nat, NEW amount \in Nat,
         NEW x \in MoneyOf!Fraction(h), NEW y \in MoneyOf!Product(x, amount)
  PROVE  /\ y.m \in Nat /\ y.s \in Nat \ {0}
         /\ F32 * (10000 * y.m) <= (F32 + 2) * (amount * h * y.s)
         /\ (F32 - 2) * (amount * h * y.s) <= F32 * (10000 * y.m)
<1>1. PICK q \in MoneyOf!Rounded(h, 100, F32) :
        x \in {[m |-> f.m, s |-> f.s * q.s] : f \in MoneyOf!Rounded(q.m, 100, F64)}
  BY DEF MoneyOf!Fraction
<1>2. PICK f \in MoneyOf!Rounded(q.m, 100, F64) : x = [m |-> f.m, s |-> f.s * q.s]
  BY <1>1
<1>3. 100 \in Nat \ {0}
  OBVIOUS
<1>4. /\ q.m \in Nat /\ q.s \in Nat \ {0}
      /\ F32 * (100 * q.m) <= (F32 + 1) * (h * q.s)
      /\ (F32 - 1) * (h * q.s) <= F32 * (100 * q.m)
  BY <1>3, AmountBounds, RoundedIs
<1>5. /\ f.m \in Nat /\ f.s \in Nat \ {0}
      /\ F64 * (100 * f.m) <= (F64 + 1) * (q.m * f.s)
      /\ (F64 - 1) * (q.m * f.s) <= F64 * (100 * f.m)
  BY <1>3, <1>4, AmountBounds, RoundedIs
<1>6. x.m = f.m /\ x.s = f.s * q.s /\ x.s \in Nat \ {0}
  BY <1>2, <1>4, <1>5
<1>7. PICK t \in Nat \ {0} :
        /\ y.m \in Nat /\ y.s \in Nat \ {0} /\ t * y.s = f.s * q.s
        /\ F64 * (y.m * t) <= (F64 + 1) * (f.m * amount)
        /\ (F64 - 1) * (f.m * amount) <= F64 * (y.m * t)
  <2>1. x.m \in Nat /\ x.s \in Nat \ {0}
    BY <1>5, <1>6
  <2>2. \E t \in Nat \ {0} :
          /\ y.m \in Nat /\ y.s \in Nat \ {0} /\ t * y.s = x.s
          /\ F64 * (y.m * t) <= (F64 + 1) * (x.m * amount)
          /\ (F64 - 1) * (x.m * amount) <= F64 * (y.m * t)
    BY <2>1, ProductIs
  <2>. QED BY <1>6, <2>2
<1>. DEFINE v == F32
            w == F64
            qm == q.m
            qs == q.s
            fm == f.m
            fs == f.s
            ym == y.m
            ys == y.s
<1>8. /\ v \in Nat \ {0} /\ w \in Nat \ {0} /\ 4 * (v + 1) <= w
      /\ h \in Nat /\ amount \in Nat /\ t \in Nat \ {0}
      /\ qm \in Nat /\ qs \in Nat \ {0} /\ fm \in Nat /\ fs \in Nat \ {0}
      /\ ym \in Nat /\ ys \in Nat \ {0} /\ t * ys = fs * qs
      /\ v * (100 * qm) <= (v + 1) * (h * qs) /\ (v - 1) * (h * qs) <= v * (100 * qm)
      /\ w * (100 * fm) <= (w + 1) * (qm * fs) /\ (w - 1) * (qm * fs) <= w * (100 * fm)
      /\ w * (ym * t) <= (w + 1) * (fm * amount) /\ (w - 1) * (fm * amount) <= w * (ym * t)
  BY <1>4, <1>5, <1>7, AmountBounds
<1>. HIDE DEF v, w, qm, qs, fm, fs, ym, ys
<1>9. /\ v * (10000 * ym) <= (v + 2) * (amount * h * ys)
      /\ (v - 2) * (amount * h * ys) <= v * (10000 * ym)
  <2>. DEFINE i == 10000 * amount
              a == i * fm
              b == (100 * amount) * (qm * fs)
              c == 10000 * (ym * t)
              j == amount * fs
              d == j * (h * qs)
  <2>1. i \in Nat /\ a \in Nat /\ b \in Nat /\ c \in Nat /\ j \in Nat /\ d \in Nat
    BY <1>8
  <2>2. w * a <= (w + 1) * b /\ (w - 1) * b <= w * a
    <3>. DEFINE k == 100 * amount
                e == qm * fs
    <3>1. k \in Nat /\ e \in Nat
      BY <1>8
    <3>2. w * (100 * fm) <= (w + 1) * e /\ (w - 1) * e <= w * (100 * fm)
      BY <1>8
    <3>3. a = k * (100 * fm) /\ b = k * e
      BY <1>8
    <3>. HIDE DEF k, e, a, b
    <3>4. /\ k * (w * (100 * fm)) <= k * ((w + 1) * e)
          /\ k * ((w - 1) * e) <= k * (w * (100 * fm))
      BY <1>8, <3>1, <3>2, Multiply
    <3>. QED BY <1>8, <3>1, <3>3, <3>4
  <2>3. w * c <= (w + 1) * a /\ (w - 1) * a <= w * c
    <3>. DEFINE e == fm * amount
                k == ym * t
    <3>1. e \in Nat /\ k \in Nat
      BY <1>8
    <3>2. w * k <= (w + 1) * e /\ (w - 1) * e <= w * k
      BY <1>8
    <3>3. a = 10000 * e /\ c = 10000 * k
      BY <1>8
    <3>. HIDE DEF e, k, a, c
    <3>. QED BY <1>8, <3>1, <3>2, <3>3
  <2>4. w * c <= (w + 3) * b /\ (w - 2) * b <= w * c
    <3>. HIDE DEF a, b, c
    <3>. QED BY <1>8, <2>1, <2>2, <2>3, TwoErrors
  <2>5. v * b <= (v + 1) * d /\ (v - 1) * d <= v * b
    <3>. DEFINE e == h * qs
    <3>1. e \in Nat
      BY <1>8
    <3>2. v * (100 * qm) <= (v + 1) * e /\ (v - 1) * e <= v * (100 * qm)
      BY <1>8
    <3>3. b = j * (100 * qm) /\ d = j * e
      BY <1>8
    <3>. HIDE DEF e, b, d, j
    <3>4. /\ j * (v * (100 * qm)) <= j * ((v + 1) * e)
          /\ j * ((v - 1) * e) <= j * (v * (100 * qm))
      BY <1>8, <2>1, <3>1, <3>2, Multiply
    <3>. QED BY <1>8, <2>1, <3>1, <3>3, <3>4
  <2>6. v * c <= (v + 2) * d /\ (v - 2) * d <= v * c
    <3>. HIDE DEF b, c, d
    <3>. QED BY <1>8, <2>1, <2>4, <2>5, CoarseError
  <2>7. c = t * (10000 * ym) /\ d = t * (amount * h * ys)
    <3>1. c = t * (10000 * ym)
      BY <1>8
    <3>2. d = (amount * h) * (fs * qs)
      BY <1>8
    <3>3. d = (amount * h) * (t * ys)
      BY <1>8, <3>2
    <3>. HIDE DEF d
    <3>4. (amount * h) * (t * ys) = t * (amount * h * ys)
      BY <1>8
    <3>. QED BY <1>8, <3>1, <3>3, <3>4
  <2>. DEFINE e == amount * h * ys
              k == 10000 * ym
  <2>8. e \in Nat /\ k \in Nat
    BY <1>8
  <2>9. t * (v * k) <= t * ((v + 2) * e) /\ t * ((v - 2) * e) <= t * (v * k)
    <3>1. c = t * k /\ d = t * e
      BY <1>8, <2>7
    <3>. HIDE DEF c, d, e, k
    <3>. QED BY <1>8, <2>6, <2>8, <3>1
  <2>. HIDE DEF c, d, e, k
  <2>10. v * k <= (v + 2) * e /\ (v - 2) * e <= v * k
    BY <1>8, <2>8, <2>9, Cancel
  <2>. QED BY <1>8, <2>10 DEF e, k
<1>. QED BY <1>7, <1>9 DEF v, ym, ys

\* ceil() and floor() of a float.
LEMMA WholeUnits ==
  ASSUME NEW m \in Nat, NEW s \in Nat \ {0}
  PROVE  /\ m \div s \in Int /\ s * (m \div s) <= m /\ m < s * (m \div s + 1)
         /\ (m + s - 1) \div s \in Int /\ m <= s * ((m + s - 1) \div s)
         /\ s * ((m + s - 1) \div s - 1) < m
<1>1. ASSUME NEW n \in Nat
      PROVE  \E q \in Nat, r \in 0..(s - 1) : n \div s = q /\ n = s * q + r
  BY <1>1
<1>2. PICK q \in Nat, r \in 0..(s - 1) : m \div s = q /\ m = s * q + r
  BY <1>1
<1>3. PICK p \in Nat, u \in 0..(s - 1) : (m + s - 1) \div s = p /\ m + s - 1 = s * p + u
  <2>. DEFINE n == m + s - 1
  <2>1. n \in Nat
    OBVIOUS
  <2>. HIDE DEF n
  <2>2. PICK p \in Nat, u \in 0..(s - 1) : n \div s = p /\ n = s * p + u
    BY <1>1, <2>1
  <2>. QED BY <2>2 DEF n
<1>4. s * (q + 1) = s * q + s /\ s * (p - 1) = s * p - s
  BY <1>2, <1>3
<1>5. s * q \in Int /\ s * p \in Int
  BY <1>2, <1>3
<1>. QED BY <1>2, <1>3, <1>4, <1>5

\* Rounded up, or down, to a whole unit.
LEMMA CeiledNear ==
  ASSUME NEW v \in Nat \ {0}, NEW m \in Nat, NEW s \in Nat \ {0}, NEW e \in Nat,
         v * (10000 * m) <= (v + 2) * (e * s), (v - 2) * (e * s) <= v * (10000 * m),
         NEW c \in Int, m <= s * c, s * (c - 1) < m,
         NEW f \in Int, s * f <= m, m < s * (f + 1)
  PROVE  /\ v * (e - 10000 * c) <= 2 * e
         /\ v * (10000 * c - e) < 2 * e + 10000 * v
         /\ v * (10000 * f - e) <= 2 * e
         /\ v * (e - 10000 * f) < 2 * e + 10000 * v
<1>. DEFINE k == 10000 * v
<1>1. k \in Nat \ {0} /\ v * (10000 * m) = k * m
  OBVIOUS
<1>. HIDE DEF k
<1>2. /\ k * m <= k * (s * c) /\ k * (s * (c - 1)) < k * m
      /\ k * (s * f) <= k * m /\ k * m < k * (s * (f + 1))
  <2>1. ASSUME NEW i \in Int, NEW j \in Int, i < j PROVE k * i < k * j
    <3>1. k * (i + 1) <= k * j
      BY <1>1, <2>1, Multiply
    <3>2. k * (i + 1) = k * i + k
      BY <1>1
    <3>. QED BY <1>1, <3>1, <3>2
  <2>2. s * c \in Int /\ s * (c - 1) \in Int /\ s * f \in Int /\ s * (f + 1) \in Int
    OBVIOUS
  <2>. QED BY <1>1, <2>1, <2>2, Multiply
<1>3. /\ s * ((v - 2) * e) <= s * (k * c) /\ s * (k * (c - 1)) < s * ((v + 2) * e)
      /\ s * (k * f) <= s * ((v + 2) * e) /\ s * ((v - 2) * e) < s * (k * (f + 1))
  <2>1. (v + 2) * (e * s) = s * ((v + 2) * e) /\ (v - 2) * (e * s) = s * ((v - 2) * e)
    OBVIOUS
  <2>2. /\ k * (s * c) = s * (k * c) /\ k * (s * (c - 1)) = s * (k * (c - 1))
        /\ k * (s * f) = s * (k * f) /\ k * (s * (f + 1)) = s * (k * (f + 1))
    BY <1>1
  <2>3. /\ k * m \in Int /\ s * ((v + 2) * e) \in Int /\ s * ((v - 2) * e) \in Int
        /\ s * (k * c) \in Int /\ s * (k * (c - 1)) \in Int
        /\ s * (k * f) \in Int /\ s * (k * (f + 1)) \in Int
    BY <1>1
  <2>. QED BY <1>1, <1>2, <2>1, <2>2, <2>3
<1>4. /\ (v - 2) * e <= k * c /\ k * (c - 1) < (v + 2) * e
      /\ k * f <= (v + 2) * e /\ (v - 2) * e < k * (f + 1)
  <2>1. /\ (v + 2) * e \in Int /\ (v - 2) * e \in Int
        /\ k * c \in Int /\ k * (c - 1) \in Int /\ k * f \in Int /\ k * (f + 1) \in Int
    BY <1>1
  <2>. QED BY <1>3, <2>1, Cancel
<1>5. /\ v * (e - 10000 * c) = v * e - k * c /\ v * (10000 * c - e) = k * c - v * e
      /\ v * (e - 10000 * f) = v * e - k * f /\ v * (10000 * f - e) = k * f - v * e
      /\ (v + 2) * e = v * e + 2 * e /\ (v - 2) * e = v * e - 2 * e
      /\ k * (c - 1) = k * c - k /\ k * (f + 1) = k * f + k
  <2>1. ASSUME NEW z \in Int
        PROVE  v * (e - 10000 * z) = v * e - k * z /\ v * (10000 * z - e) = k * z - v * e
    BY DEF k
  <2>2. k * (c - 1) = k * c - k /\ k * (f + 1) = k * f + k
    BY <1>1
  <2>3. (v + 2) * e = v * e + 2 * e /\ (v - 2) * e = v * e - 2 * e
    OBVIOUS
  <2>. QED BY <2>1, <2>2, <2>3
<1>6. v * e \in Int /\ k * c \in Int /\ k * f \in Int /\ k = 10000 * v
  BY <1>1 DEF k
<1>. QED BY <1>4, <1>5, <1>6

\* The surcharge of an amount of either sign.
LEMMA SurchargeNear ==
  ASSUME NEW h \in Nat, NEW amount \in Int, NEW x \in MoneyOf!Fraction(h),
         NEW y \in MoneyOf!Product(x, MoneyOf!Magnitude(amount))
  PROVE  LET exact == amount * h
             lost  == 2 * MoneyOf!Magnitude(exact)
             due   == MoneyOf!Ceiled(amount, y)
         IN  /\ F32 * (exact - 10000 * due) <= lost
             /\ F32 * (10000 * due - exact) < lost + 10000 * F32
<1>. DEFINE a == MoneyOf!Magnitude(amount)
            e == a * h
            c == (y.m + y.s - 1) \div y.s
            f == y.m \div y.s
<1>1. a \in Nat /\ e \in Nat
  BY DEF MoneyOf!Magnitude
<1>2. /\ y.m \in Nat /\ y.s \in Nat \ {0}
      /\ F32 * (10000 * y.m) <= (F32 + 2) * (e * y.s)
      /\ (F32 - 2) * (e * y.s) <= F32 * (10000 * y.m)
  <2>. HIDE DEF a
  <2>. QED BY <1>1, PercentageNear DEF a
<1>. HIDE DEF a, e, c, f
<1>3. /\ c \in Int /\ F32 * (e - 10000 * c) <= 2 * e
      /\ F32 * (10000 * c - e) < 2 * e + 10000 * F32
      /\ f \in Int /\ F32 * (10000 * f - e) <= 2 * e
      /\ F32 * (e - 10000 * f) < 2 * e + 10000 * F32
  <2>. DEFINE m == y.m
              s == y.s
  <2>1. /\ m \in Nat /\ s \in Nat \ {0} /\ F32 \in Nat \ {0} /\ e \in Nat
        /\ F32 * (10000 * m) <= (F32 + 2) * (e * s)
        /\ (F32 - 2) * (e * s) <= F32 * (10000 * m)
        /\ c = (m + s - 1) \div s /\ f = m \div s
    BY <1>1, <1>2, AmountBounds DEF c, f
  <2>. HIDE DEF m, s
  <2>2. /\ f \in Int /\ s * f <= m /\ m < s * (f + 1)
        /\ c \in Int /\ m <= s * c /\ s * (c - 1) < m
    BY <2>1, WholeUnits
  <2>. QED BY <2>1, <2>2, CeiledNear
<1>4. CASE amount < 0
  <2>1. MoneyOf!Ceiled(amount, y) = -f
    BY <1>4 DEF MoneyOf!Ceiled, f
  <2>2. amount * h = -e /\ MoneyOf!Magnitude(-e) = e
    BY <1>1, <1>4 DEF MoneyOf!Magnitude, a, e
  <2>3. -e - 10000 * (-f) = 10000 * f - e /\ 10000 * (-f) - (-e) = e - 10000 * f
    BY <1>1, <1>3
  <2>. QED BY <1>3, <2>1, <2>2, <2>3
<1>5. CASE ~(amount < 0)
  <2>1. MoneyOf!Ceiled(amount, y) = c
    BY <1>5 DEF MoneyOf!Ceiled, c
  <2>2. amount * h = e /\ MoneyOf!Magnitude(e) = e
    BY <1>1, <1>5 DEF MoneyOf!Magnitude, a, e
  <2>. QED BY <1>3, <2>1, <2>2
<1>. QED BY <1>4, <1>5

\* What comes back for what was written.
LEMMA ReturnedNear ==
  ASSUME NEW c, NEW amount \in 0..MaxU32, NEW h, Written(c, amount, h),
         NEW x \in MoneyOf!Rounded(h, 100, F64), NEW p,
         IF c \in MoneyOf!ZeroDecimal THEN p = x ELSE p \in MoneyOf!Product(x, MoneyOf!Units(c))
  PROVE  LET off == p.m - amount * p.s IN
           /\ c \in MoneyOf!ZeroDecimal     => off = 0
           /\ c \in MoneyOf!ThreeDecimal    => 2 * MoneyOf!Magnitude(off) < 11 * p.s
           /\ c \notin MoneyOf!ThreeDecimal => 2 * MoneyOf!Magnitude(off) < p.s
<1>1. amount \in Nat /\ amount <= MaxU32 /\ h \in Nat
  BY AmountBounds DEF Written
<1>2. CASE c \in MoneyOf!ZeroDecimal
  <2>1. x \in MoneyOf!Rounded(100 * amount, 100, F64) /\ p = x
    BY <1>2 DEF Written
  <2>2. p.s \in Nat \ {0} /\ p.m = amount * p.s
    BY <1>1, <2>1, RoundedWhole
  <2>3. p.m - amount * p.s = 0
    BY <1>1, <2>2
  <2>4. MoneyOf!Magnitude(0) = 0
    BY DEF MoneyOf!Magnitude
  <2>. QED BY <2>2, <2>3, <2>4
<1>3. CASE c \notin MoneyOf!ZeroDecimal
  <2>. DEFINE g == IF c \in MoneyOf!ThreeDecimal THEN 10 ELSE 1
              v == g * h
  <2>1. g \in {1, 10} /\ MoneyOf!Units(c) = 100 * g
    BY <1>3 DEF MoneyOf!Units
  <2>2. /\ v \in Nat /\ v - amount \in -5..5
        /\ c \notin MoneyOf!ThreeDecimal => v = amount
    BY <1>1, <1>3 DEF Written
  <2>3. 6 * v < F64
    <3>. HIDE DEF v
    <3>. QED BY <1>1, <2>2, AmountBounds
  <2>4. p \in MoneyOf!Product(x, 100 * g)
    BY <1>3, <2>1
  <2>. HIDE DEF g
  <2>5. /\ p.m \in Nat /\ p.s \in Nat \ {0}
        /\ 2 * (p.m - v * p.s) < p.s /\ 2 * (v * p.s - p.m) < p.s
    BY <1>1, <2>1, <2>3, <2>4, LowerUnitNear
  <2>. HIDE DEF v
  <2>6. ASSUME NEW m \in Nat, NEW s \in Nat \ {0},
               2 * (m - v * s) < s, 2 * (v * s - m) < s
        PROVE  /\ m - amount * s \in Int
               /\ 2 * MoneyOf!Magnitude(m - amount * s) < 11 * s
               /\ v = amount => 2 * MoneyOf!Magnitude(m - amount * s) < s
    <3>1. s * (v - amount) <= s * 5 /\ s * (amount - v) <= s * 5
      BY <1>1, <2>2, Multiply
    <3>2. s * (v - amount) = v * s - amount * s /\ s * (amount - v) = amount * s - v * s
      BY <1>1, <2>2
    <3>3. v * s \in Int /\ amount * s \in Int
      BY <1>1, <2>2
    <3>. QED BY <2>6, <3>1, <3>2, <3>3 DEF MoneyOf!Magnitude
  <2>. QED BY <1>3, <2>2, <2>5, <2>6
<1>. QED BY <1>2, <1>3

\* What is written in base units is the amount to the digits written; what has
\* been read back or computed is what the properties say.
MoneyInv ==
  /\ x3 \in Int /\ x4 \in Int
  /\ x1 = "base" => x3 \in 0..MaxU32 /\ Written(x2, x3, x5)
  /\ MoneyOf!AmountSurvives /\ MoneyOf!SurchargeCovers

LEMMA MoneyInvStep ==
  ASSUME MoneyInv, [MoneyOf!Next]_(MoneyOf!vars)
  PROVE  MoneyInv'
<1>. USE DEF MoneyOf!AmountSurvives, MoneyOf!SurchargeCovers
<1>1. x3 \in Int /\ x4 \in Int
  BY DEF MoneyInv
<1>2. CASE UNCHANGED MoneyOf!vars
  BY <1>2 DEF MoneyOf!vars, MoneyInv, Written
<1>3. ASSUME NEW c, NEW amount \in Amounts, NEW r \in Int, MoneyOf!Request(c, amount, r)
      PROVE  MoneyInv'
  <2>1. x1' = "minor" /\ x3' = amount /\ x4' = r /\ amount \in Int
    BY <1>3, AmountsAssumption DEF MoneyOf!Request
  <2>. QED BY <2>1 DEF MoneyInv
<1>4. ASSUME x1' = "base", x3 \in 0..MaxU32, Written(x2, x3, x5'), UNCHANGED <<x2, x3, x4>>
      PROVE  MoneyInv'
  <2>1. Written(x2, x3, x5)'
    BY <1>4 DEF Written
  <2>. QED BY <1>1, <1>4, <2>1 DEF MoneyInv
<1>5. CASE MoneyOf!ToCurrencyBaseUnit
  <2>1. PICK x \in MoneyOf!BaseUnit(x2, x3) : x5' \in MoneyOf!Hundredths(x)
    BY <1>5 DEF MoneyOf!ToCurrencyBaseUnit
  <2>2. x1' = "base" /\ x3 \in 0..MaxU32 /\ UNCHANGED <<x2, x3, x4>>
    BY <1>5 DEF MoneyOf!ToCurrencyBaseUnit, MoneyOf!Convertible
  <2>. QED BY <1>4, <2>1, <2>2, HundredthsWritten
<1>6. CASE MoneyOf!ToBaseUnitWithZeroDecimalCheck
  <2>1. x1' = "base" /\ x3 \in 0..MaxU32 /\ UNCHANGED <<x2, x3, x4>>
    BY <1>6 DEF MoneyOf!ToBaseUnitWithZeroDecimalCheck, MoneyOf!Convertible
  <2>2. CASE x2 \in MoneyOf!ZeroDecimal
    <3>1. x5' = 100 * x3
      BY <1>6, <2>2 DEF MoneyOf!ToBaseUnitWithZeroDecimalCheck
    <3>2. x5' \in Nat
      BY <2>1, <3>1, AmountBounds
    <3>3. Written(x2, x3, x5')
      BY <2>2, <3>1, <3>2 DEF Written
    <3>. QED BY <1>4, <2>1, <3>3
  <2>3. CASE x2 \notin MoneyOf!ZeroDecimal
    <3>1. PICK x \in MoneyOf!BaseUnit(x2, x3) : x5' \in MoneyOf!Hundredths(x)
      BY <1>6, <2>3 DEF MoneyOf!ToBaseUnitWithZeroDecimalCheck
    <3>. QED BY <1>4, <2>1, <3>1, HundredthsWritten
  <2>. QED BY <2>2, <2>3
<1>7. CASE MoneyOf!ToCurrencyLowerUnit
  <2>1. /\ x1' = "back" /\ UNCHANGED <<x2, x3, x4>>
        /\ x3 \in 0..MaxU32 /\ Written(x2, x3, x5)
    BY <1>7 DEF MoneyOf!ToCurrencyLowerUnit, MoneyInv
  <2>2. PICK x \in MoneyOf!Rounded(x5, 100, F64) :
          IF x2 \in MoneyOf!ZeroDecimal THEN x5' = x
          ELSE x5' \in MoneyOf!Product(x, MoneyOf!Units(x2))
    BY <1>7 DEF MoneyOf!ToCurrencyLowerUnit
  <2>3. LET off == x5'.m - x3 * x5'.s IN
          /\ x2 \in MoneyOf!ZeroDecimal     => off = 0
          /\ x2 \in MoneyOf!ThreeDecimal    => 2 * MoneyOf!Magnitude(off) < 11 * x5'.s
          /\ x2 \notin MoneyOf!ThreeDecimal => 2 * MoneyOf!Magnitude(off) < x5'.s
    BY <2>1, <2>2, ReturnedNear
  <2>. QED BY <1>1, <2>1, <2>3 DEF MoneyInv
<1>8. CASE MoneyOf!ApplyPercentage
  <2>. DEFINE h == x4 \div 10
  <2>1. x1' = "surcharge" /\ UNCHANGED <<x2, x3, x4>> /\ MoneyOf!ValidRate(x4)
    BY <1>8, Zenon DEF MoneyOf!ApplyPercentage
  <2>2. h \in Nat
    BY <1>1, <2>1 DEF MoneyOf!ValidRate
  <2>3. PICK x \in MoneyOf!Fraction(h) :
          \E y \in MoneyOf!Product(x, MoneyOf!Magnitude(x3)) : x5' = MoneyOf!Ceiled(x3, y)
    BY <1>8 DEF MoneyOf!ApplyPercentage
  <2>. HIDE DEF h
  <2>4. LET exact == x3 * h
            lost  == 2 * MoneyOf!Magnitude(exact)
        IN  /\ F32 * (exact - 10000 * x5') <= lost
            /\ F32 * (10000 * x5' - exact) < lost + 10000 * F32
    BY <1>1, <2>2, <2>3, SurchargeNear
  <2>5. x3' = x3 /\ h = x4' \div 10
    BY <2>1 DEF h
  <2>. QED BY <1>1, <2>1, <2>4, <2>5 DEF MoneyInv
<1>9. CASE MoneyOf!BaseUnitFails \/ MoneyOf!PercentageFails
  BY <1>1, <1>9 DEF MoneyOf!BaseUnitFails, MoneyOf!PercentageFails, MoneyInv
<1>10. Rates \subseteq Int /\ 0 \in Int
  BY AmountsAssumption
<1>. QED BY <1>2, <1>3, <1>5, <1>6, <1>7, <1>8, <1>9, <1>10 DEF MoneyOf!Next

LEMMA MoneyInvariant == Spec => [](focus = "Money" => MoneyInv)
<1>. DEFINE Inv == focus = "Money" => MoneyInv
<1>1. Init => Inv
  <2>1. MoneyOf!Init => MoneyInv
    BY DEF MoneyOf!Init, MoneyInv, MoneyOf!AmountSurvives, MoneyOf!SurchargeCovers
  <2>. QED BY <2>1 DEF Init
<1>2. Inv /\ [Next]_vars => Inv'
  <2>. SUFFICES ASSUME MoneyInv, [Next]_vars, focus = "Money" PROVE MoneyInv'
    BY FocusKept
  <2>1. [MoneyOf!Next]_(MoneyOf!vars)
    BY DEF Next, vars, MoneyOf!vars
  <2>. QED BY <2>1, MoneyInvStep
<1>. QED BY <1>1, <1>2, PTL DEF Spec

\* to_currency_base_unit and to_currency_lower_unit: the float that comes back for
\* any amount of any currency rounds to that amount, or to within half a hundredth
\* of the base unit where there are three decimals, in any precision of f64 wide
\* enough for a u32.
THEOREM AmountKept == Spec => []AmountSurvives
<1>1. (focus = "Money" => MoneyInv) => AmountSurvives
  BY DEF MoneyInv, AmountSurvives
<1>. QED BY <1>1, MoneyInvariant, PTL

\* apply_and_ceil_result: for any rate and any amount up to the limit, negative
\* ones included, the surcharge is the percentage rounded up, but for what the
\* f32 loses of it.
THEOREM SurchargeCovered == Spec => []SurchargeCovers
<1>1. (focus = "Money" => MoneyInv) => SurchargeCovers
  BY DEF MoneyInv, SurchargeCovers
<1>. QED BY <1>1, MoneyInvariant, PTL

-----------------------------------------------------------------------------
(* Startup: program, backend, file, environ, phase, conf, lock_retries, raw *)
(* and todo are x1, ..., x9                                                 *)

\* The settings there are, section by section.
LEMMA DrainerKeys ==
  ASSUME NEW d, d = StartupOf!Defaults("drainer")
  PROVE  /\ DOMAIN d = {"server", "master_database", "redis", "drainer",
                        "secrets_management", "encryption_management"}
         /\ DOMAIN d["server"] = {"host", "workers"}
         /\ DOMAIN d["master_database"] = {"host", "dbname", "username", "password"}
         /\ DOMAIN d["redis"] = {"host", "cluster_enabled", "cluster_urls",
                                 "default_command_timeout", "unresponsive_timeout"}
         /\ DOMAIN d["drainer"] = {"stream_name", "num_partitions"}
         /\ DOMAIN d["secrets_management"] = {"key_id", "region"}
         /\ DOMAIN d["encryption_management"] = {"key_id", "region"}
BY DEF StartupOf!Defaults, StartupOf!DrainerDefaults, StartupOf!ServerDefaults,
       StartupOf!DatabaseDefaults, StartupOf!RedisDefaults, StartupOf!DrainerSettings,
       StartupOf!ManagerDefaults

LEMMA ApplicationKeys ==
  ASSUME NEW d, d = StartupOf!Defaults("application")
  PROVE  /\ DOMAIN d = {"server", "master_database", "redis", "log", "secrets", "locker",
                        "cors", "scheduler", "jwekey", "api_keys", "lock_settings",
                        "secrets_management"}
         /\ DOMAIN d["server"] = {"host", "workers"}
         /\ DOMAIN d["master_database"] = {"host", "dbname", "username", "password"}
         /\ DOMAIN d["redis"] = {"host", "cluster_enabled", "cluster_urls",
                                 "default_command_timeout", "unresponsive_timeout"}
         /\ DOMAIN d["log"] = {"enabled", "file_name", "path"}
         /\ DOMAIN d["secrets"] = {"jwt_secret", "admin_api_key", "recon_admin_api_key",
                                   "master_enc_key"}
         /\ DOMAIN d["locker"] = {"mock_locker", "host", "basilisk_host"}
         /\ DOMAIN d["cors"] = {"origins", "wildcard_origin", "max_age", "allowed_methods"}
         /\ DOMAIN d["scheduler"] = {"stream", "consumer_group", "lock_key", "host", "workers"}
         /\ DOMAIN d["jwekey"] = {"vault_encryption_key", "rust_locker_encryption_key",
                                  "vault_private_key", "tunnel_private_key"}
         /\ DOMAIN d["api_keys"] = {"hash_key"}
         /\ DOMAIN d["lock_settings"] = {"expiry", "delay"}
         /\ DOMAIN d["secrets_management"] = {"key_id", "region"}
BY DEF StartupOf!Defaults, StartupOf!ApplicationDefaults, StartupOf!ServerDefaults,
       StartupOf!DatabaseDefaults, StartupOf!RedisDefaults, StartupOf!ManagerDefaults

\* What operators usually write for a setting, in whichever section.
UsualValue(k) ==
  IF k = "default_command_timeout" THEN 30
  ELSE IF k = "unresponsive_timeout" THEN 10
  ELSE IF k = "expiry" THEN 2
  ELSE IF k = "delay" THEN 500
  ELSE IF k \in {"cluster_enabled", "wildcard_origin", "mock_locker"} THEN 0
  ELSE 1

LEMMA UsualIs ==
  ASSUME NEW p, NEW d, d = StartupOf!Defaults(p)
  PROVE  StartupOf!Usual(p) = [s \in DOMAIN d |-> [k \in DOMAIN d[s] |-> UsualValue(k)]]
BY DEF StartupOf!Usual, UsualValue

\* A source gives every setting there is a number, or leaves it unset.
Source(p, f) ==
  LET d == StartupOf!Defaults(p) IN
  /\ DOMAIN f = DOMAIN d
  /\ \A s \in DOMAIN d : f[s] \in [DOMAIN d[s] -> Nat \cup {-1}]

LEMMA InitSources ==
  ASSUME StartupOf!Init
  PROVE  x1 \in {"drainer", "application"} /\ Source(x1, x3) /\ Source(x1, x4)
<1>. DEFINE d == StartupOf!Defaults(x1)
            u == StartupOf!Usual(x1)
            n == StartupOf!Nothing(x1)
            V == Nat \cup {-1}
<1>1. u = [s \in DOMAIN d |-> [k \in DOMAIN d[s] |-> UsualValue(k)]]
  BY UsualIs
<1>2. \A k : UsualValue(k) \in V
  BY DEF UsualValue
<1>3. n = [s \in DOMAIN d |-> [k \in DOMAIN d[s] |-> -1]]
  BY DEF StartupOf!Nothing, StartupOf!Unset
<1>4. \A k : StartupOf!Odd(k) \subseteq V
  BY LockAssumption DEF StartupOf!Odd
<1>5. x1 \in {"drainer", "application"}
  BY DEF StartupOf!Init, StartupOf!Programs
<1>6. PICK s \in DOMAIN StartupOf!Defaults(x1) :
        \/ /\ x3 = [StartupOf!Usual(x1) EXCEPT ![s] = [k \in DOMAIN @ |-> StartupOf!Unset]]
           /\ x4 = StartupOf!Nothing(x1)
        \/ \E i, j \in DOMAIN StartupOf!Defaults(x1)[s] :
             \E fi, ei \in {StartupOf!Unset} \cup StartupOf!Odd(i),
                fj, ej \in {StartupOf!Unset} \cup StartupOf!Odd(j) :
               /\ i = j => fi = fj /\ ei = ej
               /\ x3 = [StartupOf!Usual(x1) EXCEPT ![s][i] = fi, ![s][j] = fj]
               /\ x4 = [StartupOf!Nothing(x1) EXCEPT ![s][i] = ei, ![s][j] = ej]
  BY Zenon DEF StartupOf!Init
<1>0. StartupOf!Unset = -1
  BY DEF StartupOf!Unset
<1>. HIDE DEF V
<1>7. /\ DOMAIN u = DOMAIN d /\ \A t \in DOMAIN d : u[t] \in [DOMAIN d[t] -> V]
      /\ DOMAIN n = DOMAIN d /\ \A t \in DOMAIN d : n[t] \in [DOMAIN d[t] -> V]
      /\ -1 \in V
  <2>. HIDE DEF d, u, n
  <2>. QED BY <1>1, <1>2, <1>3 DEF V
<1>8. ASSUME x3 = [u EXCEPT ![s] = [k \in DOMAIN @ |-> StartupOf!Unset]], x4 = n
      PROVE  Source(x1, x3) /\ Source(x1, x4)
  <2>1. DOMAIN x3 = DOMAIN d /\ \A t \in DOMAIN d : x3[t] \in [DOMAIN d[t] -> V]
    <3>. HIDE DEF d, u, n
    <3>. QED BY <1>0, <1>7, <1>8
  <2>. QED BY <1>7, <1>8, <2>1, Zenon DEF Source, V
<1>9. ASSUME NEW i \in DOMAIN d[s], NEW j \in DOMAIN d[s],
             NEW fi \in {StartupOf!Unset} \cup StartupOf!Odd(i),
             NEW ei \in {StartupOf!Unset} \cup StartupOf!Odd(i),
             NEW fj \in {StartupOf!Unset} \cup StartupOf!Odd(j),
             NEW ej \in {StartupOf!Unset} \cup StartupOf!Odd(j),
             x3 = [u EXCEPT ![s][i] = fi, ![s][j] = fj],
             x4 = [n EXCEPT ![s][i] = ei, ![s][j] = ej]
      PROVE  Source(x1, x3) /\ Source(x1, x4)
  <2>1. fi \in V /\ ei \in V /\ fj \in V /\ ej \in V
    BY <1>0, <1>4, <1>7
  <2>2. DOMAIN x3 = DOMAIN d /\ \A t \in DOMAIN d : x3[t] \in [DOMAIN d[t] -> V]
    <3>. HIDE DEF d, u, n
    <3>. QED BY <1>7, <1>9, <2>1
  <2>3. DOMAIN x4 = DOMAIN d /\ \A t \in DOMAIN d : x4[t] \in [DOMAIN d[t] -> V]
    <3>. HIDE DEF d, u, n
    <3>. QED BY <1>7, <1>9, <2>1
  <2>. QED BY <2>2, <2>3, Zenon DEF Source, V
<1>10. Source(x1, x3) /\ Source(x1, x4)
  <2>1. CASE /\ x3 = [u EXCEPT ![s] = [k \in DOMAIN @ |-> StartupOf!Unset]]
             /\ x4 = n
    BY <1>8, <2>1
  <2>2. CASE ~(/\ x3 = [u EXCEPT ![s] = [k \in DOMAIN @ |-> StartupOf!Unset]]
               /\ x4 = n)
    <3>1. PICK i \in DOMAIN d[s], j \in DOMAIN d[s] :
            \E fi, ei \in {StartupOf!Unset} \cup StartupOf!Odd(i),
               fj, ej \in {StartupOf!Unset} \cup StartupOf!Odd(j) :
              /\ i = j => fi = fj /\ ei = ej
              /\ x3 = [u EXCEPT ![s][i] = fi, ![s][j] = fj]
              /\ x4 = [n EXCEPT ![s][i] = ei, ![s][j] = ej]
      BY <1>6, <2>2, Zenon
    <3>2. PICK fi \in {StartupOf!Unset} \cup StartupOf!Odd(i),
               ei \in {StartupOf!Unset} \cup StartupOf!Odd(i),
               fj \in {StartupOf!Unset} \cup StartupOf!Odd(j),
               ej \in {StartupOf!Unset} \cup StartupOf!Odd(j) :
              /\ i = j => fi = fj /\ ei = ej
              /\ x3 = [u EXCEPT ![s][i] = fi, ![s][j] = fj]
              /\ x4 = [n EXCEPT ![s][i] = ei, ![s][j] = ej]
      BY <3>1, Zenon
    <3>. QED BY <1>9, <3>2, Zenon
  <2>. QED BY <2>1, <2>2
<1>. QED BY <1>5, <1>10

\* The settings and the retries that WithConfigPath would store.
Settings == [s \in DOMAIN x3 |-> [k \in DOMAIN x3[s] |-> StartupOf!Deserialized(s, k)]]

Retries ==
  IF x1 = "application" /\ StartupOf!Mentioned("lock_settings")
    THEN StartupOf!LockRetries(StartupOf!Given("lock_settings", "expiry"),
                               StartupOf!Given("lock_settings", "delay"))
    ELSE 0

Rejected == StartupOf!Missing \/ StartupOf!DividesByZero

Invalid == IF x1 = "drainer" THEN StartupOf!DrainerInvalid ELSE StartupOf!ApplicationInvalid

\* They are those of the sources, which no step changes.
LEMMA SourcesFixed ==
  ASSUME UNCHANGED <<x1, x3, x4>>
  PROVE  /\ Settings' = Settings /\ Retries' = Retries /\ (Rejected' <=> Rejected)
         /\ StartupOf!UsualInEffect' <=> StartupOf!UsualInEffect
<1>1. x1' = x1 /\ x3' = x3 /\ x4' = x4
  OBVIOUS
<1>6. \A s, k : StartupOf!Given(s, k)' = StartupOf!Given(s, k)
  BY <1>1, Zenon DEF StartupOf!Given
<1>7. \A s : StartupOf!Mentioned(s)' <=> StartupOf!Mentioned(s)
  BY <1>1, <1>6, Zenon DEF StartupOf!Mentioned
<1>8. \A s, k : StartupOf!Deserialized(s, k)' = StartupOf!Deserialized(s, k)
  <2>. TAKE s, k
  <2>1. StartupOf!Given(s, k)' = StartupOf!Given(s, k)
    BY <1>6, Zenon
  <2>2. StartupOf!Mentioned(s)' <=> StartupOf!Mentioned(s)
    BY <1>7, Zenon
  <2>. QED BY <1>1, <2>1, <2>2 DEF StartupOf!Deserialized
<1>2. Settings' = Settings
  BY <1>1, <1>8, Zenon DEF Settings
<1>3. Retries' = Retries
  <2>1. StartupOf!Given("lock_settings", "expiry")' = StartupOf!Given("lock_settings", "expiry")
    BY <1>6, Zenon
  <2>2. StartupOf!Given("lock_settings", "delay")' = StartupOf!Given("lock_settings", "delay")
    BY <1>6, Zenon
  <2>3. StartupOf!Mentioned("lock_settings")' <=> StartupOf!Mentioned("lock_settings")
    BY <1>7, Zenon
  <2>. QED BY <1>1, <2>1, <2>2, <2>3 DEF Retries
<1>4. Rejected' <=> Rejected
  BY <1>1, <1>6, <1>7, Zenon DEF Rejected, StartupOf!Missing, StartupOf!DividesByZero
<1>5. StartupOf!UsualInEffect' <=> StartupOf!UsualInEffect
  BY <1>1, Zenon DEF StartupOf!UsualInEffect, StartupOf!InEffect
<1>. QED BY <1>2, <1>3, <1>4, <1>5

LEMMA InvalidFixed ==
  ASSUME UNCHANGED <<x1, x2, x6, x7>>
  PROVE  Invalid' <=> Invalid
<1>1. x1' = x1 /\ x2' = x2 /\ x6' = x6 /\ x7' = x7
  OBVIOUS
<1>2. StartupOf!DrainerInvalid' <=> StartupOf!DrainerInvalid
  BY <1>1, Zenon DEF StartupOf!DrainerInvalid, StartupOf!SecretsManagerInvalid,
                     StartupOf!EncryptionManagerInvalid
<1>3. StartupOf!ApplicationInvalid' <=> StartupOf!ApplicationInvalid
  BY <1>1, Zenon DEF StartupOf!ApplicationInvalid, StartupOf!SecretsManagerInvalid,
                     StartupOf!LockInvalid
<1>. QED BY <1>1, <1>2, <1>3 DEF Invalid

\* What the defaults are where validation does not ask for more.
LEMMA DefaultsNat ==
  ASSUME NEW p \in {"drainer", "application"}, NEW d, d = StartupOf!Defaults(p),
         NEW s \in DOMAIN d, NEW k \in DOMAIN d[s]
  PROVE  d[s][k] \in Nat
<1>1. CASE p = "drainer"
  <2>1. s \in {"server", "master_database", "redis", "drainer",
               "secrets_management", "encryption_management"}
    BY <1>1, DrainerKeys
  <2>2. d[s] = CASE s = "server" -> StartupOf!ServerDefaults
                 [] s = "master_database" -> StartupOf!DatabaseDefaults
                 [] s = "redis" -> StartupOf!RedisDefaults
                 [] s = "drainer" -> StartupOf!DrainerSettings
                 [] OTHER -> StartupOf!ManagerDefaults
    BY <1>1, <2>1 DEF StartupOf!Defaults, StartupOf!DrainerDefaults
  <2>. QED BY <2>1, <2>2
       DEF StartupOf!ServerDefaults, StartupOf!DatabaseDefaults, StartupOf!RedisDefaults,
           StartupOf!DrainerSettings, StartupOf!ManagerDefaults
<1>2. CASE p = "application"
  <2>1. s \in {"server", "master_database", "redis", "log", "secrets", "locker", "cors",
               "scheduler", "jwekey", "api_keys", "lock_settings", "secrets_management"}
    BY <1>2, ApplicationKeys
  <2>2. d = StartupOf!ApplicationDefaults
    BY <1>2 DEF StartupOf!Defaults
  <2>3. CASE s \in {"server", "master_database", "redis", "secrets_management"}
    <3>1. d[s] = CASE s = "server" -> StartupOf!ServerDefaults
                   [] s = "redis" -> StartupOf!RedisDefaults
                   [] s = "secrets_management" -> StartupOf!ManagerDefaults
                   [] OTHER -> StartupOf!DatabaseDefaults
      BY <2>2, <2>3 DEF StartupOf!ApplicationDefaults
    <3>. QED BY <2>3, <3>1
         DEF StartupOf!ServerDefaults, StartupOf!DatabaseDefaults, StartupOf!RedisDefaults,
             StartupOf!ManagerDefaults
  <2>4. CASE s \in {"log", "secrets", "locker", "cors"}
    BY <2>2, <2>4 DEF StartupOf!ApplicationDefaults
  <2>5. CASE s \in {"scheduler", "jwekey", "api_keys", "lock_settings"}
    BY <2>2, <2>5 DEF StartupOf!ApplicationDefaults
  <2>. QED BY <2>1, <2>3, <2>4, <2>5
<1>. QED BY <1>1, <1>2

\* A process that has read its sources.
Sources ==
  x1 \in {"drainer", "application"} /\ Source(x1, x3) /\ Source(x1, x4)

\* The settings there are, and where each comes from.
LEMMA SettingsOf ==
  ASSUME Sources, NEW d, d = StartupOf!Defaults(x1),
         NEW s \in DOMAIN d, NEW k \in DOMAIN d[s]
  PROVE  /\ s \in DOMAIN x3 /\ k \in DOMAIN x3[s]
         /\ StartupOf!Given(s, k) \in Nat \cup {-1}
         /\ DOMAIN Settings = DOMAIN d /\ DOMAIN Settings[s] = DOMAIN d[s]
         /\ Settings[s][k] = StartupOf!Deserialized(s, k)
         /\ Settings[s][k] \in Nat
         /\ s # "cors" =>
              Settings[s][k] = IF StartupOf!Given(s, k) = -1 THEN d[s][k]
                               ELSE StartupOf!Given(s, k)
<1>1. /\ DOMAIN x3 = DOMAIN d /\ x3[s] \in [DOMAIN d[s] -> Nat \cup {-1}]
      /\ x4[s] \in [DOMAIN d[s] -> Nat \cup {-1}]
  BY Zenon DEF Sources, Source
<1>2. StartupOf!Given(s, k) \in Nat \cup {-1}
  BY <1>1 DEF StartupOf!Given
<1>3. DOMAIN Settings = DOMAIN d /\ DOMAIN Settings[s] = DOMAIN d[s]
  BY <1>1 DEF Settings
<1>4. Settings[s][k] = StartupOf!Deserialized(s, k)
  BY <1>1 DEF Settings
<1>5. d[s][k] \in Nat
  BY DefaultsNat, Zenon DEF Sources
<1>6. StartupOf!Deserialized(s, k) \in Nat
  BY <1>2, <1>5 DEF StartupOf!Deserialized, StartupOf!Unset
<1>7. s # "cors" => StartupOf!Deserialized(s, k) =
                      IF StartupOf!Given(s, k) = -1 THEN d[s][k] ELSE StartupOf!Given(s, k)
  BY <1>2, <1>5 DEF StartupOf!Deserialized, StartupOf!Unset
<1>. QED BY <1>1, <1>2, <1>3, <1>4, <1>6, <1>7

LEMMA UsualSettings ==
  ASSUME Sources, StartupOf!UsualInEffect, NEW d, d = StartupOf!Defaults(x1),
         NEW s \in DOMAIN d, NEW k \in DOMAIN d[s]
  PROVE  /\ StartupOf!Given(s, k) = UsualValue(k)
         /\ StartupOf!Given(s, k) # -1
         /\ Settings[s][k] = IF s = "cors" /\ k = "origins" THEN 1 ELSE UsualValue(k)
<1>1. s \in DOMAIN x3 /\ k \in DOMAIN x3[s] /\ Settings[s][k] = StartupOf!Deserialized(s, k)
  BY SettingsOf
<1>2. StartupOf!InEffect(s, k) = StartupOf!Usual(x1)[s][k]
  BY <1>1, Zenon DEF StartupOf!UsualInEffect
<1>3. StartupOf!Usual(x1)[s][k] = UsualValue(k)
  BY UsualIs
<1>4. StartupOf!Given(s, k) = StartupOf!InEffect(s, k)
  BY DEF StartupOf!Given, StartupOf!InEffect
<1>5. UsualValue(k) # -1
  BY DEF UsualValue
<1>6. StartupOf!Mentioned(s)
  BY <1>1, <1>2, <1>3, <1>4, <1>5 DEF StartupOf!Mentioned, StartupOf!Unset
<1>. HIDE DEF UsualValue
<1>7. StartupOf!Deserialized(s, k) = IF s = "cors" /\ k = "origins" THEN 1 ELSE UsualValue(k)
  BY <1>2, <1>3, <1>4, <1>5, <1>6 DEF StartupOf!Deserialized, StartupOf!Unset
<1>. QED BY <1>1, <1>2, <1>3, <1>4, <1>5, <1>7

\* Deserialization takes the usual settings.
LEMMA UsualAccepted ==
  ASSUME Sources, StartupOf!UsualInEffect
  PROVE  ~Rejected /\ (x1 = "application" => Retries = 4)
<1>1. CASE x1 = "drainer"
  BY <1>1 DEF Rejected, StartupOf!Missing, StartupOf!DividesByZero
<1>2. CASE x1 = "application"
  <2>. DEFINE d == StartupOf!Defaults(x1)
  <2>1. /\ "cors" \in DOMAIN d /\ "lock_settings" \in DOMAIN d
        /\ "max_age" \in DOMAIN d["cors"] /\ "allowed_methods" \in DOMAIN d["cors"]
        /\ "expiry" \in DOMAIN d["lock_settings"] /\ "delay" \in DOMAIN d["lock_settings"]
    BY <1>2, ApplicationKeys
  <2>2. /\ StartupOf!Given("cors", "max_age") # -1
        /\ StartupOf!Given("cors", "allowed_methods") # -1
    BY <2>1, UsualSettings
  <2>3. /\ StartupOf!Given("lock_settings", "expiry") = 2
        /\ StartupOf!Given("lock_settings", "delay") = 500
    BY <2>1, UsualSettings DEF UsualValue
  <2>4. "expiry" \in DOMAIN x3["lock_settings"]
    BY <2>1, SettingsOf
  <2>5. StartupOf!Mentioned("lock_settings")
    BY <2>3, <2>4 DEF StartupOf!Mentioned, StartupOf!Unset
  <2>6. ~Rejected
    BY <2>2, <2>3 DEF Rejected, StartupOf!Missing, StartupOf!DividesByZero, StartupOf!Unset
  <2>7. StartupOf!LockRetries(2, 500) = 4
    <3>1. (2 * 1000) % (MaxU32 + 1) = 2000
      BY WidthAssumption
    <3>. QED BY <3>1 DEF StartupOf!LockRetries
  <2>8. Retries = 4
    BY <1>2, <2>3, <2>5, <2>7 DEF Retries
  <2>. QED BY <2>6, <2>8
<1>. QED BY <1>1, <1>2 DEF Sources

\* And no validator refuses them.
LEMMA UsualValid ==
  ASSUME Sources, StartupOf!UsualInEffect, x6 = Settings, x7 = Retries
  PROVE  ~Invalid
<1>. DEFINE d == StartupOf!Defaults(x1)
<1>1. \A s \in DOMAIN d : \A k \in DOMAIN d[s] :
        x6[s][k] = IF s = "cors" /\ k = "origins" THEN 1 ELSE UsualValue(k)
  BY UsualSettings, Zenon
<1>2. CASE x1 = "drainer"
  <2>1. /\ DOMAIN d = {"server", "master_database", "redis", "drainer",
                        "secrets_management", "encryption_management"}
        /\ DOMAIN d["server"] = {"host", "workers"}
        /\ DOMAIN d["master_database"] = {"host", "dbname", "username", "password"}
        /\ DOMAIN d["redis"] = {"host", "cluster_enabled", "cluster_urls",
                                "default_command_timeout", "unresponsive_timeout"}
        /\ DOMAIN d["drainer"] = {"stream_name", "num_partitions"}
        /\ DOMAIN d["secrets_management"] = {"key_id", "region"}
        /\ DOMAIN d["encryption_management"] = {"key_id", "region"}
    BY <1>2, DrainerKeys
  <2>. HIDE DEF d
  <2>2. x6["server"]["host"] = 1 /\ x6["drainer"]["stream_name"] = 1
    BY <1>1, <2>1 DEF UsualValue
  <2>3. ~StartupOf!DatabaseInvalid(x6["master_database"])
    BY <1>1, <2>1 DEF UsualValue, StartupOf!DatabaseInvalid, StartupOf!Blank
  <2>4. ~StartupOf!RedisInvalid(x6["redis"])
    BY <1>1, <2>1 DEF UsualValue, StartupOf!RedisInvalid, StartupOf!Blank
  <2>5. ~StartupOf!SecretsManagerInvalid(x6["secrets_management"])
    BY <1>1, <2>1 DEF UsualValue, StartupOf!SecretsManagerInvalid, StartupOf!KmsInvalid,
                      StartupOf!VaultInvalid, StartupOf!Blank
  <2>6. ~StartupOf!EncryptionManagerInvalid(x6["encryption_management"])
    BY <1>1, <2>1 DEF UsualValue, StartupOf!EncryptionManagerInvalid, StartupOf!KmsInvalid,
                      StartupOf!Blank
  <2>. QED BY <1>2, <2>2, <2>3, <2>4, <2>5, <2>6
       DEF Invalid, StartupOf!DrainerInvalid, StartupOf!Blank
<1>3. CASE x1 = "application"
  <2>1. /\ DOMAIN d = {"server", "master_database", "redis", "log", "secrets", "locker",
                       "cors", "scheduler", "jwekey", "api_keys", "lock_settings",
                       "secrets_management"}
        /\ DOMAIN d["server"] = {"host", "workers"}
        /\ DOMAIN d["master_database"] = {"host", "dbname", "username", "password"}
        /\ DOMAIN d["redis"] = {"host", "cluster_enabled", "cluster_urls",
                                "default_command_timeout", "unresponsive_timeout"}
    BY <1>3, ApplicationKeys
  <2>2. /\ DOMAIN d["log"] = {"enabled", "file_name", "path"}
        /\ DOMAIN d["secrets"] = {"jwt_secret", "admin_api_key", "recon_admin_api_key",
                                  "master_enc_key"}
        /\ DOMAIN d["locker"] = {"mock_locker", "host", "basilisk_host"}
        /\ DOMAIN d["cors"] = {"origins", "wildcard_origin", "max_age", "allowed_methods"}
    BY <1>3, ApplicationKeys
  <2>3. /\ DOMAIN d["scheduler"] = {"stream", "consumer_group", "lock_key", "host", "workers"}
        /\ DOMAIN d["api_keys"] = {"hash_key"}
        /\ DOMAIN d["lock_settings"] = {"expiry", "delay"}
        /\ DOMAIN d["secrets_management"] = {"key_id", "region"}
    BY <1>3, ApplicationKeys
  <2>4. x7 = 4
    BY <1>3, UsualAccepted
  <2>. HIDE DEF d
  <2>5. x6["server"]["host"] = 1 /\ x6["server"]["workers"] = 1
    BY <1>1, <2>1 DEF UsualValue
  <2>6. ~StartupOf!DatabaseInvalid(x6["master_database"])
    BY <1>1, <2>1 DEF UsualValue, StartupOf!DatabaseInvalid, StartupOf!Blank
  <2>7. ~StartupOf!RedisInvalid(x6["redis"])
    BY <1>1, <2>1 DEF UsualValue, StartupOf!RedisInvalid, StartupOf!Blank
  <2>8. x6["log"]["file_name"] = 1 /\ x6["log"]["path"] = 1
    BY <1>1, <2>1, <2>2 DEF UsualValue
  <2>9. ~StartupOf!SecretsInvalid(x6["secrets"])
    BY <1>1, <2>1, <2>2 DEF UsualValue, StartupOf!SecretsInvalid, StartupOf!Blank
  <2>10. ~StartupOf!LockerInvalid(x6["locker"])
    BY <1>1, <2>1, <2>2 DEF UsualValue, StartupOf!LockerInvalid, StartupOf!Blank
  <2>11. ~StartupOf!CorsInvalid(x6["cors"])
    BY <1>1, <2>1, <2>2 DEF UsualValue, StartupOf!CorsInvalid
  <2>12. ~StartupOf!SchedulerInvalid(x6["scheduler"])
    BY <1>1, <2>1, <2>3 DEF UsualValue, StartupOf!SchedulerInvalid, StartupOf!Blank
  <2>13. x6["api_keys"]["hash_key"] = 1
    BY <1>1, <2>1, <2>3 DEF UsualValue
  <2>14. ~StartupOf!LockInvalid(x6["lock_settings"])
    BY <1>1, <2>1, <2>3, <2>4 DEF UsualValue, StartupOf!LockInvalid, StartupOf!Blank
  <2>15. ~StartupOf!SecretsManagerInvalid(x6["secrets_management"])
    BY <1>1, <2>1, <2>3 DEF UsualValue, StartupOf!SecretsManagerInvalid,
                            StartupOf!KmsInvalid, StartupOf!VaultInvalid, StartupOf!Blank
  <2>. QED BY <1>3, <2>5, <2>6, <2>7, <2>8, <2>9, <2>10, <2>11, <2>12, <2>13, <2>14, <2>15
       DEF Invalid, StartupOf!ApplicationInvalid, StartupOf!Blank
<1>. QED BY <1>2, <1>3 DEF Sources

\* What the validators of the drainer let through names its stores.
LEMMA ValidStores ==
  ASSUME Sources, x6 = Settings, ~StartupOf!DrainerInvalid, x1 = "drainer"
  PROVE  StartupOf!StoresAreNamed
<1>. DEFINE d == StartupOf!Defaults(x1)
<1>1. /\ "redis" \in DOMAIN d /\ "master_database" \in DOMAIN d
      /\ DOMAIN d["master_database"] = {"host", "dbname", "username", "password"}
      /\ DOMAIN d["redis"] = {"host", "cluster_enabled", "cluster_urls",
                              "default_command_timeout", "unresponsive_timeout"}
  BY DrainerKeys
<1>2. DOMAIN x6["master_database"] = {"host", "dbname", "username", "password"}
  BY <1>1, SettingsOf
<1>3. /\ x6["redis"]["default_command_timeout"] \in Nat
      /\ x6["redis"]["unresponsive_timeout"] \in Nat
  BY <1>1, SettingsOf
<1>4. /\ ~StartupOf!DatabaseInvalid(x6["master_database"])
      /\ ~StartupOf!RedisInvalid(x6["redis"])
      /\ ~StartupOf!Blank(x6["drainer"]["stream_name"])
  BY DEF StartupOf!DrainerInvalid
<1>. HIDE DEF d
<1>5. \A k \in DOMAIN x6["master_database"] : x6["master_database"][k] # 0
  BY <1>2, <1>4 DEF StartupOf!DatabaseInvalid, StartupOf!Blank
<1>6. x6["redis"]["default_command_timeout"] >= x6["redis"]["unresponsive_timeout"]
  BY <1>3, <1>4 DEF StartupOf!RedisInvalid
<1>7. /\ x6["redis"]["host"] # 0 /\ x6["drainer"]["stream_name"] # 0
      /\ x6["redis"]["cluster_enabled"] # 0 => x6["redis"]["cluster_urls"] # 0
  BY <1>4 DEF StartupOf!RedisInvalid, StartupOf!Blank
<1>. QED BY <1>5, <1>6, <1>7 DEF StartupOf!StoresAreNamed

\* The division of LockSettings::deserialize.
LEMMA Division ==
  ASSUME NEW t \in Nat, NEW n \in Nat, n # 0
  PROVE  /\ t \div n \in Nat /\ (t \div n) * n \in Nat
         /\ (t \div n) * n <= t /\ t < (t \div n) * n + n
<1>1. t % n \in 0..(n - 1)
  OBVIOUS
<1>2. t = n * (t \div n) + (t % n) /\ t \div n \in Nat
  OBVIOUS
<1>. DEFINE q == t \div n
            r == t % n
<1>. HIDE DEF q, r
<1>3. q \in Nat /\ n * q \in Nat /\ n * q = q * n /\ t = n * q + r /\ r \in 0..(n - 1)
  BY <1>1, <1>2 DEF q, r
<1>4. q \in Nat /\ q * n \in Nat /\ q * n <= t /\ t < q * n + n
  BY <1>3
<1>. QED BY <1>4 DEF q

\* Whatever the settings of a lock, the wait for it fits the time it is held; the
\* validators only let through settings with a wait.
LEMMA LockFits ==
  ASSUME Sources, x6 = Settings, x7 = Retries, ~Rejected, x1 = "application"
  PROVE  StartupOf!LockWaitFitsExpiry
<1>. DEFINE d == StartupOf!Defaults(x1)
            c == x6["lock_settings"]
            e == c["expiry"]
            l == c["delay"]
            ms == (e * 1000) % (MaxU32 + 1)
<1>1. /\ "lock_settings" \in DOMAIN d /\ "expiry" \in DOMAIN d["lock_settings"]
      /\ "delay" \in DOMAIN d["lock_settings"]
  BY ApplicationKeys
<1>2. ~StartupOf!ApplicationInvalid => e # 0 /\ l # 0 /\ x7 # 0
  BY DEF StartupOf!ApplicationInvalid, StartupOf!LockInvalid, StartupOf!Blank
<1>3. e \in Nat /\ l \in Nat
  BY <1>1, SettingsOf
<1>4. CASE ~StartupOf!Mentioned("lock_settings")
  <2>1. x7 = 0
    BY <1>4 DEF Retries
  <2>. HIDE DEF e, l
  <2>2. x7 * l <= e * 1000
    BY <1>3, <2>1
  <2>. QED BY <1>2, <2>1, <2>2 DEF StartupOf!LockWaitFitsExpiry, e, l
<1>5. CASE StartupOf!Mentioned("lock_settings")
  <2>1. /\ StartupOf!Given("lock_settings", "expiry") # -1
        /\ StartupOf!Given("lock_settings", "delay") # -1
        /\ StartupOf!Given("lock_settings", "delay") # 0
    BY <1>5 DEF Rejected, StartupOf!Missing, StartupOf!DividesByZero, StartupOf!Unset
  <2>2. /\ StartupOf!Given("lock_settings", "expiry") = e
        /\ StartupOf!Given("lock_settings", "delay") = l
    BY <1>1, <2>1, SettingsOf
  <2>3. x7 = ms \div l /\ l # 0
    BY <1>5, <2>1, <2>2 DEF Retries, StartupOf!LockRetries
  <2>. HIDE DEF d, e, l
  <2>4. /\ ms \in Nat /\ ms <= e * 1000
        /\ e * 1000 <= MaxU32 => ms = e * 1000
    <3>. DEFINE t == e * 1000
                w == MaxU32 + 1
    <3>1. t \in Nat /\ w \in Nat \ {0}
      BY <1>3, WidthAssumption
    <3>. HIDE DEF t, w
    <3>2. t % w \in Nat /\ t % w <= t /\ (t < w => t % w = t)
      <4>1. t % w \in 0 .. w - 1
        BY <3>1
      <4>2. CASE t < w
        BY <3>1, <4>1, <4>2
      <4>3. CASE ~(t < w)
        BY <3>1, <4>1, <4>3
      <4>. QED BY <4>2, <4>3
    <3>. QED BY <3>1, <3>2, WidthAssumption DEF t, w
  <2>. HIDE DEF ms
  <2>5. /\ ms \div l \in Nat /\ (ms \div l) * l \in Nat
        /\ (ms \div l) * l <= ms /\ ms < (ms \div l) * l + l
    BY <1>3, <2>3, <2>4, Division
  <2>6. /\ x7 \in Nat /\ x7 * l <= e * 1000
        /\ e * 1000 <= MaxU32 => x7 * l > e * 1000 - l
    <3>. DEFINE r == ms \div l
                g == r * l
                t == e * 1000
    <3>1. t \in Nat
      BY <1>3
    <3>2. g <= t /\ (t <= MaxU32 => g > t - l)
      <4>. HIDE DEF r, t
      <4>1. g \in Nat /\ g <= ms /\ ms < g + l
        BY <2>5 DEF r
      <4>2. ms <= t /\ (t <= MaxU32 => ms = t)
        BY <2>4 DEF t
      <4>. HIDE DEF g
      <4>. QED BY <1>3, <2>4, <3>1, <4>1, <4>2
    <3>. QED BY <2>3, <2>5, <3>2
  <2>. QED BY <1>2, <2>6 DEF StartupOf!LockWaitFitsExpiry, e, l
<1>. QED BY <1>4, <1>5

\* What is known of a process that starts: its sources, that its settings are
\* theirs once they are read, that those of a drainer are valid before any secret
\* is fetched, and that the usual ones are valid and not refused.
StartupInv ==
  /\ Sources
  /\ x5 = "validate" => x1 = "drainer"
  /\ x5 \in {"validate", "client", "secrets", "running"} =>
       x6 = Settings /\ x7 = Retries /\ ~Rejected
  /\ x5 \in {"client", "secrets", "running"} /\ x1 = "drainer" => ~Invalid
  /\ x5 = "refused" => ~StartupOf!UsualInEffect

LEMMA StartupInvStep ==
  ASSUME StartupInv, [StartupOf!Next]_(StartupOf!vars)
  PROVE  StartupInv'
<1>1. UNCHANGED <<x1, x2, x3, x4>>
  BY DEF StartupOf!Next, StartupOf!vars, StartupOf!WithConfigPath,
         StartupOf!WithConfigPathFails, StartupOf!Validate, StartupOf!MakeSecretsClient,
         StartupOf!FetchRawSecrets, StartupOf!FetchFails, StartupOf!SetUpDrainer,
         StartupOf!SetUpApplication
<1>2. /\ Settings' = Settings /\ Retries' = Retries /\ (Rejected' <=> Rejected)
      /\ StartupOf!UsualInEffect' <=> StartupOf!UsualInEffect
  BY <1>1, SourcesFixed
<1>3. Sources'
  BY <1>1 DEF StartupInv, Sources, Source
<1>4. CASE StartupOf!WithConfigPath
  BY <1>2, <1>3, <1>4
     DEF StartupInv, StartupOf!WithConfigPath, Settings, Retries, Rejected
<1>5. CASE StartupOf!WithConfigPathFails
  BY <1>2, <1>3, <1>5, UsualAccepted
     DEF StartupInv, StartupOf!WithConfigPathFails, Rejected
<1>6. CASE StartupOf!Validate
  <2>1. /\ x5 = "validate" /\ UNCHANGED <<x1, x2, x6, x7>>
        /\ x5' = IF Invalid THEN "refused" ELSE "client"
    BY <1>6 DEF StartupOf!Validate, StartupInv, Invalid
  <2>2. Invalid' <=> Invalid
    BY <2>1, InvalidFixed
  <2>3. x6 = Settings /\ x7 = Retries /\ ~Rejected /\ Sources
    BY <2>1 DEF StartupInv
  <2>4. StartupOf!UsualInEffect => ~Invalid
    BY <2>3, UsualValid
  <2>. QED BY <1>2, <1>3, <2>1, <2>2, <2>3, <2>4 DEF StartupInv
<1>7. CASE \/ StartupOf!MakeSecretsClient \/ StartupOf!FetchRawSecrets \/ StartupOf!FetchFails
           \/ StartupOf!SetUpDrainer \/ StartupOf!SetUpApplication \/ UNCHANGED StartupOf!vars
  <2>1. UNCHANGED <<x1, x2, x6, x7>>
    BY <1>7 DEF StartupOf!MakeSecretsClient, StartupOf!FetchRawSecrets, StartupOf!FetchFails,
                StartupOf!SetUpDrainer, StartupOf!SetUpApplication, StartupOf!vars
  <2>2. Invalid' <=> Invalid
    BY <2>1, InvalidFixed
  <2>3. \/ x5' = x5
        \/ x5 \in {"client", "secrets"} /\ x5' \in {"secrets", "running", "panicked"}
    BY <1>7 DEF StartupOf!MakeSecretsClient, StartupOf!FetchRawSecrets, StartupOf!FetchFails,
                StartupOf!SetUpDrainer, StartupOf!SetUpApplication, StartupOf!vars
  <2>. QED BY <1>2, <1>3, <2>1, <2>2, <2>3 DEF StartupInv
<1>. QED BY <1>4, <1>5, <1>6, <1>7 DEF StartupOf!Next

LEMMA StartupInvariant == Spec => [](focus = "Startup" => StartupInv)
<1>. DEFINE Inv == focus = "Startup" => StartupInv
<1>1. Init => Inv
  <2>1. StartupOf!Init => StartupInv
    <3>. SUFFICES ASSUME StartupOf!Init PROVE StartupInv
      OBVIOUS
    <3>1. Sources
      BY InitSources DEF Sources
    <3>2. x5 = "load"
      BY DEF StartupOf!Init
    <3>. QED BY <3>1, <3>2 DEF StartupInv
  <2>. QED BY <2>1 DEF Init
<1>2. Inv /\ [Next]_vars => Inv'
  <2>. SUFFICES ASSUME StartupInv, [Next]_vars, focus = "Startup" PROVE StartupInv'
    BY FocusKept
  <2>1. [StartupOf!Next]_(StartupOf!vars)
    BY DEF Next, vars, StartupOf!vars
  <2>. QED BY <2>1, StartupInvStep
<1>. QED BY <1>1, <1>2, PTL DEF Spec

\* Settings of drainer and application, whatever the sources of a start give: the
\* usual ones are refused by nothing, a drainer that runs has stores with names,
\* and an application waits for a lock no longer than the lock is held.
THEOREM UsableKept == Spec => []RunsOnlyUsable
<1>1. StartupInv => StartupOf!RunsOnlyUsable
  <2>. SUFFICES ASSUME StartupInv PROVE StartupOf!RunsOnlyUsable
    OBVIOUS
  <2>1. StartupOf!UsualInEffect => x5 # "refused"
    BY DEF StartupInv
  <2>2. ASSUME StartupOf!UsualInEffect, x1 = "application", x5 = "client"
        PROVE  ~StartupOf!ApplicationInvalid
    <3>1. Sources /\ x6 = Settings /\ x7 = Retries
      BY <2>2 DEF StartupInv
    <3>2. ~Invalid
      BY <2>2, <3>1, UsualValid
    <3>. QED BY <2>2, <3>2 DEF Invalid
  <2>3. ASSUME x5 = "running", x1 = "drainer"
        PROVE  StartupOf!StoresAreNamed
    <3>1. Sources /\ x6 = Settings /\ ~StartupOf!DrainerInvalid
      BY <2>3 DEF StartupInv, Invalid
    <3>. QED BY <2>3, <3>1, ValidStores
  <2>4. ASSUME x5 = "running", x1 # "drainer"
        PROVE  StartupOf!LockWaitFitsExpiry
    <3>1. Sources /\ x6 = Settings /\ x7 = Retries /\ ~Rejected /\ x1 = "application"
      BY <2>4 DEF StartupInv, Sources
    <3>. QED BY <3>1, LockFits
  <2>. QED BY <2>1, <2>2, <2>3, <2>4 DEF StartupOf!RunsOnlyUsable
<1>2. (focus = "Startup" => StartupInv) => RunsOnlyUsable
  BY <1>1 DEF RunsOnlyUsable
<1>. QED BY <1>2, StartupInvariant, PTL

\* The sections of a program that have secrets, and the secrets of a section.
Secured(p) ==
  IF p = "drainer" THEN {"master_database"}
  ELSE {"master_database", "secrets", "jwekey", "api_keys"}

SecretKeys(s) == {StartupOf!Bound(s)[i] : i \in DOMAIN StartupOf!Bound(s)}

\* The results of the calls are bound in the order of the calls, and every
\* secret of a section is among them.
LEMMA SecretsBound ==
  ASSUME NEW s \in Secured("application")
  PROVE  /\ StartupOf!Fetched(s) = StartupOf!Bound(s)
         /\ s = "master_database" => "password" \in SecretKeys(s)
         /\ s = "api_keys" => "hash_key" \in SecretKeys(s)
         /\ s = "secrets" => {"jwt_secret", "admin_api_key", "recon_admin_api_key",
                              "master_enc_key"} \subseteq SecretKeys(s)
         /\ s = "jwekey" => {"vault_encryption_key", "rust_locker_encryption_key",
                             "vault_private_key", "tunnel_private_key"} \subseteq SecretKeys(s)
<1>1. s \in {"master_database", "secrets", "jwekey", "api_keys"}
  BY DEF Secured
<1>2. StartupOf!Fetched(s) = StartupOf!Bound(s)
  BY <1>1 DEF StartupOf!Fetched, StartupOf!Bound
<1>3. CASE s = "master_database"
  <2>1. StartupOf!Bound(s) = <<"password">>
    BY <1>3 DEF StartupOf!Bound
  <2>2. 1 \in DOMAIN StartupOf!Bound(s) /\ StartupOf!Bound(s)[1] = "password"
    BY <2>1
  <2>. QED BY <1>2, <1>3, <2>2 DEF SecretKeys
<1>4. CASE s = "api_keys"
  <2>1. StartupOf!Bound(s) = <<"hash_key">>
    BY <1>4 DEF StartupOf!Bound
  <2>2. 1 \in DOMAIN StartupOf!Bound(s) /\ StartupOf!Bound(s)[1] = "hash_key"
    BY <2>1
  <2>. QED BY <1>2, <1>4, <2>2 DEF SecretKeys
<1>5. CASE s = "secrets"
  <2>1. StartupOf!Bound(s) = <<"jwt_secret", "admin_api_key", "recon_admin_api_key",
                               "master_enc_key">>
    BY <1>5 DEF StartupOf!Bound
  <2>2. /\ DOMAIN StartupOf!Bound(s) = 1..4
        /\ StartupOf!Bound(s)[1] = "jwt_secret" /\ StartupOf!Bound(s)[2] = "admin_api_key"
        /\ StartupOf!Bound(s)[3] = "recon_admin_api_key"
        /\ StartupOf!Bound(s)[4] = "master_enc_key"
    BY <2>1
  <2>3. 1 \in 1..4 /\ 2 \in 1..4 /\ 3 \in 1..4 /\ 4 \in 1..4
    OBVIOUS
  <2>. QED BY <1>2, <1>5, <2>2, <2>3 DEF SecretKeys
<1>6. CASE s = "jwekey"
  <2>1. StartupOf!Bound(s) = <<"vault_encryption_key", "rust_locker_encryption_key",
                               "vault_private_key", "tunnel_private_key">>
    BY <1>6 DEF StartupOf!Bound
  <2>2. /\ DOMAIN StartupOf!Bound(s) = 1..4
        /\ StartupOf!Bound(s)[1] = "vault_encryption_key"
        /\ StartupOf!Bound(s)[2] = "rust_locker_encryption_key"
        /\ StartupOf!Bound(s)[3] = "vault_private_key"
        /\ StartupOf!Bound(s)[4] = "tunnel_private_key"
    BY <2>1
  <2>3. 1 \in 1..4 /\ 2 \in 1..4 /\ 3 \in 1..4 /\ 4 \in 1..4
    OBVIOUS
  <2>. QED BY <1>2, <1>6, <2>2, <2>3 DEF SecretKeys
<1>. QED BY <1>1, <1>3, <1>4, <1>5, <1>6

\* The secrets of a section are fetched, each from its own setting.
Done(s) ==
  \A k \in SecretKeys(s) :
    /\ <<s, k>> \in DOMAIN x8
    /\ x8[<<s, k>>] = [of |-> <<s, k>>, text |-> StartupOf!GetSecret(x6[s][k])]

\* A section with secrets is to be fetched, or it is done.
SecretsInv ==
  x5 \in {"secrets", "running"} =>
    /\ x9 \in Seq(Secured(x1))
    /\ \A s \in Secured(x1) : (\E i \in 1..Len(x9) : x9[i] = s) \/ Done(s)
    /\ x5 = "running" => x9 = <<>>

LEMMA FetchSection ==
  ASSUME x9 \in Seq(Secured(x1)), x1 \in {"drainer", "application"},
         StartupOf!FetchRawSecrets,
         NEW s \in Secured(x1), (\E i \in 1..Len(x9) : x9[i] = s) \/ Done(s)
  PROVE  (\E i \in 1..Len(x9') : x9'[i] = s) \/ Done(s)'
<1>. DEFINE h == Head(x9)
            K == {<<h, StartupOf!Bound(h)[i]>> : i \in DOMAIN StartupOf!Bound(h)}
            New(x) == LET i == CHOOSE n \in DOMAIN StartupOf!Bound(h) : StartupOf!Bound(h)[n] = x[2]
                      IN  [of |-> <<h, StartupOf!Fetched(h)[i]>>,
                           text |-> StartupOf!GetSecret(x6[h][StartupOf!Fetched(h)[i]])]
<1>1. /\ x9 # <<>> /\ x9' = Tail(x9) /\ UNCHANGED <<x1, x2, x6>>
      /\ x8' = [x \in DOMAIN x8 \cup K |-> IF x[1] = h THEN New(x) ELSE x8[x]]
  BY Zenon DEF StartupOf!FetchRawSecrets
<1>2. h \in Secured(x1) /\ h = x9[1] /\ Len(x9') = Len(x9) - 1 /\ Len(x9) \in Nat
      /\ \A i \in 2..Len(x9) : x9'[i - 1] = x9[i]
  <2>. HIDE DEF K, New
  <2>. QED BY <1>1
<1>3. h \in Secured("application") /\ StartupOf!Fetched(h) = StartupOf!Bound(h)
  BY <1>2, SecretsBound DEF Secured
<1>4. ASSUME NEW k \in SecretKeys(h)
      PROVE  New(<<h, k>>) = [of |-> <<h, k>>, text |-> StartupOf!GetSecret(x6[h][k])]
  <2>. DEFINE n == CHOOSE m \in DOMAIN StartupOf!Bound(h) : StartupOf!Bound(h)[m] = k
  <2>1. \E m \in DOMAIN StartupOf!Bound(h) : StartupOf!Bound(h)[m] = k
    BY Zenon DEF SecretKeys
  <2>2. StartupOf!Bound(h)[n] = k
    BY <2>1, Zenon
  <2>3. New(<<h, k>>) = [of |-> <<h, StartupOf!Fetched(h)[n]>>,
                         text |-> StartupOf!GetSecret(x6[h][StartupOf!Fetched(h)[n]])]
    OBVIOUS
  <2>. HIDE DEF n, New
  <2>. QED BY <1>3, <2>2, <2>3, Zenon
<1>5. \A v : StartupOf!GetSecret(v)' = StartupOf!GetSecret(v)
  BY <1>1, Zenon DEF StartupOf!GetSecret
<1>6. CASE s = h
  <2>1. ASSUME NEW k \in SecretKeys(h)
        PROVE  /\ <<h, k>> \in DOMAIN x8'
               /\ x8'[<<h, k>>] = [of |-> <<h, k>>, text |-> StartupOf!GetSecret(x6[h][k])]
    <3>1. <<h, k>> \in K
      BY Zenon DEF SecretKeys
    <3>. HIDE DEF K, New, h
    <3>. QED BY <1>1, <1>4, <3>1
  <2>2. \A v : StartupOf!GetSecret(v)' = StartupOf!GetSecret(v)
    BY <1>5
  <2>. HIDE DEF h, K, New
  <2>. QED BY <1>1, <1>6, <2>1, <2>2, Zenon DEF Done
<1>7. CASE s # h /\ \E i \in 1..Len(x9) : x9[i] = s
  <2>1. PICK i \in 1..Len(x9) : x9[i] = s
    BY <1>7
  <2>2. i \in 2..Len(x9) /\ i - 1 \in 1..Len(x9')
    BY <1>2, <1>7, <2>1
  <2>3. x9'[i - 1] = s
    BY <1>2, <2>1, <2>2
  <2>. QED BY <2>2, <2>3
<1>8. CASE s # h /\ Done(s)
  <2>1. ASSUME NEW k \in SecretKeys(s)
        PROVE  /\ <<s, k>> \in DOMAIN x8'
               /\ x8'[<<s, k>>] = [of |-> <<s, k>>, text |-> StartupOf!GetSecret(x6[s][k])]
    <3>1. /\ <<s, k>> \in DOMAIN x8
          /\ x8[<<s, k>>] = [of |-> <<s, k>>, text |-> StartupOf!GetSecret(x6[s][k])]
      BY <1>8, Zenon DEF Done
    <3>. HIDE DEF K, New, h
    <3>2. <<s, k>>[1] # h
      BY <1>8
    <3>. QED BY <1>1, <3>1, <3>2
  <2>. HIDE DEF h, K, New
  <2>. QED BY <1>1, <1>5, <2>1, Zenon DEF Done
<1>. QED BY <1>6, <1>7, <1>8

LEMMA SecretsInvStep ==
  ASSUME x1 \in {"drainer", "application"}, SecretsInv, [StartupOf!Next]_(StartupOf!vars)
  PROVE  SecretsInv'
<1>1. CASE StartupOf!WithConfigPath \/ StartupOf!WithConfigPathFails \/ StartupOf!Validate
  BY <1>1 DEF SecretsInv, StartupOf!WithConfigPath, StartupOf!WithConfigPathFails,
              StartupOf!Validate
<1>2. CASE StartupOf!MakeSecretsClient
  <2>1. /\ x5' \in {"secrets", "panicked"} /\ x1' = x1
        /\ x9' = IF x1 = "drainer" THEN StartupOf!DrainerSecured ELSE StartupOf!ApplicationSecured
    BY <1>2 DEF StartupOf!MakeSecretsClient
  <2>2. CASE x1 = "drainer"
    <3>1. x9' = <<"master_database">> /\ Secured(x1') = {"master_database"}
      BY <2>1, <2>2 DEF StartupOf!DrainerSecured, Secured
    <3>2. Len(x9') = 1 /\ x9'[1] = "master_database" /\ x9' \in Seq(Secured(x1'))
      BY <3>1
    <3>3. \A s \in Secured(x1') : \E i \in 1..Len(x9') : x9'[i] = s
      BY <3>1, <3>2
    <3>. QED BY <2>1, <3>2, <3>3 DEF SecretsInv
  <2>3. CASE x1 = "application"
    <3>1. /\ x9' = <<"master_database", "secrets", "jwekey", "api_keys">>
          /\ Secured(x1') = {"master_database", "secrets", "jwekey", "api_keys"}
      BY <2>1, <2>3 DEF StartupOf!ApplicationSecured, Secured
    <3>2. /\ Len(x9') = 4 /\ x9'[1] = "master_database" /\ x9'[2] = "secrets"
          /\ x9'[3] = "jwekey" /\ x9'[4] = "api_keys"
      BY <3>1
    <3>3. x9' \in Seq(Secured(x1'))
      BY <3>1
    <3>4. 1 \in 1..4 /\ 2 \in 1..4 /\ 3 \in 1..4 /\ 4 \in 1..4
      OBVIOUS
    <3>5. \A s \in Secured(x1') : \E i \in 1..Len(x9') : x9'[i] = s
      BY <3>1, <3>2, <3>4
    <3>. QED BY <2>1, <3>3, <3>5 DEF SecretsInv
  <2>. QED BY <2>2, <2>3
<1>3. CASE StartupOf!FetchRawSecrets
  <2>1. /\ x5 = "secrets" /\ x5' = x5 /\ x1' = x1 /\ x9 # <<>> /\ x9' = Tail(x9)
    BY <1>3 DEF StartupOf!FetchRawSecrets
  <2>2. /\ x9 \in Seq(Secured(x1))
        /\ \A s \in Secured(x1) : (\E i \in 1..Len(x9) : x9[i] = s) \/ Done(s)
    BY <2>1 DEF SecretsInv
  <2>3. \A s \in Secured(x1) : (\E i \in 1..Len(x9') : x9'[i] = s) \/ Done(s)'
    BY <1>3, <2>2, FetchSection
  <2>4. x9' \in Seq(Secured(x1'))
    BY <2>1, <2>2
  <2>5. \A s \in Secured(x1') : ((\E i \in 1..Len(x9) : x9[i] = s) \/ Done(s))'
    BY <2>1, <2>3
  <2>. QED BY <2>1, <2>4, <2>5 DEF SecretsInv
<1>4. CASE \/ StartupOf!FetchFails
           \/ StartupOf!SetUpDrainer \/ StartupOf!SetUpApplication \/ UNCHANGED StartupOf!vars
  <2>1. UNCHANGED <<x1, x2, x6, x8, x9>>
    BY <1>4 DEF StartupOf!FetchFails, StartupOf!SetUpDrainer, StartupOf!SetUpApplication,
                StartupOf!vars
  <2>2. \/ x5' = x5
        \/ x5' = "panicked"
        \/ x5 = "secrets" /\ x9 = <<>>
    BY <1>4 DEF StartupOf!FetchFails, StartupOf!SetUpDrainer, StartupOf!SetUpApplication,
                StartupOf!vars
  <2>3. \A s : Done(s)' <=> Done(s)
    BY <2>1, Zenon DEF Done, StartupOf!GetSecret
  <2>4. SUFFICES ASSUME x5' \in {"secrets", "running"} PROVE SecretsInv'
    BY DEF SecretsInv
  <2>5. x5 \in {"secrets", "running"} /\ (x5' = "running" => x9 = <<>>)
    BY <2>2, <2>4 DEF SecretsInv
  <2>6. /\ x9 \in Seq(Secured(x1))
        /\ \A s \in Secured(x1) : (\E i \in 1..Len(x9) : x9[i] = s) \/ Done(s)
    BY <2>5 DEF SecretsInv
  <2>. QED BY <2>1, <2>3, <2>5, <2>6 DEF SecretsInv
<1>. QED BY <1>1, <1>2, <1>3, <1>4 DEF StartupOf!Next

LEMMA SecretsInvariant == Spec => [](focus = "Startup" => StartupInv /\ SecretsInv)
<1>. DEFINE Inv == focus = "Startup" => SecretsInv
            Known == focus = "Startup" => StartupInv
<1>1. Init => Inv
  BY DEF Init, StartupOf!Init, SecretsInv
<1>2. Inv /\ Known /\ [Next]_vars => Inv'
  <2>. SUFFICES ASSUME StartupInv, SecretsInv, [Next]_vars, focus = "Startup" PROVE SecretsInv'
    BY FocusKept
  <2>1. [StartupOf!Next]_(StartupOf!vars)
    BY DEF Next, vars, StartupOf!vars
  <2>2. x1 \in {"drainer", "application"}
    BY DEF StartupInv, Sources
  <2>. QED BY <2>1, <2>2, SecretsInvStep
<1>3. Spec => []Known
  BY StartupInvariant
<1>4. Inv /\ Known => (focus = "Startup" => StartupInv /\ SecretsInv)
  OBVIOUS
<1>. QED BY <1>1, <1>2, <1>3, <1>4, PTL DEF Spec

\* A setting that is a secret belongs to a section with secrets, is fetched with
\* it and has no default.
LEMMA SecretSettings ==
  ASSUME x1 \in {"drainer", "application"}, NEW d, d = StartupOf!Defaults(x1),
         NEW s \in DOMAIN d, NEW k \in DOMAIN d[s],
         k \in {"password", "hash_key"} \/ s \in {"secrets", "jwekey"}
  PROVE  s \in Secured(x1) /\ s # "cors" /\ k \in SecretKeys(s) /\ d[s][k] = 0
<1>1. CASE x1 = "drainer"
  <2>1. s = "master_database" /\ k = "password"
    BY <1>1, DrainerKeys
  <2>2. k \in SecretKeys(s)
    BY <2>1, SecretsBound DEF Secured
  <2>3. d[s][k] = 0
    BY <1>1, <2>1
       DEF StartupOf!Defaults, StartupOf!DrainerDefaults, StartupOf!DatabaseDefaults
  <2>. QED BY <1>1, <2>1, <2>2, <2>3 DEF Secured
<1>2. CASE x1 = "application"
  <2>1. \/ s = "master_database" /\ k = "password"
        \/ s = "api_keys" /\ k = "hash_key"
        \/ s = "secrets" /\ k \in {"jwt_secret", "admin_api_key", "recon_admin_api_key",
                                   "master_enc_key"}
        \/ s = "jwekey" /\ k \in {"vault_encryption_key", "rust_locker_encryption_key",
                                  "vault_private_key", "tunnel_private_key"}
    BY <1>2, ApplicationKeys
  <2>2. s \in Secured("application")
    BY <2>1 DEF Secured
  <2>3. k \in SecretKeys(s)
    BY <2>1, <2>2, SecretsBound
  <2>4. d = StartupOf!ApplicationDefaults
    BY <1>2 DEF StartupOf!Defaults
  <2>5. d[s][k] = 0
    BY <2>1, <2>4 DEF StartupOf!ApplicationDefaults, StartupOf!DatabaseDefaults
  <2>. QED BY <1>2, <2>1, <2>2, <2>3, <2>5
<1>. QED BY <1>1, <1>2

\* fetch_raw_secrets of drainer and application: a process that runs has fetched
\* every secret it has, each from what the sources give for that very setting.
THEOREM SecretsKept == Spec => []SecretsAreOwn
<1>1. StartupInv /\ SecretsInv => StartupOf!SecretsAreOwn
  <2>. SUFFICES ASSUME StartupInv, SecretsInv, x5 = "running",
                       NEW s \in DOMAIN x6, NEW k \in DOMAIN x6[s],
                       k \in {"password", "hash_key"} \/ s \in {"secrets", "jwekey"}
                PROVE  /\ <<s, k>> \in DOMAIN x8
                       /\ x8[<<s, k>>].of = <<s, k>>
                       /\ x2 = "no_encryption" =>
                            x8[<<s, k>>].text = IF StartupOf!InEffect(s, k) = StartupOf!Unset
                                                THEN 0 ELSE StartupOf!InEffect(s, k)
    BY DEF StartupOf!SecretsAreOwn
  <2>. DEFINE d == StartupOf!Defaults(x1)
  <2>1. Sources /\ x1 \in {"drainer", "application"} /\ x6 = Settings
    BY DEF StartupInv, Sources
  <2>2. s \in DOMAIN d /\ k \in DOMAIN d[s]
    BY <2>1, Zenon DEF Settings, Sources, Source
  <2>3. s \in Secured(x1) /\ s # "cors" /\ k \in SecretKeys(s) /\ d[s][k] = 0
    BY <2>1, <2>2, SecretSettings
  <2>4. x6[s][k] = IF StartupOf!Given(s, k) = -1 THEN d[s][k] ELSE StartupOf!Given(s, k)
    BY <2>1, <2>2, <2>3, SettingsOf
  <2>5. x9 = <<>> /\ ((\E i \in 1..Len(x9) : x9[i] = s) \/ Done(s))
    BY <2>3 DEF SecretsInv
  <2>6. Done(s)
    BY <2>5
  <2>7. /\ <<s, k>> \in DOMAIN x8
        /\ x8[<<s, k>>] = [of |-> <<s, k>>, text |-> StartupOf!GetSecret(x6[s][k])]
    BY <2>3, <2>6, Zenon DEF Done
  <2>8. StartupOf!Given(s, k) = StartupOf!InEffect(s, k) /\ StartupOf!Unset = -1
    BY DEF StartupOf!Given, StartupOf!InEffect, StartupOf!Unset
  <2>. HIDE DEF d
  <2>9. x2 = "no_encryption" => StartupOf!GetSecret(x6[s][k]) = x6[s][k]
    BY DEF StartupOf!GetSecret
  <2>10. x8[<<s, k>>].of = <<s, k>> /\ x8[<<s, k>>].text = StartupOf!GetSecret(x6[s][k])
    BY <2>7
  <2>. QED BY <2>3, <2>4, <2>7, <2>8, <2>9, <2>10
<1>2. (focus = "Startup" => StartupInv /\ SecretsInv) => SecretsAreOwn
  BY <1>1 DEF SecretsAreOwn
<1>. QED BY <1>2, SecretsInvariant, PTL

-----------------------------------------------------------------------------
(* ErrorPath: cause, raised, err, path and answer are x1, ..., x5 *)

\* The rows of the match of ErrorSwitch that a storage error can reach.
LEMMA ApiRow ==
  ASSUME NEW x \in ErrorPathOf!SwitchRequestErrors \cup ErrorPathOf!SwitchObjectErrors
  PROVE  /\ "InternalServerError" \in x[3] => x[1] = "InternalServerError"
         /\ "ApiKeyNotFound" \in x[3] => x[1] = "NotFound"
         /\ "GenericDuplicateError" \in x[3] => x[1] = "BadRequest"
<1>1. CASE x \in ErrorPathOf!SwitchRequestErrors
  BY <1>1 DEF ErrorPathOf!SwitchRequestErrors
<1>2. CASE x \in ErrorPathOf!SwitchObjectErrors
  BY <1>2 DEF ErrorPathOf!SwitchObjectErrors
<1>. QED BY <1>1, <1>2

LEMMA ApiRowExists ==
  /\ \E x \in ErrorPathOf!SwitchRequestErrors \cup ErrorPathOf!SwitchObjectErrors :
       "InternalServerError" \in x[3]
  /\ \E x \in ErrorPathOf!SwitchRequestErrors \cup ErrorPathOf!SwitchObjectErrors :
       "ApiKeyNotFound" \in x[3]
  /\ \E x \in ErrorPathOf!SwitchRequestErrors \cup ErrorPathOf!SwitchObjectErrors :
       "GenericDuplicateError" \in x[3]
BY DEF ErrorPathOf!SwitchRequestErrors, ErrorPathOf!SwitchObjectErrors

LEMMA UserRow ==
  ASSUME NEW x \in ErrorPathOf!SwitchUserErrors, NEW q \in x[2]
  PROVE  /\ q[1] = "InternalServerError" => x[1] = "InternalServerError"
         /\ q[1] = "UserNotFound" => x[1] = "Unauthorized"
         /\ q[1] = "UserExists" => x[1] = "BadRequest"
BY DEF ErrorPathOf!SwitchUserErrors

LEMMA UserRowExists ==
  /\ \E x \in ErrorPathOf!SwitchUserErrors : \E q \in x[2] : q[1] = "InternalServerError"
  /\ \E x \in ErrorPathOf!SwitchUserErrors : \E q \in x[2] : q[1] = "UserNotFound"
  /\ \E x \in ErrorPathOf!SwitchUserErrors : \E q \in x[2] : q[1] = "UserExists"
BY DEF ErrorPathOf!SwitchUserErrors

\* What the conversions answer to an object that is missing or already there.
ClientErrors ==
  {<<"Api", "ApiKeyNotFound">>, <<"Api", "GenericDuplicateError">>,
   <<"Customers", "CustomerNotFound">>, <<"Customers", "CustomerAlreadyExists">>,
   <<"Users", "UserNotFound">>, <<"Users", "UserExists">>}

Domains == {"Api", "Customers", "Users"}

LEMMA SwitchClass ==
  ASSUME NEW e, e[1] \in Domains
  PROVE  /\ e[2] = "InternalServerError" => ErrorPathOf!Switch(e)[1] = "InternalServerError"
         /\ <<e[1], e[2]>> \in ClientErrors =>
              ErrorPathOf!Switch(e)[1] \in {"NotFound", "BadRequest", "Unauthorized"}
<1>1. CASE e[1] = "Api"
  <2>. DEFINE T == ErrorPathOf!SwitchRequestErrors \cup ErrorPathOf!SwitchObjectErrors
              r == CHOOSE x \in T : e[2] \in x[3]
  <2>1. ErrorPathOf!Switch(e)[1] = r[1]
    BY <1>1 DEF ErrorPathOf!Switch
  <2>. HIDE DEF T
  <2>2. ASSUME \E x \in T : e[2] \in x[3] PROVE r \in T /\ e[2] \in r[3]
    BY <2>2, Zenon
  <2>. HIDE DEF r
  <2>3. ASSUME e[2] = "InternalServerError" PROVE r[1] = "InternalServerError"
    BY <2>2, <2>3, ApiRow, ApiRowExists DEF T
  <2>4. ASSUME e[2] = "ApiKeyNotFound" PROVE r[1] = "NotFound"
    BY <2>2, <2>4, ApiRow, ApiRowExists DEF T
  <2>5. ASSUME e[2] = "GenericDuplicateError" PROVE r[1] = "BadRequest"
    BY <2>2, <2>5, ApiRow, ApiRowExists DEF T
  <2>. QED BY <1>1, <2>1, <2>3, <2>4, <2>5 DEF ClientErrors
<1>2. CASE e[1] = "Customers"
  BY <1>2 DEF ErrorPathOf!Switch, ErrorPathOf!SwitchCustomers, ClientErrors
<1>3. CASE e[1] = "Users"
  <2>. DEFINE T == ErrorPathOf!SwitchUserErrors
              r == CHOOSE x \in T : \E q \in x[2] : q[1] = e[2]
  <2>1. ErrorPathOf!Switch(e)[1] = r[1]
    BY <1>3 DEF ErrorPathOf!Switch
  <2>. HIDE DEF T
  <2>2. ASSUME \E x \in T : \E q \in x[2] : q[1] = e[2]
        PROVE  r \in T /\ \E q \in r[2] : q[1] = e[2]
    BY <2>2, Zenon
  <2>. HIDE DEF r
  <2>3. ASSUME e[2] = "InternalServerError" PROVE r[1] = "InternalServerError"
    BY <2>2, <2>3, UserRow, UserRowExists DEF T
  <2>4. ASSUME e[2] = "UserNotFound" PROVE r[1] = "Unauthorized"
    BY <2>2, <2>4, UserRow, UserRowExists DEF T
  <2>5. ASSUME e[2] = "UserExists" PROVE r[1] = "BadRequest"
    BY <2>2, <2>5, UserRow, UserRowExists DEF T
  <2>. QED BY <1>3, <2>1, <2>3, <2>4, <2>5 DEF ClientErrors
<1>. QED BY <1>1, <1>2, <1>3 DEF Domains

LEMMA Responds ==
  ASSUME ErrorPathOf!ErrorResponse
  PROVE  /\ x3[1] \in Domains
         /\ x3[2] = "InternalServerError" => x5'.status = 500
         /\ <<x3[1], x3[2]>> \in ClientErrors => x5'.status \in 400..499
<1>1. x3[1] \in Domains
  BY DEF ErrorPathOf!ErrorResponse, ErrorPathOf!Is, Domains
<1>. DEFINE c == ErrorPathOf!Switch(x3)
<1>2. PICK status \in IF c[1] = "ConnectorError" THEN ConnectorStatuses
                      ELSE {ErrorPathOf!StatusCode[c[1]]} :
        x5' = [status |-> status, code |-> c[2]]
  BY Zenon DEF ErrorPathOf!ErrorResponse
<1>3. x5'.status = status
  BY <1>2
<1>4. /\ x3[2] = "InternalServerError" => c[1] = "InternalServerError"
      /\ <<x3[1], x3[2]>> \in ClientErrors => c[1] \in {"NotFound", "BadRequest", "Unauthorized"}
  BY <1>1, SwitchClass
<1>. HIDE DEF c
<1>5. /\ c[1] = "InternalServerError" => status = 500
      /\ c[1] \in {"NotFound", "BadRequest", "Unauthorized"} => status \in {404, 400, 401}
  BY <1>2 DEF ErrorPathOf!StatusCode
<1>. QED BY <1>1, <1>3, <1>4, <1>5

Conversions ==
  {"redis", "redis_utils", "from", "diesel", "not_found", "duplicate", "switch"}

\* An error on its way, by the conversions it has taken.
Fault ==
  x1 = "fault" =>
    /\ x3[1] \in {"Redis", "Database"} =>
         /\ x3[2] \notin {"NotFound", "SetNxFailed", "UniqueViolation"}
         /\ x3[2] = "SetAddMembersFailed" => x2[2] = "SetAddMembersFailed"
    /\ x3[1] = "Storage" =>
         /\ x3[2] \notin {"ValueNotFound", "CustomerRedacted"}
         /\ x3[3] \notin {"NotFound", "UniqueViolation"}
         /\ x3[2] = "DuplicateValue" =>
              x2[2] = "SetAddMembersFailed" /\ ErrorPathOf!Took("redis")
    /\ x3[1] \in Domains => ErrorPathOf!KnownBlame \/ x3[2] = "InternalServerError"

Absent ==
  x1 = "absent" =>
    /\ x2[1] \in {"Redis", "Database"} /\ x2[2] = "NotFound"
    /\ x3[1] \in {"Redis", "Database"} => x3 = x2 /\ x4 = <<>>
    /\ x3[1] = "Storage" =>
         /\ ~ErrorPathOf!Took("duplicate")
         /\ \/ x3[2] = "ValueNotFound" /\ ~ErrorPathOf!Took("from")
            \/ x3[2] = "DatabaseError" /\ x3[3] = "NotFound" /\ x2[1] = "Database"
               /\ ErrorPathOf!Took("from")
            \/ x3[2] = "RedisError" /\ x2[1] = "Redis" /\ ErrorPathOf!Took("from")

Doubled ==
  x1 = "duplicate" =>
    /\ \/ x2[1] = "Redis" /\ x2[2] \in {"SetNxFailed", "SetAddMembersFailed"}
       \/ x2[1] = "Database" /\ x2[2] = "UniqueViolation"
    /\ x3[1] \in {"Redis", "Database"} => x3 = x2 /\ x4 = <<>>
    /\ x3[1] = "Storage" =>
         \/ /\ x3[2] = "DuplicateValue" /\ ~ErrorPathOf!Took("from")
            /\ ~(ErrorPathOf!Took("redis_utils") /\ x2[2] = "SetAddMembersFailed")
         \/ /\ x3[2] = "KVError" /\ ~ErrorPathOf!Took("from")
            /\ ErrorPathOf!Took("redis_utils") /\ x2[2] = "SetAddMembersFailed"
         \/ x3[2] = "RedisError" /\ x2[1] = "Redis" /\ ErrorPathOf!Took("from")
         \/ x3[2] = "DatabaseError" /\ x3[3] = "UniqueViolation" /\ x2[1] = "Database"
            /\ ErrorPathOf!Took("from")

\* Of an error that a caller has asked for, a domain has made the answer to the
\* client, or the chain was one that loses it.
Converted ==
  x3[1] \in Domains /\ x4 # <<>> /\ <<x1, x4[Len(x4)]>> \in ErrorPathOf!Asked =>
    \/ x3[2] = "InternalServerError" /\ ErrorPathOf!Mismatched
    \/ <<x3[1], x3[2]>> \in ClientErrors /\ ~ErrorPathOf!Mismatched

ErrorInv ==
  /\ x4 \in Seq(Conversions)
  /\ x3[1] \in {"Redis", "Database", "Storage", "Application"} \cup Domains
  /\ x3[1] = "Application" => x1 = "fault" /\ x2[1] = "Application"
  /\ Fault /\ Absent /\ Doubled /\ Converted
  /\ ErrorPathOf!StatusFitsCause

LEMMA ErrorInit ==
  ASSUME ErrorPathOf!Init
  PROVE  ErrorInv
<1>1. PICK r \in ErrorPathOf!Raisable : x1 = r[1] /\ x2 = r[2] /\ x3 = r[2]
  BY DEF ErrorPathOf!Init
<1>2. x4 = <<>> /\ ~ErrorPathOf!Answered
  BY DEF ErrorPathOf!Init, ErrorPathOf!Answered
<1>3. \A c : ~ErrorPathOf!Took(c)
  BY <1>2 DEF ErrorPathOf!Took
<1>4. CASE r \in {<<"request", <<"Api", v, "none">>>> : v \in ErrorPathOf!ApiErrors}
  <2>1. PICK v \in ErrorPathOf!ApiErrors : r = <<"request", <<"Api", v, "none">>>>
    BY <1>4, Zenon
  <2>2. x1 = "request" /\ x3[1] = "Api"
    BY <1>1, <2>1
  <2>. QED BY <1>2, <2>2 DEF ErrorInv, Fault, Absent, Doubled, Converted, Domains,
                             ErrorPathOf!StatusFitsCause
<1>5. CASE r \notin {<<"request", <<"Api", v, "none">>>> : v \in ErrorPathOf!ApiErrors}
  <2>. DEFINE Kinds(c, e) ==
         \/ c = "absent" /\ e[1] \in {"Redis", "Database"} /\ e[2] = "NotFound"
         \/ c = "duplicate" /\ e[1] = "Redis" /\ e[2] \in {"SetNxFailed", "SetAddMembersFailed"}
         \/ c = "duplicate" /\ e[1] = "Database" /\ e[2] = "UniqueViolation"
         \/ c = "redacted" /\ e[1] = "Storage"
         \/ c = "fault" /\ e[1] \in {"Redis", "Database"}
            /\ e[2] \in {"SetAddMembersFailed", "GetFailed", "DatabaseConnectionError", "Others"}
         \/ c = "fault" /\ e[1] = "Storage" /\ e[2] = "DecryptionError" /\ e[3] = "none"
         \/ c = "fault" /\ e[1] = "Application"
  <2>1. Kinds(r[1], r[2])
    <3>. HIDE DEF Kinds
    <3>1. r \in {<<"absent", <<"Redis", "NotFound", "none">>>>,
                 <<"absent", <<"Database", "NotFound", "none">>>>,
                 <<"duplicate", <<"Redis", "SetNxFailed", "none">>>>,
                 <<"duplicate", <<"Redis", "SetAddMembersFailed", "none">>>>,
                 <<"duplicate", <<"Database", "UniqueViolation", "none">>>>,
                 <<"redacted", <<"Storage", "CustomerRedacted", "none">>>>,
                 <<"fault", <<"Redis", "SetAddMembersFailed", "none">>>>,
                 <<"fault", <<"Redis", "GetFailed", "none">>>>,
                 <<"fault", <<"Database", "DatabaseConnectionError", "none">>>>,
                 <<"fault", <<"Database", "Others", "none">>>>,
                 <<"fault", <<"Storage", "DecryptionError", "none">>>>,
                 <<"fault", <<"Application", "IoError", "none">>>>}
      BY <1>5, Zenon DEF ErrorPathOf!Raisable
    <3>. QED BY <3>1 DEF Kinds
  <2>2. Kinds(x1, x2) /\ x3 = x2
    <3>. HIDE DEF Kinds
    <3>. QED BY <1>1, <2>1
  <2>3. x4 \in Seq(Conversions) /\ x3[1] \in {"Redis", "Database", "Storage", "Application"}
    BY <1>2, <2>2
  <2>4. Fault
    BY <2>2 DEF Fault, Domains
  <2>5. Absent
    BY <1>2, <2>2 DEF Absent
  <2>6. Doubled
    BY <1>2, <2>2 DEF Doubled
  <2>7. Converted /\ ErrorPathOf!StatusFitsCause
    BY <1>2 DEF Converted, ErrorPathOf!StatusFitsCause
  <2>8. x3[1] = "Application" => x1 = "fault" /\ x2[1] = "Application"
    BY <2>2
  <2>. QED BY <2>3, <2>4, <2>5, <2>6, <2>7, <2>8 DEF ErrorInv
<1>. QED BY <1>4, <1>5

LEMMA TookMore ==
  ASSUME x4 \in Seq(Conversions), NEW c \in Conversions, x4' = Append(x4, c)
  PROVE  /\ x4' \in Seq(Conversions) /\ x4' # <<>> /\ x4'[Len(x4')] = c
         /\ \A t : ErrorPathOf!Took(t)' <=> ErrorPathOf!Took(t) \/ t = c
<1>. DEFINE q == Append(x4, c)
<1>. HIDE DEF Conversions
<1>1. /\ q \in Seq(Conversions) /\ Len(q) = Len(x4) + 1 /\ q[Len(x4) + 1] = c
      /\ \A i \in 1..Len(x4) : q[i] = x4[i]
      /\ Len(x4) \in Nat
  OBVIOUS
<1>2. ASSUME NEW t PROVE ErrorPathOf!Took(t)' <=> ErrorPathOf!Took(t) \/ t = c
  <2>1. ErrorPathOf!Took(t)' <=> \E i \in 1..Len(q) : q[i] = t
    BY Zenon DEF ErrorPathOf!Took
  <2>2. ErrorPathOf!Took(t) <=> \E i \in 1..Len(x4) : x4[i] = t
    BY Zenon DEF ErrorPathOf!Took
  <2>. HIDE DEF q
  <2>3. ASSUME NEW i \in 1..Len(q), q[i] = t
        PROVE  t = c \/ \E j \in 1..Len(x4) : x4[j] = t
    <3>1. CASE i = Len(x4) + 1
      BY <1>1, <2>3, <3>1
    <3>2. CASE i # Len(x4) + 1
      BY <1>1, <2>3, <3>2
    <3>. QED BY <3>1, <3>2
  <2>4. ASSUME NEW i \in 1..Len(x4), x4[i] = t PROVE \E j \in 1..Len(q) : q[j] = t
    BY <1>1, <2>4
  <2>5. t = c => \E j \in 1..Len(q) : q[j] = t
    BY <1>1
  <2>. QED BY <2>1, <2>2, <2>3, <2>4, <2>5
<1>3. x4' # <<>> /\ x4'[Len(x4')] = c
  <2>. HIDE DEF q
  <2>1. x4' = q
    BY DEF q
  <2>. QED BY <1>1, <2>1
<1>. QED BY <1>1, <1>2, <1>3

\* What every conversion leaves alone, and the chains as the next state sees them.
LEMMA BecomeStep ==
  ASSUME x4 \in Seq(Conversions), x5 = ErrorPathOf!NoAnswer,
         NEW c \in Conversions, NEW new, ErrorPathOf!Become(c, new)
  PROVE  /\ x1' = x1 /\ x2' = x2 /\ x3' = new
         /\ x4' \in Seq(Conversions) /\ x4' # <<>> /\ x4'[Len(x4')] = c
         /\ ErrorPathOf!StatusFitsCause'
         /\ ErrorPathOf!Took("redis")' <=> ErrorPathOf!Took("redis") \/ c = "redis"
         /\ ErrorPathOf!Took("redis_utils")' <=> ErrorPathOf!Took("redis_utils") \/ c = "redis_utils"
         /\ ErrorPathOf!Took("from")' <=> ErrorPathOf!Took("from") \/ c = "from"
         /\ ErrorPathOf!Took("duplicate")' <=> ErrorPathOf!Took("duplicate") \/ c = "duplicate"
<1>1. x1' = x1 /\ x2' = x2 /\ x3' = new /\ x4' = Append(x4, c) /\ x5' = x5
  BY DEF ErrorPathOf!Become
<1>2. /\ x4' \in Seq(Conversions) /\ x4' # <<>> /\ x4'[Len(x4')] = c
      /\ \A t : ErrorPathOf!Took(t)' <=> ErrorPathOf!Took(t) \/ t = c
  BY <1>1, TookMore
<1>3. ErrorPathOf!StatusFitsCause'
  BY <1>1 DEF ErrorPathOf!StatusFitsCause, ErrorPathOf!Answered, ErrorPathOf!NoAnswer
<1>. QED BY <1>1, <1>2, <1>3, Zenon

LEMMA RedisStep ==
  ASSUME ErrorInv, ErrorPathOf!ToRedisFailedResponse
  PROVE  ErrorInv'
<1>. DEFINE new == CASE x3[2] = "NotFound" -> ErrorPathOf!Missing
                     [] x3[2] \in {"SetNxFailed", "SetAddMembersFailed"} -> ErrorPathOf!Duplicate
                     [] OTHER -> <<"Storage", "KVError", "none">>
<1>1. x3[1] = "Redis" /\ x5 = ErrorPathOf!NoAnswer /\ ErrorPathOf!Become("redis", new)
  BY DEF ErrorPathOf!ToRedisFailedResponse, ErrorPathOf!Is
<1>2. /\ x1' = x1 /\ x2' = x2 /\ x3' = new
      /\ x4' \in Seq(Conversions) /\ ErrorPathOf!StatusFitsCause'
      /\ ErrorPathOf!Took("redis")'
      /\ ErrorPathOf!Took("redis_utils")' <=> ErrorPathOf!Took("redis_utils")
      /\ ErrorPathOf!Took("from")' <=> ErrorPathOf!Took("from")
      /\ ErrorPathOf!Took("duplicate")' <=> ErrorPathOf!Took("duplicate")
  <2>. HIDE DEF new
  <2>1. "redis" \in Conversions /\ x4 \in Seq(Conversions)
    BY DEF Conversions, ErrorInv
  <2>. QED BY <1>1, <2>1, BecomeStep
<1>3. /\ x3'[1] = "Storage"
      /\ \/ x3[2] = "NotFound" /\ x3'[2] = "ValueNotFound" /\ x3'[3] = "none"
         \/ x3[2] \in {"SetNxFailed", "SetAddMembersFailed"} /\ x3'[2] = "DuplicateValue"
            /\ x3'[3] = "none"
         \/ x3[2] \notin {"NotFound", "SetNxFailed", "SetAddMembersFailed"}
            /\ x3'[2] = "KVError" /\ x3'[3] = "none"
  BY <1>2 DEF ErrorPathOf!Missing, ErrorPathOf!Duplicate
<1>. HIDE DEF new
<1>4. x4 = <<>> => /\ ~ErrorPathOf!Took("from") /\ ~ErrorPathOf!Took("redis_utils")
                   /\ ~ErrorPathOf!Took("duplicate")
  BY DEF ErrorPathOf!Took
<1>5. Fault'
  BY <1>1, <1>2, <1>3 DEF ErrorInv, Fault, Domains
<1>6. Absent'
  BY <1>1, <1>2, <1>3, <1>4 DEF ErrorInv, Absent
<1>7. Doubled'
  BY <1>1, <1>2, <1>3, <1>4 DEF ErrorInv, Doubled
<1>8. Converted'
  BY <1>3 DEF Converted, Domains
<1>. QED BY <1>2, <1>3, <1>5, <1>6, <1>7, <1>8 DEF ErrorInv

LEMMA RedisUtilsStep ==
  ASSUME ErrorInv, ErrorPathOf!ToRedisFailedResponseUtils
  PROVE  ErrorInv'
<1>. DEFINE new == CASE x3[2] = "NotFound" -> ErrorPathOf!Missing
                     [] x3[2] = "SetNxFailed" -> ErrorPathOf!Duplicate
                     [] OTHER -> <<"Storage", "KVError", "none">>
<1>1. x3[1] = "Redis" /\ x5 = ErrorPathOf!NoAnswer /\ ErrorPathOf!Become("redis_utils", new)
  BY DEF ErrorPathOf!ToRedisFailedResponseUtils, ErrorPathOf!Is
<1>2. /\ x1' = x1 /\ x2' = x2 /\ x3' = new
      /\ x4' \in Seq(Conversions) /\ ErrorPathOf!StatusFitsCause'
      /\ ErrorPathOf!Took("redis")' <=> ErrorPathOf!Took("redis")
      /\ ErrorPathOf!Took("redis_utils")'
      /\ ErrorPathOf!Took("from")' <=> ErrorPathOf!Took("from")
      /\ ErrorPathOf!Took("duplicate")' <=> ErrorPathOf!Took("duplicate")
  <2>. HIDE DEF new
  <2>1. "redis_utils" \in Conversions /\ x4 \in Seq(Conversions)
    BY DEF Conversions, ErrorInv
  <2>. QED BY <1>1, <2>1, BecomeStep
<1>3. /\ x3'[1] = "Storage"
      /\ \/ x3[2] = "NotFound" /\ x3'[2] = "ValueNotFound" /\ x3'[3] = "none"
         \/ x3[2] = "SetNxFailed" /\ x3'[2] = "DuplicateValue" /\ x3'[3] = "none"
         \/ x3[2] \notin {"NotFound", "SetNxFailed"}
            /\ x3'[2] = "KVError" /\ x3'[3] = "none"
  BY <1>1, <1>2 DEF ErrorPathOf!Missing, ErrorPathOf!Duplicate
<1>. HIDE DEF new
<1>4. x4 = <<>> => /\ ~ErrorPathOf!Took("from") /\ ~ErrorPathOf!Took("redis_utils")
                   /\ ~ErrorPathOf!Took("duplicate")
  BY DEF ErrorPathOf!Took
<1>5. Fault'
  BY <1>1, <1>2, <1>3 DEF ErrorInv, Fault, Domains
<1>6. Absent'
  BY <1>1, <1>2, <1>3, <1>4 DEF ErrorInv, Absent
<1>7. Doubled'
  BY <1>1, <1>2, <1>3, <1>4 DEF ErrorInv, Doubled
<1>8. Converted'
  BY <1>3 DEF Converted, Domains
<1>. QED BY <1>2, <1>3, <1>5, <1>6, <1>7, <1>8 DEF ErrorInv

LEMMA ReportStep ==
  ASSUME ErrorInv, ErrorPathOf!FromReport
  PROVE  ErrorInv'
<1>. DEFINE new == <<"Storage", IF x3[1] = "Redis" THEN "RedisError" ELSE "DatabaseError", x3[2]>>
<1>1. x3[1] \in {"Redis", "Database"} /\ x5 = ErrorPathOf!NoAnswer /\ ErrorPathOf!Become("from", new)
  BY DEF ErrorPathOf!FromReport, ErrorPathOf!Is
<1>2. /\ x1' = x1 /\ x2' = x2 /\ x3' = new
      /\ x4' \in Seq(Conversions) /\ ErrorPathOf!StatusFitsCause'
      /\ ErrorPathOf!Took("redis")' <=> ErrorPathOf!Took("redis")
      /\ ErrorPathOf!Took("redis_utils")' <=> ErrorPathOf!Took("redis_utils")
      /\ ErrorPathOf!Took("from")'
      /\ ErrorPathOf!Took("duplicate")' <=> ErrorPathOf!Took("duplicate")
  <2>. HIDE DEF new
  <2>1. "from" \in Conversions /\ x4 \in Seq(Conversions)
    BY DEF Conversions, ErrorInv
  <2>. QED BY <1>1, <2>1, BecomeStep
<1>3. /\ x3'[1] = "Storage"
      /\ x3'[3] = x3[2]
      /\ \/ x3[1] = "Redis" /\ x3'[2] = "RedisError"
         \/ x3[1] = "Database" /\ x3'[2] = "DatabaseError"
  BY <1>1, <1>2
<1>. HIDE DEF new
<1>4. x4 = <<>> => /\ ~ErrorPathOf!Took("from") /\ ~ErrorPathOf!Took("redis_utils")
                   /\ ~ErrorPathOf!Took("duplicate")
  BY DEF ErrorPathOf!Took
<1>5. Fault'
  BY <1>1, <1>2, <1>3 DEF ErrorInv, Fault, Domains
<1>6. Absent'
  BY <1>1, <1>2, <1>3, <1>4 DEF ErrorInv, Absent
<1>7. Doubled'
  BY <1>1, <1>2, <1>3, <1>4 DEF ErrorInv, Doubled
<1>8. Converted'
  BY <1>3 DEF Converted, Domains
<1>. QED BY <1>2, <1>3, <1>5, <1>6, <1>7, <1>8 DEF ErrorInv

LEMMA DieselStep ==
  ASSUME ErrorInv, ErrorPathOf!DieselErrorToDataError
  PROVE  ErrorInv'
<1>. DEFINE new == CASE x3[2] = "NotFound" -> ErrorPathOf!Missing
                     [] x3[2] = "UniqueViolation" -> ErrorPathOf!Duplicate
                     [] x3[2] = "DatabaseConnectionError" ->
                          <<"Storage", "DatabaseConnectionError", "none">>
                     [] OTHER -> <<"Storage", "DatabaseError", x3[2]>>
<1>1. x3[1] = "Database" /\ x5 = ErrorPathOf!NoAnswer /\ ErrorPathOf!Become("diesel", new)
  BY DEF ErrorPathOf!DieselErrorToDataError, ErrorPathOf!Is
<1>2. /\ x1' = x1 /\ x2' = x2 /\ x3' = new
      /\ x4' \in Seq(Conversions) /\ ErrorPathOf!StatusFitsCause'
      /\ ErrorPathOf!Took("redis")' <=> ErrorPathOf!Took("redis")
      /\ ErrorPathOf!Took("redis_utils")' <=> ErrorPathOf!Took("redis_utils")
      /\ ErrorPathOf!Took("from")' <=> ErrorPathOf!Took("from")
      /\ ErrorPathOf!Took("duplicate")' <=> ErrorPathOf!Took("duplicate")
  <2>. HIDE DEF new
  <2>1. "diesel" \in Conversions /\ x4 \in Seq(Conversions)
    BY DEF Conversions, ErrorInv
  <2>. QED BY <1>1, <2>1, BecomeStep
<1>3. /\ x3'[1] = "Storage"
      /\ \/ x3[2] = "NotFound" /\ x3'[2] = "ValueNotFound" /\ x3'[3] = "none"
         \/ x3[2] = "UniqueViolation" /\ x3'[2] = "DuplicateValue" /\ x3'[3] = "none"
         \/ x3[2] \notin {"NotFound", "UniqueViolation"}
            /\ x3'[2] = "DatabaseConnectionError" /\ x3'[3] = "none"
         \/ x3[2] \notin {"NotFound", "UniqueViolation"}
            /\ x3'[2] = "DatabaseError" /\ x3'[3] = x3[2]
  BY <1>1, <1>2 DEF ErrorPathOf!Missing, ErrorPathOf!Duplicate
<1>. HIDE DEF new
<1>4. x4 = <<>> => /\ ~ErrorPathOf!Took("from") /\ ~ErrorPathOf!Took("redis_utils")
                   /\ ~ErrorPathOf!Took("duplicate")
  BY DEF ErrorPathOf!Took
<1>5. Fault'
  BY <1>1, <1>2, <1>3 DEF ErrorInv, Fault, Domains
<1>6. Absent'
  BY <1>1, <1>2, <1>3, <1>4 DEF ErrorInv, Absent
<1>7. Doubled'
  BY <1>1, <1>2, <1>3, <1>4 DEF ErrorInv, Doubled
<1>8. Converted'
  BY <1>3 DEF Converted, Domains
<1>. QED BY <1>2, <1>3, <1>5, <1>6, <1>7, <1>8 DEF ErrorInv

LEMMA NotFoundStep ==
  ASSUME ErrorInv, NEW d \in Domains, x3[1] = "Storage", x5 = ErrorPathOf!NoAnswer,
         ErrorPathOf!Become("not_found", <<d, ErrorPathOf!NotFoundOf(x3, d), "none">>)
  PROVE  ErrorInv'
<1>. DEFINE v == ErrorPathOf!NotFoundOf(x3, d)
<1>1. /\ x1' = x1 /\ x2' = x2 /\ x3' = <<d, v, "none">>
      /\ x4' \in Seq(Conversions) /\ x4'[Len(x4')] = "not_found" /\ ErrorPathOf!StatusFitsCause'
      /\ ErrorPathOf!Took("redis")' <=> ErrorPathOf!Took("redis")
      /\ ErrorPathOf!Took("redis_utils")' <=> ErrorPathOf!Took("redis_utils")
      /\ ErrorPathOf!Took("from")' <=> ErrorPathOf!Took("from")
      /\ ErrorPathOf!Took("duplicate")' <=> ErrorPathOf!Took("duplicate")
  <2>. HIDE DEF v
  <2>1. "not_found" \in Conversions /\ x4 \in Seq(Conversions)
    BY DEF Conversions, ErrorInv
  <2>2. ErrorPathOf!Become("not_found", <<d, v, "none">>)
    BY DEF v
  <2>. QED BY <2>1, <2>2, BecomeStep
<1>2. \/ /\ \/ x3[2] = "ValueNotFound"
            \/ d # "Api" /\ x3[2] = "DatabaseError" /\ x3[3] = "NotFound"
         /\ <<d, v>> \in {<<"Api", "ApiKeyNotFound">>, <<"Customers", "CustomerNotFound">>,
                          <<"Users", "UserNotFound">>}
      \/ x3[2] = "CustomerRedacted" /\ v \in {"CustomerRedacted", "InternalServerError"}
      \/ /\ x3[2] # "ValueNotFound"
         /\ ~(d # "Api" /\ x3[2] = "DatabaseError" /\ x3[3] = "NotFound")
         /\ v = "InternalServerError"
  BY DEF ErrorPathOf!NotFoundOf, ErrorPathOf!IsDbNotFound, Domains
<1>. HIDE DEF v
<1>3. x3'[1] = d /\ x3'[2] = v
  BY <1>1
<1>4. Fault'
  BY <1>1, <1>2, <1>3 DEF ErrorInv, Fault, Domains, ErrorPathOf!KnownBlame
<1>5. Absent' /\ Doubled'
  BY <1>1, <1>3 DEF ErrorInv, Absent, Doubled, Domains
<1>6. Converted'
  <2>. SUFFICES ASSUME x1 = "absent"
                PROVE  \/ v = "InternalServerError" /\ ErrorPathOf!Mismatched'
                       \/ <<d, v>> \in ClientErrors /\ ~ErrorPathOf!Mismatched'
    BY <1>1, <1>3 DEF Converted, ErrorPathOf!Asked
  <2>. QED BY <1>1, <1>2, <1>3
       DEF ErrorInv, Absent, Doubled, Domains, ClientErrors, ErrorPathOf!Mismatched
<1>. QED BY <1>1, <1>3, <1>4, <1>5, <1>6 DEF ErrorInv, Domains

LEMMA DuplicateStep ==
  ASSUME ErrorInv, NEW d \in Domains, x3[1] = "Storage", x5 = ErrorPathOf!NoAnswer,
         ErrorPathOf!Become("duplicate", <<d, ErrorPathOf!DuplicateOf(x3, d), "none">>)
  PROVE  ErrorInv'
<1>. DEFINE v == ErrorPathOf!DuplicateOf(x3, d)
<1>1. /\ x1' = x1 /\ x2' = x2 /\ x3' = <<d, v, "none">>
      /\ x4' \in Seq(Conversions) /\ x4'[Len(x4')] = "duplicate" /\ ErrorPathOf!StatusFitsCause'
      /\ ErrorPathOf!Took("redis")' <=> ErrorPathOf!Took("redis")
      /\ ErrorPathOf!Took("redis_utils")' <=> ErrorPathOf!Took("redis_utils")
      /\ ErrorPathOf!Took("from")' <=> ErrorPathOf!Took("from")
      /\ ErrorPathOf!Took("duplicate")'
  <2>. HIDE DEF v
  <2>1. "duplicate" \in Conversions /\ x4 \in Seq(Conversions)
    BY DEF Conversions, ErrorInv
  <2>2. ErrorPathOf!Become("duplicate", <<d, v, "none">>)
    BY DEF v
  <2>. QED BY <2>1, <2>2, BecomeStep
<1>2. \/ d = "Api" /\ x3[2] = "DuplicateValue" /\ v = "GenericDuplicateError"
      \/ d = "Api" /\ x3[2] # "DuplicateValue" /\ v = "InternalServerError"
      \/ /\ <<d, v>> \in {<<"Customers", "CustomerAlreadyExists">>, <<"Users", "UserExists">>}
         /\ x3[2] = "DatabaseError" /\ x3[3] = "UniqueViolation"
      \/ /\ d # "Api" /\ ~(x3[2] = "DatabaseError" /\ x3[3] = "UniqueViolation")
         /\ v = "InternalServerError"
  BY DEF ErrorPathOf!DuplicateOf, ErrorPathOf!IsDbUniqueViolation, Domains
<1>. HIDE DEF v
<1>3. x3'[1] = d /\ x3'[2] = v
  BY <1>1
<1>4. Fault'
  BY <1>1, <1>2, <1>3 DEF ErrorInv, Fault, Domains, ErrorPathOf!KnownBlame
<1>5. Absent' /\ Doubled'
  BY <1>1, <1>3 DEF ErrorInv, Absent, Doubled, Domains
<1>6. Converted'
  <2>. SUFFICES ASSUME x1 = "duplicate"
                PROVE  \/ v = "InternalServerError" /\ ErrorPathOf!Mismatched'
                       \/ <<d, v>> \in ClientErrors /\ ~ErrorPathOf!Mismatched'
    BY <1>1, <1>3 DEF Converted, ErrorPathOf!Asked
  <2>. QED BY <1>1, <1>2, <1>3
       DEF ErrorInv, Absent, Doubled, Domains, ClientErrors, ErrorPathOf!Mismatched
<1>. QED BY <1>1, <1>3, <1>4, <1>5, <1>6 DEF ErrorInv, Domains

LEMMA ApiSwitchStep ==
  ASSUME ErrorInv, ErrorPathOf!ApiSwitch
  PROVE  ErrorInv'
<1>. DEFINE v == IF x3[2] \in {"MandateActive", "CustomerNotFound"} THEN x3[2]
                 ELSE "InternalServerError"
<1>1. /\ x3[1] = "Api" /\ x5 = ErrorPathOf!NoAnswer
      /\ ErrorPathOf!Become("switch", <<"Customers", v, "none">>)
  BY DEF ErrorPathOf!ApiSwitch, ErrorPathOf!Is
<1>2. x3[2] = "InternalServerError" => v = "InternalServerError"
  OBVIOUS
<1>. HIDE DEF v
<1>3. /\ x1' = x1 /\ x2' = x2 /\ x3' = <<"Customers", v, "none">>
      /\ x4' \in Seq(Conversions) /\ x4'[Len(x4')] = "switch" /\ ErrorPathOf!StatusFitsCause'
      /\ ErrorPathOf!Took("redis")' <=> ErrorPathOf!Took("redis")
      /\ ErrorPathOf!Took("duplicate")' <=> ErrorPathOf!Took("duplicate")
  <2>1. "switch" \in Conversions /\ x4 \in Seq(Conversions)
    BY DEF Conversions, ErrorInv
  <2>. QED BY <1>1, <2>1, BecomeStep
<1>4. x3'[1] = "Customers" /\ x3'[2] = v
  BY <1>3
<1>5. Fault'
  BY <1>1, <1>2, <1>3, <1>4 DEF ErrorInv, Fault, Domains, ErrorPathOf!KnownBlame
<1>6. Absent' /\ Doubled' /\ Converted'
  BY <1>1, <1>3, <1>4 DEF ErrorInv, Absent, Doubled, Converted, Domains, ErrorPathOf!Asked
<1>. QED BY <1>3, <1>4, <1>5, <1>6 DEF ErrorInv, Domains

\* What a step that only answers leaves as it was.
LEMMA AnswerStep ==
  ASSUME ErrorInv, UNCHANGED <<x1, x2, x3, x4>>, ErrorPathOf!StatusFitsCause'
  PROVE  ErrorInv'
<1>1. x1' = x1 /\ x2' = x2 /\ x3' = x3 /\ x4' = x4
  OBVIOUS
<1>2. \A t : ErrorPathOf!Took(t)' <=> ErrorPathOf!Took(t)
  BY <1>1, Zenon DEF ErrorPathOf!Took
<1>3. /\ ErrorPathOf!KnownBlame' <=> ErrorPathOf!KnownBlame
      /\ ErrorPathOf!Mismatched' <=> ErrorPathOf!Mismatched
  BY <1>1, <1>2, Zenon DEF ErrorPathOf!KnownBlame, ErrorPathOf!Mismatched
<1>4. Fault'
  BY <1>1, <1>2, <1>3, Zenon DEF ErrorInv, Fault
<1>5. Absent' /\ Doubled'
  BY <1>1, <1>2, Zenon DEF ErrorInv, Absent, Doubled
<1>6. Converted'
  BY <1>1, <1>3, Zenon DEF ErrorInv, Converted
<1>. QED BY <1>1, <1>4, <1>5, <1>6 DEF ErrorInv

LEMMA ErrorStep ==
  ASSUME ErrorInv, [ErrorPathOf!Next]_(ErrorPathOf!vars)
  PROVE  ErrorInv'
<1>1. CASE ErrorPathOf!ToRedisFailedResponse
  BY <1>1, RedisStep
<1>2. CASE ErrorPathOf!ToRedisFailedResponseUtils
  BY <1>2, RedisUtilsStep
<1>3. CASE ErrorPathOf!FromReport
  BY <1>3, ReportStep
<1>4. CASE ErrorPathOf!DieselErrorToDataError
  BY <1>4, DieselStep
<1>5. ASSUME NEW d \in {"Api", "Customers", "Users"}, ErrorPathOf!ToNotFoundResponse(d)
      PROVE  ErrorInv'
  BY <1>5, NotFoundStep DEF ErrorPathOf!ToNotFoundResponse, ErrorPathOf!Is, Domains
<1>6. ASSUME NEW d \in {"Api", "Customers", "Users"}, ErrorPathOf!ToDuplicateResponse(d)
      PROVE  ErrorInv'
  BY <1>6, DuplicateStep DEF ErrorPathOf!ToDuplicateResponse, ErrorPathOf!Is, Domains
<1>7. CASE ErrorPathOf!StorageSwitch
  BY <1>7, NotFoundStep DEF ErrorPathOf!StorageSwitch, ErrorPathOf!Is, Domains
<1>8. CASE ErrorPathOf!ApiSwitch
  BY <1>8, ApiSwitchStep
<1>9. CASE ErrorPathOf!ErrorResponse
  <2>1. UNCHANGED <<x1, x2, x3, x4>>
    BY <1>9 DEF ErrorPathOf!ErrorResponse
  <2>2. /\ x3[1] \in Domains
        /\ x3[2] = "InternalServerError" => x5'.status = 500
        /\ <<x3[1], x3[2]>> \in ClientErrors => x5'.status \in 400..499
    BY <1>9, Responds
  <2>3. \A t : ErrorPathOf!Took(t)' <=> ErrorPathOf!Took(t)
    BY <2>1, Zenon DEF ErrorPathOf!Took
  <2>4. /\ ErrorPathOf!KnownBlame' <=> ErrorPathOf!KnownBlame
        /\ ErrorPathOf!Mismatched' <=> ErrorPathOf!Mismatched
    BY <2>1, <2>3, Zenon DEF ErrorPathOf!KnownBlame, ErrorPathOf!Mismatched
  <2>5. x1 = "fault" /\ ~ErrorPathOf!KnownBlame => x5'.status >= 500
    BY <2>2 DEF ErrorInv, Fault
  <2>6. ASSUME x4 # <<>>, <<x1, x4[Len(x4)]>> \in ErrorPathOf!Asked
        PROVE  x5'.status \in 400..499 <=> ~ErrorPathOf!Mismatched
    <3>1. \/ x3[2] = "InternalServerError" /\ ErrorPathOf!Mismatched
          \/ <<x3[1], x3[2]>> \in ClientErrors /\ ~ErrorPathOf!Mismatched
      BY <2>2, <2>6, Zenon DEF ErrorInv, Converted
    <3>2. CASE x3[2] = "InternalServerError" /\ ErrorPathOf!Mismatched
      BY <2>2, <3>2
    <3>3. CASE <<x3[1], x3[2]>> \in ClientErrors /\ ~ErrorPathOf!Mismatched
      BY <2>2, <3>3
    <3>. QED BY <3>1, <3>2, <3>3
  <2>7. ErrorPathOf!StatusFitsCause'
    BY <2>1, <2>4, <2>5, <2>6, Zenon DEF ErrorPathOf!StatusFitsCause, ErrorPathOf!Asked
  <2>. QED BY <2>1, <2>7, AnswerStep
<1>10. CASE ErrorPathOf!ApplicationErrorResponse
  <2>1. UNCHANGED <<x1, x2, x3, x4>> /\ x3[1] = "Application"
    BY <1>10 DEF ErrorPathOf!ApplicationErrorResponse, ErrorPathOf!Is
  <2>2. x1 = "fault" /\ x2[1] = "Application"
    BY <2>1 DEF ErrorInv
  <2>3. ErrorPathOf!KnownBlame'
    BY <2>1, <2>2 DEF ErrorPathOf!KnownBlame
  <2>4. ErrorPathOf!StatusFitsCause'
    BY <2>1, <2>2, <2>3 DEF ErrorPathOf!StatusFitsCause, ErrorPathOf!Asked
  <2>. QED BY <2>1, <2>4, AnswerStep
<1>11. CASE UNCHANGED ErrorPathOf!vars
  <2>1. UNCHANGED <<x1, x2, x3, x4>> /\ x5' = x5
    BY <1>11 DEF ErrorPathOf!vars
  <2>2. ErrorPathOf!StatusFitsCause' <=> ErrorPathOf!StatusFitsCause
    <3>1. \A t : ErrorPathOf!Took(t)' <=> ErrorPathOf!Took(t)
      BY <2>1, Zenon DEF ErrorPathOf!Took
    <3>2. /\ ErrorPathOf!KnownBlame' <=> ErrorPathOf!KnownBlame
          /\ ErrorPathOf!Mismatched' <=> ErrorPathOf!Mismatched
      BY <2>1, <3>1, Zenon DEF ErrorPathOf!KnownBlame, ErrorPathOf!Mismatched
    <3>. QED BY <2>1, <3>2 DEF ErrorPathOf!StatusFitsCause, ErrorPathOf!Answered
  <2>. QED BY <2>1, <2>2, AnswerStep DEF ErrorInv
<1>. QED BY <1>1, <1>2, <1>3, <1>4, <1>5, <1>6, <1>7, <1>8, <1>9, <1>10, <1>11
     DEF ErrorPathOf!Next

\* The conversions between the error enums: whatever statuses connectors answer,
\* a failure of the server is a 500 and a missing or duplicate object the
\* client's error, through every chain but those the property names.
THEOREM StatusFits == Spec => []StatusFitsCause
<1>. DEFINE Inv == focus = "ErrorPath" => ErrorInv
<1>1. Init => Inv
  BY ErrorInit DEF Init
<1>2. Inv /\ [Next]_vars => Inv'
  <2>. SUFFICES ASSUME ErrorInv, [Next]_vars, focus = "ErrorPath" PROVE ErrorInv'
    BY FocusKept
  <2>1. [ErrorPathOf!Next]_(ErrorPathOf!vars)
    BY DEF Next, vars, ErrorPathOf!vars
  <2>. QED BY <2>1, ErrorStep
<1>3. Inv => StatusFitsCause
  BY DEF ErrorInv, StatusFitsCause
<1>. QED BY <1>1, <1>2, <1>3, PTL DEF Spec

-----------------------------------------------------------------------------
(* Countries: form, code and sent are x1, x2 and x3 *)

\* A table has an entry for each of the n countries, and no two are equal.
Table(t, n) ==
  /\ DOMAIN t = 1..n
  /\ \A i, j \in 1..n : t[i] = t[j] => i = j

LEMMA TableOfHalves ==
  ASSUME NEW a, NEW b, NEW m \in Nat, NEW n \in Nat, Table(a, m), Table(b, n),
         a = [i \in 1..m |-> a[i]], b = [i \in 1..n |-> b[i]],
         \A i \in 1..m : \A j \in 1..n : a[i] # b[j]
  PROVE  Table(a \o b, m + n)
<1>. DEFINE t == a \o b
            S == {a[i] : i \in 1..m} \cup {b[i] : i \in 1..n}
<1>0. a \in Seq(S) /\ b \in Seq(S) /\ Len(a) = m /\ Len(b) = n
  <2>1. a \in [1..m -> S] /\ b \in [1..n -> S]
    OBVIOUS
  <2>. HIDE DEF S
  <2>. QED BY <2>1
<1>. HIDE DEF S
<1>1. /\ t \in Seq(S) /\ Len(t) = m + n
      /\ \A i \in 1..m : t[i] = a[i]
      /\ \A i \in (m + 1)..(m + n) : t[i] = b[i - m]
  <2>1. t \in Seq(S) /\ Len(t) = m + n
    BY <1>0
  <2>2. ASSUME NEW i \in 1..m PROVE t[i] = a[i]
    BY <1>0
  <2>3. ASSUME NEW i \in (m + 1)..(m + n) PROVE t[i] = b[i - m]
    BY <1>0
  <2>. HIDE DEF t
  <2>. QED BY <2>1, <2>2, <2>3
<1>. HIDE DEF t
<1>2. ASSUME NEW i \in 1..(m + n), NEW j \in 1..(m + n), t[i] = t[j] PROVE i = j
  <2>1. CASE i <= m /\ j <= m
    BY <1>1, <1>2, <2>1 DEF Table
  <2>2. CASE i <= m /\ j > m
    <3>1. i \in 1..m /\ j - m \in 1..n /\ j \in (m + 1)..(m + n)
      BY <2>2
    <3>2. t[i] = a[i] /\ t[j] = b[j - m]
      BY <1>1, <3>1, Zenon
    <3>3. a[i] # b[j - m]
      BY <3>1, Zenon
    <3>. QED BY <1>2, <3>2, <3>3
  <2>3. CASE i > m /\ j <= m
    <3>1. j \in 1..m /\ i - m \in 1..n /\ i \in (m + 1)..(m + n)
      BY <2>3
    <3>2. t[j] = a[j] /\ t[i] = b[i - m]
      BY <1>1, <3>1, Zenon
    <3>3. a[j] # b[i - m]
      BY <3>1, Zenon
    <3>. QED BY <1>2, <3>2, <3>3
  <2>4. CASE i > m /\ j > m
    <3>1. /\ i - m \in 1..n /\ i \in (m + 1)..(m + n)
          /\ j - m \in 1..n /\ j \in (m + 1)..(m + n)
      BY <2>4
    <3>2. b[i - m] = b[j - m]
      BY <1>1, <1>2, <3>1, Zenon
    <3>3. i - m = j - m
      BY <3>1, <3>2, Zenon DEF Table
    <3>. QED BY <2>4, <3>3
  <2>. QED BY <2>1, <2>2, <2>3, <2>4
<1>3. DOMAIN t = 1..(m + n)
  BY <1>1
<1>. QED BY <1>2, <1>3 DEF Table, t

LEMMA ToAlpha2Table ==
  Table(CountriesOf!ToAlpha2AtoL \o CountriesOf!ToAlpha2MtoZ, 249)
<1>. DEFINE a == CountriesOf!ToAlpha2AtoL
            b == CountriesOf!ToAlpha2MtoZ
<1>1. DOMAIN a = 1..130 /\ a = [i \in 1..130 |-> a[i]]
  BY SMTT(60) DEF CountriesOf!ToAlpha2AtoL
<1>2. DOMAIN b = 1..119 /\ b = [i \in 1..119 |-> b[i]]
  BY SMTT(60) DEF CountriesOf!ToAlpha2MtoZ
<1>3. ASSUME NEW i \in 1..130, NEW j \in 1..130, a[i] = a[j] PROVE i = j
  BY <1>3, SMTT(60) DEF CountriesOf!ToAlpha2AtoL
<1>4. ASSUME NEW i \in 1..119, NEW j \in 1..119, b[i] = b[j] PROVE i = j
  BY <1>4, SMTT(60) DEF CountriesOf!ToAlpha2MtoZ
<1>5. ASSUME NEW i \in 1..130, NEW j \in 1..119 PROVE a[i] # b[j]
  BY <1>5, SMTT(60) DEF CountriesOf!ToAlpha2AtoL, CountriesOf!ToAlpha2MtoZ
<1>. HIDE DEF a, b
<1>6. Table(a, 130) /\ Table(b, 119)
  BY <1>1, <1>2, <1>3, <1>4, Zenon DEF Table
<1>7. ASSUME NEW m, NEW n, m = 130, n = 119 PROVE Table(a \o b, m + n)
  <2>1. /\ m \in Nat /\ n \in Nat
    BY <1>7
  <2>2. /\ Table(a, m) /\ Table(b, n)
        /\ a = [i \in 1..m |-> a[i]] /\ b = [i \in 1..n |-> b[i]]
        /\ \A i \in 1..m : \A j \in 1..n : a[i] # b[j]
    BY <1>1, <1>2, <1>5, <1>6, <1>7, Zenon
  <2>. QED BY <2>1, <2>2, TableOfHalves, Zenon
<1>8. Table(a \o b, 130 + 119) /\ 130 + 119 = 249
  BY <1>7
<1>. QED BY <1>8 DEF a, b

LEMMA ToAlpha3Table ==
  Table(CountriesOf!ToAlpha3AtoL \o CountriesOf!ToAlpha3MtoZ, 249)
<1>. DEFINE a == CountriesOf!ToAlpha3AtoL
            b == CountriesOf!ToAlpha3MtoZ
<1>1. DOMAIN a = 1..130 /\ a = [i \in 1..130 |-> a[i]]
  BY SMTT(60) DEF CountriesOf!ToAlpha3AtoL
<1>2. DOMAIN b = 1..119 /\ b = [i \in 1..119 |-> b[i]]
  BY SMTT(60) DEF CountriesOf!ToAlpha3MtoZ
<1>3. ASSUME NEW i \in 1..130, NEW j \in 1..130, a[i] = a[j] PROVE i = j
  BY <1>3, SMTT(60) DEF CountriesOf!ToAlpha3AtoL
<1>4. ASSUME NEW i \in 1..119, NEW j \in 1..119, b[i] = b[j] PROVE i = j
  BY <1>4, SMTT(60) DEF CountriesOf!ToAlpha3MtoZ
<1>5. ASSUME NEW i \in 1..130, NEW j \in 1..119 PROVE a[i] # b[j]
  BY <1>5, SMTT(60) DEF CountriesOf!ToAlpha3AtoL, CountriesOf!ToAlpha3MtoZ
<1>. HIDE DEF a, b
<1>6. Table(a, 130) /\ Table(b, 119)
  BY <1>1, <1>2, <1>3, <1>4, Zenon DEF Table
<1>7. ASSUME NEW m, NEW n, m = 130, n = 119 PROVE Table(a \o b, m + n)
  <2>1. /\ m \in Nat /\ n \in Nat
    BY <1>7
  <2>2. /\ Table(a, m) /\ Table(b, n)
        /\ a = [i \in 1..m |-> a[i]] /\ b = [i \in 1..n |-> b[i]]
        /\ \A i \in 1..m : \A j \in 1..n : a[i] # b[j]
    BY <1>1, <1>2, <1>5, <1>6, <1>7, Zenon
  <2>. QED BY <2>1, <2>2, TableOfHalves, Zenon
<1>8. Table(a \o b, 130 + 119) /\ 130 + 119 = 249
  BY <1>7
<1>. QED BY <1>8 DEF a, b

LEMMA ToNumericTable ==
  Table(CountriesOf!ToNumericAtoL \o CountriesOf!ToNumericMtoZ, 249)
<1>. DEFINE a == CountriesOf!ToNumericAtoL
            b == CountriesOf!ToNumericMtoZ
<1>1. DOMAIN a = 1..130 /\ a = [i \in 1..130 |-> a[i]]
  BY SMTT(60) DEF CountriesOf!ToNumericAtoL
<1>2. DOMAIN b = 1..119 /\ b = [i \in 1..119 |-> b[i]]
  BY SMTT(60) DEF CountriesOf!ToNumericMtoZ
<1>3. ASSUME NEW i \in 1..130, NEW j \in 1..130, a[i] = a[j] PROVE i = j
  BY <1>3, SMTT(60) DEF CountriesOf!ToNumericAtoL
<1>4. ASSUME NEW i \in 1..119, NEW j \in 1..119, b[i] = b[j] PROVE i = j
  BY <1>4, SMTT(60) DEF CountriesOf!ToNumericMtoZ
<1>5. ASSUME NEW i \in 1..130, NEW j \in 1..119 PROVE a[i] # b[j]
  BY <1>5, SMTT(60) DEF CountriesOf!ToNumericAtoL, CountriesOf!ToNumericMtoZ
<1>. HIDE DEF a, b
<1>6. Table(a, 130) /\ Table(b, 119)
  BY <1>1, <1>2, <1>3, <1>4, Zenon DEF Table
<1>7. ASSUME NEW m, NEW n, m = 130, n = 119 PROVE Table(a \o b, m + n)
  <2>1. /\ m \in Nat /\ n \in Nat
    BY <1>7
  <2>2. /\ Table(a, m) /\ Table(b, n)
        /\ a = [i \in 1..m |-> a[i]] /\ b = [i \in 1..n |-> b[i]]
        /\ \A i \in 1..m : \A j \in 1..n : a[i] # b[j]
    BY <1>1, <1>2, <1>5, <1>6, <1>7, Zenon
  <2>. QED BY <2>1, <2>2, TableOfHalves, Zenon
<1>8. Table(a \o b, 130 + 119) /\ 130 + 119 = 249
  BY <1>7
<1>. QED BY <1>8 DEF a, b

\* The seven matches agree.
LEMMA TablesAgree ==
  /\ \A f \in CountriesOf!Formats : CountriesOf!From(f) = CountriesOf!To(f)
  /\ CountriesOf!ArmAlpha2 = CountriesOf!To("alpha2")
  /\ CountriesOf!ArmAlpha3 = CountriesOf!To("alpha3")
<1>1. CountriesOf!From("alpha2") = CountriesOf!To("alpha2")
  <2>1. CountriesOf!FromAlpha2AtoL = CountriesOf!ToAlpha2AtoL
    BY Zenon DEF CountriesOf!FromAlpha2AtoL, CountriesOf!ToAlpha2AtoL
  <2>2. CountriesOf!FromAlpha2MtoZ = CountriesOf!ToAlpha2MtoZ
    BY Zenon DEF CountriesOf!FromAlpha2MtoZ, CountriesOf!ToAlpha2MtoZ
  <2>. QED BY <2>1, <2>2 DEF CountriesOf!From, CountriesOf!To
<1>2. CountriesOf!From("alpha3") = CountriesOf!To("alpha3")
  <2>1. CountriesOf!FromAlpha3AtoL = CountriesOf!ToAlpha3AtoL
    BY Zenon DEF CountriesOf!FromAlpha3AtoL, CountriesOf!ToAlpha3AtoL
  <2>2. CountriesOf!FromAlpha3MtoZ = CountriesOf!ToAlpha3MtoZ
    BY Zenon DEF CountriesOf!FromAlpha3MtoZ, CountriesOf!ToAlpha3MtoZ
  <2>. QED BY <2>1, <2>2 DEF CountriesOf!From, CountriesOf!To
<1>3. CountriesOf!From("numeric") = CountriesOf!To("numeric")
  <2>1. CountriesOf!FromNumericAtoL = CountriesOf!ToNumericAtoL
    BY Zenon DEF CountriesOf!FromNumericAtoL, CountriesOf!ToNumericAtoL
  <2>2. CountriesOf!FromNumericMtoZ = CountriesOf!ToNumericMtoZ
    BY Zenon DEF CountriesOf!FromNumericMtoZ, CountriesOf!ToNumericMtoZ
  <2>. QED BY <2>1, <2>2 DEF CountriesOf!From, CountriesOf!To
<1>4. CountriesOf!ArmAlpha2 = CountriesOf!To("alpha2")
  <2>1. CountriesOf!ArmAlpha2AtoL = CountriesOf!ToAlpha2AtoL
    BY Zenon DEF CountriesOf!ArmAlpha2AtoL, CountriesOf!ToAlpha2AtoL
  <2>2. CountriesOf!ArmAlpha2MtoZ = CountriesOf!ToAlpha2MtoZ
    BY Zenon DEF CountriesOf!ArmAlpha2MtoZ, CountriesOf!ToAlpha2MtoZ
  <2>. QED BY <2>1, <2>2 DEF CountriesOf!ArmAlpha2, CountriesOf!To
<1>5. CountriesOf!ArmAlpha3 = CountriesOf!To("alpha3")
  <2>1. CountriesOf!ArmAlpha3AtoL = CountriesOf!ToAlpha3AtoL
    BY Zenon DEF CountriesOf!ArmAlpha3AtoL, CountriesOf!ToAlpha3AtoL
  <2>2. CountriesOf!ArmAlpha3MtoZ = CountriesOf!ToAlpha3MtoZ
    BY Zenon DEF CountriesOf!ArmAlpha3MtoZ, CountriesOf!ToAlpha3MtoZ
  <2>. QED BY <2>1, <2>2 DEF CountriesOf!ArmAlpha3, CountriesOf!To
<1>. QED BY <1>1, <1>2, <1>3, <1>4, <1>5 DEF CountriesOf!Formats

LEMMA Tables ==
  ASSUME NEW f \in CountriesOf!Formats
  PROVE  Table(CountriesOf!To(f), 249)
BY ToAlpha2Table, ToAlpha3Table, ToNumericTable DEF CountriesOf!Formats, CountriesOf!To

\* A letter code that a client may write is in the table of its format.
LEMMA LettersKnown ==
  ASSUME NEW f \in {"alpha2", "alpha3"}, NEW c \in CountriesOf!Written(f)
  PROVE  \E i \in CountriesOf!Country : CountriesOf!From(f)[i] = c
<1>1. c \in CountriesOf!ToSet(CountriesOf!From(f))
  BY DEF CountriesOf!Written, CountriesOf!CountryAlpha2, CountriesOf!CountryAlpha3,
         CountriesOf!From
<1>2. \E i \in DOMAIN CountriesOf!From(f) : CountriesOf!From(f)[i] = c
  BY <1>1, ZenonT(60) DEF CountriesOf!ToSet
<1>3. DOMAIN CountriesOf!From(f) = 1..249
  BY Tables, TablesAgree DEF CountriesOf!Formats, Table
<1>4. CountriesOf!Country = 1..249
  BY DEF CountriesOf!Country, CountriesOf!CountryAtoL, CountriesOf!CountryMtoZ
<1>. QED BY <1>2, <1>3, <1>4

LEMMA CodesDiffer ==
  ASSUME NEW f \in CountriesOf!Formats,
         NEW i \in CountriesOf!Country, NEW j \in CountriesOf!Country,
         CountriesOf!To(f)[i] = CountriesOf!To(f)[j]
  PROVE  i = j
<1>1. CountriesOf!Country = 1..249
  BY DEF CountriesOf!Country, CountriesOf!CountryAtoL, CountriesOf!CountryMtoZ
<1>2. Table(CountriesOf!To(f), 249)
  BY Tables
<1>. QED BY <1>1, <1>2, Zenon DEF Table

\* What a value stands for: the code that came, or a country of that code in the
\* format it came in, as such or in any format.
CountryInv ==
  /\ x1 # "none" => x3[1] \in CountriesOf!Formats
  /\ x1 = "country" =>
       x2[1] \in CountriesOf!Country /\ CountriesOf!To(x3[1])[x2[1]] = x3[2]
  /\ x1 \in CountriesOf!Formats =>
       \/ x1 = x3[1] /\ x2[1] = x3[2] /\ x3[2] \in CountriesOf!Written(x1)
       \/ \E i \in CountriesOf!Country :
            x2[1] = CountriesOf!To(x1)[i] /\ CountriesOf!To(x3[1])[i] = x3[2]
  /\ x1 = "error" => /\ x3[1] = "numeric"
                     /\ \A i \in CountriesOf!Country : CountriesOf!To("numeric")[i] # x3[2]

\* Reading a code in the format it is in finds the country it came from.
LEMMA ReadBack ==
  ASSUME CountryInv, x1 \in CountriesOf!Formats,
         NEW i \in CountriesOf!Country, CountriesOf!To(x1)[i] = x2[1]
  PROVE  CountriesOf!To(x3[1])[i] = x3[2]
<1>1. CASE x1 = x3[1] /\ x2[1] = x3[2]
  BY <1>1
<1>2. ASSUME NEW k \in CountriesOf!Country,
             x2[1] = CountriesOf!To(x1)[k], CountriesOf!To(x3[1])[k] = x3[2]
      PROVE  CountriesOf!To(x3[1])[i] = x3[2]
  <2>1. i = k
    BY <1>2, CodesDiffer
  <2>. QED BY <1>2, <2>1
<1>. QED BY <1>1, <1>2, Zenon DEF CountryInv

LEMMA CountryStep ==
  ASSUME CountryInv, [CountriesOf!Next]_(CountriesOf!vars)
  PROVE  CountryInv'
<1>. DEFINE F == CountriesOf!Formats
<1>0. "none" \notin F /\ "country" \notin F /\ "error" \notin F
      /\ "alpha2" \in F /\ "alpha3" \in F
  BY DEF CountriesOf!Formats
<1>1. ASSUME NEW f \in F, NEW c \in CountriesOf!Written(f), CountriesOf!Receive(f, c)
      PROVE  CountryInv'
  <2>1. x1' = f /\ x2' = <<c>> /\ x3' = <<f, c>>
    BY <1>1 DEF CountriesOf!Receive
  <2>2. x2'[1] = c /\ x3'[1] = f /\ x3'[2] = c
    BY <2>1
  <2>. QED BY <1>0, <2>1, <2>2 DEF CountryInv
<1>2. ASSUME NEW f \in F, CountriesOf!Serialize(f)
      PROVE  CountryInv'
  <2>1. x1 = "country" /\ x1' = f /\ x2' = <<CountriesOf!To(f)[x2[1]]>> /\ x3' = x3
    BY <1>2 DEF CountriesOf!Serialize
  <2>2. x2'[1] = CountriesOf!To(f)[x2[1]]
    BY <2>1
  <2>3. /\ x3[1] \in F
        /\ x2[1] \in CountriesOf!Country /\ CountriesOf!To(x3[1])[x2[1]] = x3[2]
    BY <2>1 DEF CountryInv
  <2>4. \E i \in CountriesOf!Country :
          x2'[1] = CountriesOf!To(f)[i] /\ CountriesOf!To(x3[1])[i] = x3[2]
    BY <2>2, <2>3
  <2>. QED BY <1>0, <2>1, <2>3, <2>4 DEF CountryInv
<1>3. CASE CountriesOf!Deserialize
  <2>1. x1 \in F /\ x1' = "country" /\ x3' = x3
    BY <1>3 DEF CountriesOf!Deserialize
  <2>2. PICK i \in CountriesOf!Country : CountriesOf!From(x1)[i] = x2[1] /\ x2' = <<i>>
    BY <1>3, Zenon DEF CountriesOf!Deserialize
  <2>3. CountriesOf!To(x1)[i] = x2[1]
    BY <2>1, <2>2, TablesAgree
  <2>4. CountriesOf!To(x3[1])[i] = x3[2]
    BY <2>1, <2>3, ReadBack
  <2>5. x2'[1] = i
    BY <2>2
  <2>6. x3[1] \in F
    BY <1>0, <2>1 DEF CountryInv
  <2>. QED BY <1>0, <2>1, <2>4, <2>5, <2>6 DEF CountryInv
<1>4. CASE CountriesOf!Reject
  <2>1. /\ x1 \in F /\ x1' = "error" /\ x3' = x3
        /\ \A i \in CountriesOf!Country : CountriesOf!From(x1)[i] # x2[1]
    BY <1>4, Zenon DEF CountriesOf!Reject
  <2>2. \A i \in CountriesOf!Country : CountriesOf!To(x1)[i] # x2[1]
    BY <2>1, TablesAgree
  <2>3. x1 = x3[1] /\ x2[1] = x3[2] /\ x3[2] \in CountriesOf!Written(x1)
    BY <2>1, <2>2, Zenon DEF CountryInv
  <2>4. x1 \notin {"alpha2", "alpha3"}
    BY <2>1, <2>3, LettersKnown
  <2>5. x1 = "numeric"
    BY <2>1, <2>4 DEF CountriesOf!Formats
  <2>. QED BY <1>0, <2>1, <2>2, <2>3, <2>5 DEF CountryInv
<1>5. CASE CountriesOf!FromAlpha2ToAlpha3
  <2>1. x1 = "alpha2" /\ x1' = "alpha3" /\ x3' = x3
    BY <1>5 DEF CountriesOf!FromAlpha2ToAlpha3
  <2>2. PICK i \in CountriesOf!Country :
          CountriesOf!ArmAlpha2[i] = x2[1] /\ x2' = <<CountriesOf!ArmAlpha3[i]>>
    BY <1>5, Zenon DEF CountriesOf!FromAlpha2ToAlpha3
  <2>3. CountriesOf!To(x1)[i] = x2[1] /\ x2'[1] = CountriesOf!To("alpha3")[i]
    BY <2>1, <2>2, TablesAgree
  <2>4. CountriesOf!To(x3[1])[i] = x3[2]
    BY <1>0, <2>1, <2>3, ReadBack
  <2>5. x3[1] \in F
    BY <1>0, <2>1 DEF CountryInv
  <2>. QED BY <1>0, <2>1, <2>3, <2>4, <2>5 DEF CountryInv
<1>6. CASE UNCHANGED CountriesOf!vars
  BY <1>6 DEF CountriesOf!vars, CountryInv
<1>. QED BY <1>1, <1>2, <1>3, <1>4, <1>5, <1>6 DEF CountriesOf!Next

\* The country codes of common_enums: through any chain of formats a code comes
\* back as it was, and only a number of no country is rejected, whatever numbers
\* clients send.
THEOREM CodeKept == Spec => []CodeSurvives
<1>. DEFINE Inv == focus = "Countries" => CountryInv
<1>1. Init => Inv
  <2>1. CountriesOf!Init => CountryInv
    BY DEF CountriesOf!Init, CountryInv, CountriesOf!Formats
  <2>. QED BY <2>1 DEF Init
<1>2. Inv /\ [Next]_vars => Inv'
  <2>. SUFFICES ASSUME CountryInv, [Next]_vars, focus = "Countries" PROVE CountryInv'
    BY FocusKept
  <2>1. [CountriesOf!Next]_(CountriesOf!vars)
    BY DEF Next, vars, CountriesOf!vars
  <2>. QED BY <2>1, CountryStep
<1>3. Inv => CodeSurvives
  <2>1. CountryInv => CountriesOf!CodeSurvives
    <3>1. CountryInv /\ x1 \in CountriesOf!Formats /\ x3[1] = x1 => x2[1] = x3[2]
      BY Zenon DEF CountryInv
    <3>. QED BY <3>1 DEF CountryInv, CountriesOf!CodeSurvives
  <2>. QED BY <2>1 DEF CodeSurvives
<1>. QED BY <1>1, <1>2, <1>3, PTL DEF Spec

=============================================================================
