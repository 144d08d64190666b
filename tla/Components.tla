----------------------------- MODULE Components -----------------------------
(***************************************************************************)
(* The components that do not share state: the rows of the services,       *)
(* health checks, the start of a process, an error, and the values (retry  *)
(* schedules, amounts, points in time, country codes).                     *)
(* A behaviour is one of the component that focus names; its variables     *)
(* are the first of the slots x1, ..., x9, the others stay NoValue.        *)
(***************************************************************************)
EXTENDS Integers, Sequences, FiniteSets

CONSTANTS
  NoValue,
  Requests, Ids, Tokens, Updates, PoolSize, MaxQueryFaults,      \* Records
  Checks, ReadCount, MaxAppends, MaxCheckFaults,                 \* HealthCheck
  Backends, Expiries, Delays, MaxU32,                            \* Startup
  ConnectorStatuses,                                             \* ErrorPath
  MaxI32, Merchants, Mappings,                                   \* RetrySchedule
  Amounts, Rates, MaxAmount, F32, F64, Scales,                   \* Money
  Milli, Second, Times, Offsets,                                 \* Timestamps
  MaxCode                                                        \* Countries

\* A pool has a number of connections.
ASSUME PoolAssumption == PoolSize \in Nat

\* Finitely many requests run at the same time, an XREAD has a count.
ASSUME ChecksAssumption == IsFiniteSet(Checks) /\ ReadCount \in Nat

\* The largest values of the integer types; the usual settings of a lock, 2000
\* milliseconds, fit a u32.
ASSUME WidthAssumption == MaxI32 \in Nat /\ MaxU32 \in Nat /\ MaxU32 >= 2000

\* The settings of a lock are unsigned.
ASSUME LockAssumption == Expiries \subseteq Nat /\ Delays \subseteq Nat

\* A configured mapping is a number and two lists of numbers, whatever their
\* lengths and signs.
ASSUME MappingsAssumption ==
  Mappings \subseteq [start_after : Int, frequency : Seq(Int), count : Seq(Int)]

\* Amounts and percentages are whole numbers of their units.  An f64 holds every
\* amount exactly, six times as much as a u32 and five to spare, and at least
\* four times as many mantissas as an f32.
ASSUME AmountsAssumption ==
  /\ F32 \in Nat \ {0} /\ F64 \in Nat /\ 4 * (F32 + 1) <= F64
  /\ Scales \subseteq Nat \ {0}
  /\ Amounts \subseteq Int /\ Rates \subseteq Int
  /\ \A amount \in Amounts : -F64 < amount
  /\ MaxAmount \in Nat /\ MaxAmount < F64 /\ 6 * (MaxU32 + 5) < F64

\* A second is a number of milliseconds, a millisecond a number of ticks.
ASSUME ResolutionAssumption ==
  /\ Milli \in Nat \ {0} /\ Second \in Nat \ {0}
  /\ \E k \in 1..Second : Second = Milli * k
  /\ Times \subseteq Int /\ Offsets \subseteq Int

VARIABLES focus, x1, x2, x3, x4, x5, x6, x7, x8, x9

RecordsOf == INSTANCE Records WITH
  MaxFaults <- MaxQueryFaults,
  table <- x1, rows <- x2, generated <- x3, req <- x4, free <- x5,
  holds <- x6, faults <- x7

HealthCheckOf == INSTANCE HealthCheck WITH
  MaxFaults <- MaxCheckFaults,
  key <- x1, stream <- x2, appended <- x3, check <- x4, clean <- x5, faults <- x6

StartupOf == INSTANCE Startup WITH
  program <- x1, backend <- x2, file <- x3, environ <- x4, phase <- x5,
  conf <- x6, lock_retries <- x7, raw <- x8, todo <- x9

ErrorPathOf == INSTANCE ErrorPath WITH
  cause <- x1, raised <- x2, err <- x3, path <- x4, answer <- x5

RetryScheduleOf == INSTANCE RetrySchedule WITH
  custom <- x1, default <- x2, merchant <- x3, retry <- x4, delays <- x5,
  over <- x6

MoneyOf == INSTANCE Money WITH
  stage <- x1, currency <- x2, sent <- x3, rate <- x4, value <- x5

TimestampsOf == INSTANCE Timestamps WITH
  at <- x1, format <- x2, time <- x3, wire <- x4, origin <- x5

CountriesOf == INSTANCE Countries WITH
  form <- x1, code <- x2, sent <- x3

Init ==
  \/ focus = "HealthCheck" /\ HealthCheckOf!Init
     /\ x7 = NoValue /\ x8 = NoValue /\ x9 = NoValue
  \/ focus = "Records" /\ RecordsOf!Init
     /\ x8 = NoValue /\ x9 = NoValue
  \/ focus = "Startup" /\ StartupOf!Init
  \/ focus = "ErrorPath" /\ ErrorPathOf!Init
     /\ x6 = NoValue /\ x7 = NoValue /\ x8 = NoValue /\ x9 = NoValue
  \/ focus = "RetrySchedule" /\ RetryScheduleOf!Init
     /\ x7 = NoValue /\ x8 = NoValue /\ x9 = NoValue
  \/ focus = "Money" /\ MoneyOf!Init
     /\ x6 = NoValue /\ x7 = NoValue /\ x8 = NoValue /\ x9 = NoValue
  \/ focus = "Timestamps" /\ TimestampsOf!Init
     /\ x6 = NoValue /\ x7 = NoValue /\ x8 = NoValue /\ x9 = NoValue
  \/ focus = "Countries" /\ CountriesOf!Init
     /\ x4 = NoValue /\ x5 = NoValue /\ x6 = NoValue /\ x7 = NoValue /\ x8 = NoValue /\ x9 = NoValue

Next ==
  /\ UNCHANGED focus
  /\ \/ focus = "HealthCheck" /\ HealthCheckOf!Next
        /\ UNCHANGED <<x7, x8, x9>>
     \/ focus = "Records" /\ RecordsOf!Next
        /\ UNCHANGED <<x8, x9>>
     \/ focus = "Startup" /\ StartupOf!Next
     \/ focus = "ErrorPath" /\ ErrorPathOf!Next
        /\ UNCHANGED <<x6, x7, x8, x9>>
     \/ focus = "RetrySchedule" /\ RetryScheduleOf!Next
        /\ UNCHANGED <<x7, x8, x9>>
     \/ focus = "Money" /\ MoneyOf!Next
        /\ UNCHANGED <<x6, x7, x8, x9>>
     \/ focus = "Timestamps" /\ TimestampsOf!Next
        /\ UNCHANGED <<x6, x7, x8, x9>>
     \/ focus = "Countries" /\ CountriesOf!Next
        /\ UNCHANGED <<x4, x5, x6, x7, x8, x9>>

vars == <<focus, x1, x2, x3, x4, x5, x6, x7, x8, x9>>

Spec == Init /\ [][Next]_vars

-----------------------------------------------------------------------------
(* The properties of the components *)

\* A request that waits for a connection holds none, in the two statements of
\* upsert_api_key too, and no connection is lost or doubled.
NoHoldAndWait == focus = "Records" => RecordsOf!NoHoldAndWait

\* A row that exists during a whole request is not answered with NotFound,
\* whichever statement of whichever request fails.
NotFoundIsHonest == focus = "Records" => RecordsOf!NotFoundIsHonest

\* fetch_raw_secrets fetches every secret of a running process and binds each
\* to its own field.
SecretsAreOwn == focus = "Startup" => StartupOf!SecretsAreOwn

\* Usual settings are not refused by with_config_path and validate, wherever
\* they come from; a running drainer, which validates, has the names of its
\* stores; a running application, which does not, still never waits for a lock
\* longer than the lock is held.
RunsOnlyUsable == focus = "Startup" => StartupOf!RunsOnlyUsable

\* A failure of a store is answered with 500 or more, a missing object or a
\* duplicate as the client's error, through every chain of conversions but those
\* that KnownBlame and Mismatched list.
StatusFitsCause == focus = "ErrorPath" => ErrorPathOf!StatusFitsCause

\* A task is retried exactly as its mapping says, if the counts fit an i32;
\* counts that overflow in get_delay only shorten its schedule.
TriedAsConfigured == focus = "RetrySchedule" => RetryScheduleOf!TriedAsConfigured

\* The float that to_currency_lower_unit returns rounds to the amount that was
\* written, or to within half a hundredth for a currency of three decimals.
AmountSurvives == focus = "Money" => MoneyOf!AmountSurvives

\* apply_and_ceil_result is the percentage rounded up, but for what an f32 loses
\* of it.
SurchargeCovers == focus = "Money" => MoneyOf!SurchargeCovers

\* A point in time survives any chain of formats and zones within a second, and
\* no serde module of custom_serde.rs but the custom one refuses it.
InstantSurvives == focus = "Timestamps" => TimestampsOf!InstantSurvives

\* A country keeps its code through any chain of the seven tables, and
\* from_numeric rejects only numbers that to_numeric never writes.
CodeSurvives == focus = "Countries" => CountriesOf!CodeSurvives

\* A deep health check without a failed call is answered as healthy, whatever
\* other checks delete and trim meanwhile.
HealthyIsReported == focus = "HealthCheck" => HealthCheckOf!HealthyIsReported

\* The test stream of the health checks does not grow with their number, if
\* fewer run at a time than one XREAD returns entries.
LeftoverBounded == focus = "HealthCheck" => HealthCheckOf!LeftoverBounded

=============================================================================
