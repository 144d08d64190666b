--------------------------- MODULE RetrySchedule ---------------------------
(***************************************************************************)
(* When a task is tried again: get_schedule_time, get_pm_schedule_time and *)
(* get_outgoing_webhook_retry_schedule_time of                             *)
(* src/crates/scheduler/src/utils.rs, over the mappings of                 *)
(* consumer/types/process_data.rs.                                         *)
(*                                                                         *)
(* The specification is a workflow that asks for the delay before each of  *)
(* its attempts until there is none.  Counts are i32, also negative ones;  *)
(* an addition that overflows wraps, as in a release build.                *)
(***************************************************************************)
EXTENDS Integers, Sequences, SequencesExt, FiniteSets

CONSTANTS
  MaxI32,        \* the largest i32, scaled down
  Merchants,     \* merchants that may have a mapping of their own
  Mappings       \* the mappings an operator may configure

Wrap(n) == ((n + MaxI32 + 1) % (2 * MaxI32 + 2)) - (MaxI32 + 1)

RetryMapping(start_after, frequency, count) ==
  [start_after |-> start_after, frequency |-> frequency, count |-> count]

DefaultConnectorMapping == RetryMapping(60, <<300>>, <<5>>)

DefaultPmMapping == RetryMapping(900, <<300>>, <<5>>)

DefaultWebhookMapping ==
  RetryMapping(60, <<60 * 5, 60 * 10, 60 * 60, 60 * 60 * 6>>, <<2, 5, 5, 3>>)

Defaults == {DefaultConnectorMapping, DefaultPmMapping, DefaultWebhookMapping}

\* zip stops at the shorter of the two lists.
Steps(mapping) ==
  IF Len(mapping.count) < Len(mapping.frequency)
    THEN Len(mapping.count) ELSE Len(mapping.frequency)

\* cumulative_count after n steps.
Cumulative(mapping) ==
  LET total[n \in 0..Steps(mapping)] ==
        IF n = 0 THEN 0 ELSE Wrap(total[n - 1] + mapping.count[n])
  IN  total

\* An Option<i32>: without a delay the workflow gives up.
None == <<>>

Some(delay) == <<delay>>

\* Mutant of GetDelay: an interval is left one attempt late.
GetDelayLate(mapping, retry_count) ==
  LET reached == {n \in 1..Steps(mapping) :
                    Cumulative(mapping)[n] >= retry_count - 1}
  IN  IF reached = {} THEN None
      ELSE Some(mapping.frequency[CHOOSE n \in reached : \A k \in reached : n <= k])

GetDelay(mapping, retry_count) ==
  LET reached == {n \in 1..Steps(mapping) :
                    Cumulative(mapping)[n] >= retry_count}
  IN  IF retry_count <= 0 \/ reached = {} THEN None
      ELSE Some(mapping.frequency[CHOOSE n \in reached : \A k \in reached : n <= k])

GetScheduleTime(mapping, retry_count) ==
  IF retry_count = 0 THEN Some(mapping.start_after) ELSE GetDelay(mapping, retry_count)

-----------------------------------------------------------------------------

VARIABLES
  custom,      \* custom_merchant_mapping, custom_pm_mapping
  default,     \* default_mapping
  merchant,    \* whose task it is
  retry,       \* retry_count of the task
  delays,      \* the delays before its attempts
  over         \* there was none

vars == <<custom, default, merchant, retry, delays, over>>

Init ==
  /\ default \in Defaults
  /\ custom \in [Merchants -> Mappings \cup {<<>>}]
  /\ merchant \in Merchants
  /\ retry = 0 /\ delays = <<>> /\ over = FALSE

\* The merchant's mapping, or the default one.
Mapping == IF custom[merchant] = <<>> THEN default ELSE custom[merchant]

Schedule ==
  /\ ~over /\ GetScheduleTime(Mapping, retry) # None
  /\ delays' = delays \o GetScheduleTime(Mapping, retry)
  /\ retry' = retry + 1
  /\ UNCHANGED <<custom, default, merchant, over>>

GiveUp ==
  /\ ~over /\ GetScheduleTime(Mapping, retry) = None
  /\ over' = TRUE
  /\ UNCHANGED <<custom, default, merchant, retry, delays>>

Next == Schedule \/ GiveUp

Spec == Init /\ [][Next]_vars

-----------------------------------------------------------------------------
(* Properties *)

\* The configured schedule, written out: start_after, then every frequency
\* as often as its count says.
Configured(mapping) ==
  <<mapping.start_after>> \o
  FlattenSeq([n \in 1..Steps(mapping) |->
                [k \in 1..mapping.count[n] |-> mapping.frequency[n]]])

\* The sums of the first elements of a list, in numbers without a width.
Sums(list) ==
  LET sum[n \in 0..Len(list)] == IF n = 0 THEN 0 ELSE sum[n - 1] + list[n]
  IN  sum

\* No count is negative.
Counted(mapping) == \A n \in 1..Steps(mapping) : mapping.count[n] >= 0

\* The counts add up within an i32.
Fits(mapping) == \A n \in 1..Steps(mapping) : Sums(mapping.count)[n] <= MaxI32

\* What a mapping says of one interval, step by step, and how often its
\* schedule is to use it.
Uses(mapping, f) ==
  [n \in 1..Steps(mapping) |-> IF mapping.frequency[n] = f THEN mapping.count[n] ELSE 0]

Configures(mapping, f) == Sums(Uses(mapping, f))[Steps(mapping)]

\* Counts that overflow only shorten the schedule: intervals are skipped, but
\* none is used more often than configured, nor one that is not configured.
OnlyShortened ==
  \A i \in 2..Len(delays) :
    Cardinality({k \in 2..Len(delays) : delays[k] = delays[i]})
      <= Configures(Mapping, delays[i])

\* A task is tried exactly as configured, attempt by attempt, and not once
\* more, whatever lists the operator gave (of different lengths, with zeros),
\* as long as their counts add up within an i32; otherwise OnlyShortened.
\* Whatever the counts, also negative ones, no task is tried without end.
TriedAsConfigured ==
  /\ Len(delays) <= MaxI32 + 1
  /\ Counted(Mapping) =>
       IF Fits(Mapping)
         THEN /\ IsPrefix(delays, Configured(Mapping))
              /\ over => delays = Configured(Mapping)
         ELSE OnlyShortened

=============================================================================
