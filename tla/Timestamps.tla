----------------------------- MODULE Timestamps -----------------------------
(***************************************************************************)
(* Points in time as they are written and read by the serde modules of     *)
(* src/crates/common_utils/src/custom_serde.rs.                            *)
(*                                                                         *)
(* A PrimitiveDateTime is a number of ticks in UTC, Milli ticks to the     *)
(* millisecond and Second ticks to the second.  What is on the wire is a   *)
(* record: the local reading, its offset from UTC, and whether a zone and  *)
(* the T between date and time are written.                                *)
(***************************************************************************)
EXTENDS Integers

CONSTANTS
  Milli, Second,     \* ticks to the millisecond, to the second
  Times,             \* the points in time considered
  Offsets            \* the offsets clients write, in ticks

Formats == {"iso8601", "without_timezone", "timestamp", "custom"}

Wire(local, offset, zone, t) ==
  [local |-> local, offset |-> offset, zone |-> zone, t |-> t]

CutTo(time, ticks) == time - (time % ticks)

\* Three digits of a second, a T and a Z.
Iso8601(time) == Wire(CutTo(time, Milli), 0, TRUE, TRUE)

\* Whole seconds and no Z.
WithoutTimezone(time) == Wire(CutTo(time, Second), 0, FALSE, TRUE)

\* Seconds since the epoch, which need no zone.
Timestamp(time) == Wire(CutTo(time, Second), 0, TRUE, TRUE)

\* Whole seconds, a blank in the place of the T and nothing in that of the Z.
Custom(time) == Wire(CutTo(time, Second), 0, FALSE, FALSE)

\* Mutant of Write: the fraction of a second is rounded up.
WriteRounded(format, time) == Wire(CutTo(time + Second - 1, Second), 0, TRUE, TRUE)

\* serialize: assume_utc and format.
Write(format, time) ==
  CASE format = "iso8601"          -> Iso8601(time)
    [] format = "without_timezone" -> WithoutTimezone(time)
    [] format = "timestamp"        -> Timestamp(time)
    [] format = "custom"           -> Custom(time)

\* The formats whose reader needs a T and a zone: iso8601::deserialize of the
\* time crate yields an OffsetDateTime.
Readable(format, wire) ==
  format \in {"iso8601", "custom"} => wire.zone /\ wire.t

\* deserialize: to_offset(UTC), then date and time.
Read(wire) == wire.local - wire.offset

-----------------------------------------------------------------------------

VARIABLES
  at,       \* where the value is: a field, on the wire, or refused
  format,   \* the serde module of the field it is in, or was written by
  time,     \* its value in a field
  wire,     \* its form on the wire
  origin    \* the instant it stands for

vars == <<at, format, time, wire, origin>>

NoWire == Wire(0, 0, FALSE, FALSE)

Init ==
  /\ at = "field" /\ format \in Formats
  /\ time \in Times /\ origin = time /\ wire = NoWire

\* A client of another zone writes the instant itself, with its offset.
ClientWrites(offset) ==
  /\ at = "field" /\ time = origin /\ format \in {"iso8601", "custom"}
  /\ at' = "wire"
  /\ wire' = Wire(time + offset, offset, TRUE, TRUE)
  /\ UNCHANGED <<format, time, origin>>

Serialize ==
  /\ at = "field"
  /\ at' = "wire" /\ wire' = Write(format, time)
  /\ UNCHANGED <<format, time, origin>>

Deserialize ==
  /\ at = "wire" /\ Readable(format, wire)
  /\ at' = "field" /\ time' = Read(wire) /\ wire' = NoWire
  /\ UNCHANGED <<format, origin>>

DeserializeFails ==
  /\ at = "wire" /\ ~Readable(format, wire)
  /\ at' = "refused"
  /\ UNCHANGED <<format, time, wire, origin>>

\* The value is copied to a field of another record.
Copy(other) ==
  /\ at = "field" /\ format' = other
  /\ UNCHANGED <<at, time, wire, origin>>

Next ==
  \/ \E offset \in Offsets : ClientWrites(offset)
  \/ Serialize \/ Deserialize \/ DeserializeFails
  \/ \E other \in Formats : Copy(other)

Spec == Init /\ [][Next]_vars

-----------------------------------------------------------------------------
(* Properties *)

\* However often and in whatever formats a point in time is written and read,
\* it is never later than the instant it stands for and never a second or more
\* before it: what a format cuts off does not add up, and offsets are undone.
\* No reader refuses what a client or this program wrote but that of the custom
\* format, which does not read what its own writer writes.
\* (custom_serde.rs:221: "when serializing and deserializing")
InstantSurvives ==
  /\ at = "field" => origin - time \in 0..(Second - 1)
  /\ at = "refused" => format = "custom"

=============================================================================
