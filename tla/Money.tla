------------------------------- MODULE Money -------------------------------
(***************************************************************************)
(* Amounts: the currencies of src/crates/common_enums/src/enums.rs with    *)
(* the conversions between an amount in the smallest unit and its decimal  *)
(* form, and Percentage of src/crates/common_utils/src/types.rs.           *)
(*                                                                         *)
(* A float is a mantissa m over a scale s, a power of two: the number m/s. *)
(* Every operation rounds to the nearest one, ties to the even, as IEEE    *)
(* 754 asks; F32 and F64 are the two precisions, scaled down together with *)
(* the amounts.  A decimal string is its number of hundredths.             *)
(***************************************************************************)
EXTENDS Integers, Sequences, SequencesExt

CONSTANTS
  Amounts,       \* the amounts a request may carry, negative ones included
  Rates,         \* the percentages a request may carry, in thousandths
  MaxU32,        \* the largest u32, scaled down
  MaxAmount,     \* i64::MAX / 10000, scaled down
  F32, F64,      \* 2^24 and 2^53, the mantissas of f32 and f64, scaled down
  Scales         \* powers of two

-----------------------------------------------------------------------------
(* Floats *)

\* The whole number nearest to n/d; of two the even one.
Nearest(n, d) ==
  LET down == n \div d
      rest == 2 * (n % d)
  IN  IF rest < d \/ (rest = d /\ down % 2 = 0) THEN down ELSE down + 1

\* n/d in a precision: the mantissa has all its bits.
Rounded(n, d, precision) ==
  IF n = 0 THEN {[m |-> 0, s |-> 1]}
  ELSE {[m |-> Nearest(n * s, d), s |-> s] :
          s \in {k \in Scales : k <= (d * precision - 1) \div n
                                /\ d * precision <= 2 * n * k}}

\* The f64 product with a whole number: t is what the exact product must lose.
Product(x, by) ==
  LET n == x.m * by IN
    {[m |-> Nearest(n, t), s |-> x.s \div t] :
       t \in {k \in Scales : /\ k <= 2 * by + 1 /\ k * (x.s \div k) = x.s
                             /\ n < k * F64 /\ (k = 1 \/ k * F64 <= 2 * n)}}

-----------------------------------------------------------------------------
(* Currency *)

Currencies == <<
    "AED", "ALL", "AMD", "ANG", "AOA", "ARS", "AUD", "AWG", "AZN", "BAM",
    "BBD", "BDT", "BGN", "BHD", "BIF", "BMD", "BND", "BOB", "BRL", "BSD",
    "BWP", "BYN", "BZD", "CAD", "CHF", "CLP", "CNY", "COP", "CRC", "CUP",
    "CVE", "CZK", "DJF", "DKK", "DOP", "DZD", "EGP", "ETB", "EUR", "FJD",
    "FKP", "GBP", "GEL", "GHS", "GIP", "GMD", "GNF", "GTQ", "GYD", "HKD",
    "HNL", "HRK", "HTG", "HUF", "IDR", "ILS", "INR", "IQD", "JMD", "JOD",
    "JPY", "KES", "KGS", "KHR", "KMF", "KRW", "KWD", "KYD", "KZT", "LAK",
    "LBP", "LKR", "LRD", "LSL", "LYD", "MAD", "MDL", "MGA", "MKD", "MMK",
    "MNT", "MOP", "MRU", "MUR", "MVR", "MWK", "MXN", "MYR", "MZN", "NAD",
    "NGN", "NIO", "NOK", "NPR", "NZD", "OMR", "PAB", "PEN", "PGK", "PHP",
    "PKR", "PLN", "PYG", "QAR", "RON", "RSD", "RUB", "RWF", "SAR", "SBD",
    "SCR", "SEK", "SGD", "SHP", "SLE", "SLL", "SOS", "SRD", "SSP", "STN",
    "SVC", "SZL", "THB", "TND", "TOP", "TRY", "TTD", "TWD", "TZS", "UAH",
    "UGX", "USD", "UYU", "UZS", "VES", "VND", "VUV", "WST", "XAF", "XCD",
    "XOF", "XPF", "YER", "ZAR", "ZMW">>

Currency == ToSet(Currencies)

ZeroDecimal == {
    "BIF", "CLP", "DJF", "GNF", "JPY", "KMF", "KRW", "MGA", "PYG", "RWF",
    "UGX", "VND", "VUV", "XAF", "XOF", "XPF"}

ThreeDecimal == {"BHD", "IQD", "JOD", "KWD", "LYD", "OMR", "TND"}

\* How many of its smallest units make one of a currency.
Units(currency) ==
  IF currency \in ZeroDecimal THEN 1
  ELSE IF currency \in ThreeDecimal THEN 1000 ELSE 100

\* Mutant of Hundredths: the digits after the second are cut off.
HundredthsCutOff(x) == {(100 * x.m) \div x.s}

\* format!("{:.2}"): the nearest hundredth of the binary fraction; which of two
\* is left open.
Hundredths(x) ==
  LET down == (100 * x.m) \div x.s IN
    {h \in {down, down + 1} : 2 * (100 * x.m - h * x.s) \in (-x.s)..x.s}

\* u32::try_from fails out of its range.
Convertible(amount) == amount \in 0..MaxU32

\* to_currency_base_unit_asf64
BaseUnit(c, amount) == Rounded(amount, Units(c), F64)

-----------------------------------------------------------------------------
(* Percentage<2> *)

\* is_valid_range and is_valid_precision_length.
ValidRate(rate) == 0 <= rate /\ rate <= 100000 /\ rate % 10 = 0

\* percentage / 100.0 in f64, of the f32 nearest to h hundredths.
Fraction(h) ==
  UNION {{[m |-> f.m, s |-> f.s * q.s] : f \in Rounded(q.m, 100, F64)} :
           q \in Rounded(h, 100, F32)}

Magnitude(amount) == IF amount < 0 THEN -amount ELSE amount

\* Mutant of Ceiled: the result is cut off.
CutOff(amount, x) == IF amount < 0 THEN -(x.m \div x.s) ELSE x.m \div x.s

\* ceil() as i64, of a product with the sign of the amount.
Ceiled(amount, x) ==
  IF amount < 0 THEN -(x.m \div x.s) ELSE (x.m + x.s - 1) \div x.s

-----------------------------------------------------------------------------
(* An amount on its way to a connector and back, or with a surcharge *)

VARIABLES
  stage,      \* "none", "minor", "base", "back", "surcharge", "error"
  currency,
  sent,       \* the amount of the request
  rate,       \* the percentage of the request, in thousandths
  value       \* hundredths of the base unit, a float, or an amount

vars == <<stage, currency, sent, rate, value>>

Init ==
  /\ stage = "none" /\ currency = "USD"
  /\ sent = 0 /\ rate = 0 /\ value = 0

Request(c, amount, r) ==
  /\ stage = "none"
  /\ stage' = "minor" /\ currency' = c /\ sent' = amount /\ rate' = r
  /\ UNCHANGED value

ToCurrencyBaseUnit ==
  /\ stage = "minor" /\ Convertible(sent)
  /\ \E x \in BaseUnit(currency, sent) : value' \in Hundredths(x)
  /\ stage' = "base"
  /\ UNCHANGED <<currency, sent, rate>>

\* to_currency_base_unit_with_zero_decimal_check: no digits are written for a
\* currency that has none.
ToBaseUnitWithZeroDecimalCheck ==
  /\ stage = "minor" /\ Convertible(sent)
  /\ IF currency \in ZeroDecimal THEN value' = 100 * sent
     ELSE \E x \in BaseUnit(currency, sent) : value' \in Hundredths(x)
  /\ stage' = "base"
  /\ UNCHANGED <<currency, sent, rate>>

BaseUnitFails ==
  /\ stage = "minor" /\ ~Convertible(sent)
  /\ stage' = "error"
  /\ UNCHANGED <<currency, sent, rate, value>>

\* The product is printed with every digit it has: "0.29" gives
\* "28.999999999999996".
ToCurrencyLowerUnit ==
  /\ stage = "base"
  /\ \E x \in Rounded(value, 100, F64) :
       IF currency \in ZeroDecimal THEN value' = x
       ELSE value' \in Product(x, Units(currency))
  /\ stage' = "back"
  /\ UNCHANGED <<currency, sent, rate>>

\* Only the amounts above the limit are refused: a negative one is computed.
ApplyPercentage ==
  /\ stage = "minor" /\ ValidRate(rate) /\ sent <= MaxAmount
  /\ \E x \in Fraction(rate \div 10) :
       \E y \in Product(x, Magnitude(sent)) : value' = Ceiled(sent, y)
  /\ stage' = "surcharge"
  /\ UNCHANGED <<currency, sent, rate>>

PercentageFails ==
  /\ stage = "minor" /\ (~ValidRate(rate) \/ sent > MaxAmount)
  /\ stage' = "error"
  /\ UNCHANGED <<currency, sent, rate, value>>

Next ==
  \/ \E c \in Currency, amount \in Amounts : Request(c, amount, 0)
  \/ \E r \in Rates, amount \in Amounts : Request("USD", amount, r)
  \/ ToCurrencyBaseUnit \/ ToBaseUnitWithZeroDecimalCheck \/ BaseUnitFails
  \/ ToCurrencyLowerUnit \/ ApplyPercentage \/ PercentageFails

Spec == Init /\ [][Next]_vars

-----------------------------------------------------------------------------
(* Properties *)

\* The float that comes back for an amount written in its base unit rounds to the
\* amount of the request, and is that amount where a currency has no decimals; it
\* need not be whole otherwise.  Of a currency with three decimals the two-digit
\* format drops the last, so it may be off by half a hundredth of the base unit.
AmountSurvives ==
  stage = "back" =>
    LET off == value.m - sent * value.s IN
      /\ currency \in ZeroDecimal     => off = 0
      /\ currency \in ThreeDecimal    => 2 * Magnitude(off) < 11 * value.s
      /\ currency \notin ThreeDecimal => 2 * Magnitude(off) < value.s

\* A surcharge is its percentage of the amount rounded up, but for what the f32
\* loses of the percentage: one part in 2^23, which on a large amount is more than
\* a unit and may be missing, or be too much.  (exact in ten thousandths.)
SurchargeCovers ==
  stage = "surcharge" =>
    LET exact == sent * (rate \div 10)
        lost  == 2 * Magnitude(exact)
    IN  /\ F32 * (exact - 10000 * value) <= lost
        /\ F32 * (10000 * value - exact) < lost + 10000 * F32

=============================================================================
