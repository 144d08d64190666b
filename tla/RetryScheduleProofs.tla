------------------------ MODULE RetryScheduleProofs ------------------------
(***************************************************************************)
(* A task is tried as its mapping says, for every mapping, every width of  *)
(* the counts and every number of merchants.                               *)
(*                                                                         *)
(* Schedules are computed by recursion over the lists of a mapping.  What  *)
(* a recursive function computes is proved by induction in the form of     *)
(* NatSets: a set that contains 0 and with each number the next contains   *)
(* all numbers.                                                            *)
(***************************************************************************)
EXTENDS RetrySchedule, FiniteSetTheorems, SequenceTheorems, WellFoundedInduction, TLAPS

-----------------------------------------------------------------------------
(* Induction over numbers and intervals *)

LEMMA NatSets ==
  ASSUME NEW S, 0 \in S, \A n \in Nat : n \in S => n + 1 \in S
  PROVE  Nat \subseteq S
<1>. DEFINE T == Nat \ S
            R == {ss \in Nat \X Nat : ss[1] < ss[2]}
<1>. SUFFICES ASSUME T # {} PROVE FALSE
  OBVIOUS
<1>1. IsWellFoundedOn(R, Nat)
  BY NatLessThanWellFounded DEF OpToRel
<1>. HIDE DEF R
<1>2. PICK m \in T : \A y \in T : <<y, m>> \notin R
  BY <1>1, WFMin
<1>3. \A y \in T : ~(y < m)
  BY <1>2 DEF R
<1>4. m # 0 /\ m - 1 \in Nat
  OBVIOUS
<1>5. m - 1 \notin T
  BY <1>3, <1>4
<1>. QED BY <1>4, <1>5

\* A set of numbers has a least one.
LEMMA Least ==
  ASSUME NEW T \in SUBSET Nat, T # {}
  PROVE  \E m \in T : \A y \in T : m <= y
<1>. DEFINE R == {ss \in Nat \X Nat : ss[1] < ss[2]}
<1>1. IsWellFoundedOn(R, Nat)
  BY NatLessThanWellFounded DEF OpToRel
<1>. HIDE DEF R
<1>2. PICK m \in T : \A y \in T : <<y, m>> \notin R
  BY <1>1, WFMin
<1>3. \A y \in T : ~(y < m)
  BY <1>2 DEF R
<1>. QED BY <1>3

\* NatSets up to a bound.
LEMMA IntervalSets ==
  ASSUME NEW s \in Nat, NEW S, 0 \in S, \A n \in 0..(s - 1) : n \in S => n + 1 \in S
  PROVE  0..s \subseteq S
<1>. DEFINE T == {n \in Nat : n <= s => n \in S}
<1>1. 0 \in T
  OBVIOUS
<1>2. \A n \in Nat : n \in T => n + 1 \in T
  OBVIOUS
<1>. HIDE DEF T
<1>3. Nat \subseteq T
  BY <1>1, <1>2, NatSets
<1>. QED BY <1>3 DEF T

-----------------------------------------------------------------------------
(* Counts that wrap *)

LEMMA WrapRange ==
  ASSUME MaxI32 \in Nat, NEW n \in Int
  PROVE  /\ Wrap(n) \in Int /\ -(MaxI32 + 1) <= Wrap(n) /\ Wrap(n) <= MaxI32
         /\ n >= -(MaxI32 + 1) => Wrap(n) <= n
         /\ n >= -(MaxI32 + 1) /\ n <= MaxI32 => Wrap(n) = n
<1>. DEFINE m == 2 * MaxI32 + 2
            x == n + MaxI32 + 1
            q == x \div m
            r == x % m
<1>1. m \in Nat \ {0} /\ x \in Int
  OBVIOUS
<1>2. r \in 0..(m - 1) /\ q \in Int /\ x = m * q + r
  BY <1>1
<1>3. Wrap(n) = r - (MaxI32 + 1)
  BY DEF Wrap
<1>. HIDE DEF q, r, m, x
<1>4. x >= 0 => q >= 0
  <2>. SUFFICES ASSUME x >= 0, q <= -1 PROVE FALSE
    BY <1>2
  <2>1. m * q <= m * (-1)
    BY <1>1, <1>2
  <2>2. m * q \in Int /\ m * (-1) = -m
    BY <1>1, <1>2
  <2>. QED BY <1>1, <1>2, <2>1, <2>2
<1>5. x >= 0 => r <= x
  <2>. SUFFICES ASSUME x >= 0 PROVE r <= x
    OBVIOUS
  <2>1. m * q >= 0 /\ m * q \in Int
    BY <1>1, <1>2, <1>4
  <2>. QED BY <1>1, <1>2, <2>1
<1>6. x >= 0 /\ x < m => r = x
  <2>. SUFFICES ASSUME x >= 0, x < m PROVE r = x
    OBVIOUS
  <2>1. q <= 0
    <3>. SUFFICES ASSUME q >= 1 PROVE FALSE
      BY <1>2
    <3>1. m * q >= m * 1 /\ m * q \in Int
      BY <1>1, <1>2
    <3>. QED BY <1>1, <1>2, <3>1
  <2>2. q = 0
    BY <1>2, <1>4, <2>1
  <2>. QED BY <1>1, <1>2, <2>2
<1>7. m = 2 * MaxI32 + 2 /\ x = n + MaxI32 + 1
  BY DEF m, x
<1>. QED BY <1>1, <1>2, <1>3, <1>5, <1>6, <1>7

-----------------------------------------------------------------------------
(* Recursive functions *)

\* The values of g up to s begin with d and follow each other by step.
Follows(g, s, d, step) ==
  g[0] = d /\ \A n \in 1..s : g[n] = step[<<g[n - 1], n>>]

\* A value to begin with and a step from each value to the next define a
\* function.
LEMMA Recursion ==
  ASSUME NEW s \in Nat, NEW D, NEW d \in D, NEW step \in [D \X (1..s) -> D]
  PROVE  \E g \in [0..s -> D] : Follows(g, s, d, step)
<1>. USE DEF Follows
<1>. DEFINE Good(m, g) == g[0] = d /\ \A n \in 1..m : g[n] = step[<<g[n - 1], n>>]
            S == {m \in 0..s : \E g \in [0..m -> D] : Good(m, g)}
<1>1. 0 \in S
  <2>. DEFINE g == [n \in 0..0 |-> d]
  <2>1. g \in [0..0 -> D] /\ Good(0, g)
    OBVIOUS
  <2>. HIDE DEF g
  <2>. QED BY <2>1
<1>2. ASSUME NEW m \in 0..(s - 1), m \in S
      PROVE  m + 1 \in S
  <2>1. PICK g \in [0..m -> D] : Good(m, g)
    BY <1>2
  <2>. DEFINE v == step[<<g[m], m + 1>>]
              h == [n \in 0..(m + 1) |-> IF n = m + 1 THEN v ELSE g[n]]
  <2>2. v \in D
    OBVIOUS
  <2>. HIDE DEF v
  <2>3. h \in [0..(m + 1) -> D] /\ h[0] = d
    BY <2>1, <2>2
  <2>4. \A n \in 1..m : h[n] = g[n] /\ h[n - 1] = g[n - 1]
    OBVIOUS
  <2>5. h[m + 1] = v /\ h[m] = g[m]
    OBVIOUS
  <2>. HIDE DEF h
  <2>6. \A n \in 1..(m + 1) : h[n] = step[<<h[n - 1], n>>]
    <3>. SUFFICES ASSUME NEW n \in 1..(m + 1) PROVE h[n] = step[<<h[n - 1], n>>]
      OBVIOUS
    <3>1. CASE n = m + 1
      BY <2>5, <3>1, SMTT(30) DEF v
    <3>2. CASE n \in 1..m
      BY <2>1, <2>4, <3>2
    <3>. QED BY <3>1, <3>2
  <2>. QED BY <2>3, <2>6
<1>3. s \in S
  <2>. HIDE DEF S
  <2>. QED BY <1>1, <1>2, IntervalSets
<1>. QED BY <1>3

\* What the counts of a mapping are, and what a mapping is.
Lists == [start_after : Int, frequency : Seq(Int), count : Seq(Int)]

LEMMA StepsType ==
  ASSUME NEW mapping \in Lists
  PROVE  /\ Steps(mapping) \in Nat
         /\ \A n \in 1..Steps(mapping) :
              /\ n \in 1..Len(mapping.count) /\ mapping.count[n] \in Int
              /\ mapping.frequency[n] \in Int
<1>1. mapping.count \in Seq(Int) /\ mapping.frequency \in Seq(Int)
  BY DEF Lists
<1>2. Len(mapping.count) \in Nat /\ Len(mapping.frequency) \in Nat
  BY <1>1
<1>3. /\ Steps(mapping) \in Nat
      /\ Steps(mapping) <= Len(mapping.count) /\ Steps(mapping) <= Len(mapping.frequency)
  BY <1>2 DEF Steps
<1>4. \A n \in 1..Steps(mapping) : n \in 1..Len(mapping.count) /\ n \in 1..Len(mapping.frequency)
  BY <1>2, <1>3
<1>5. \A list \in Seq(Int) : \A n \in 1..Len(list) : list[n] \in Int
  OBVIOUS
<1>. QED BY <1>1, <1>3, <1>4, <1>5

\* The cumulative count, which wraps.
LEMMA CumulativeDef ==
  ASSUME MaxI32 \in Nat, NEW mapping \in Lists
  PROVE  /\ Cumulative(mapping) \in [0..Steps(mapping) -> Int]
         /\ Cumulative(mapping)[0] = 0
         /\ \A n \in 1..Steps(mapping) :
              Cumulative(mapping)[n] = Wrap(Cumulative(mapping)[n - 1] + mapping.count[n])
<1>. DEFINE s == Steps(mapping)
            c == mapping.count
            F(g) == [n \in 0..s |-> IF n = 0 THEN 0 ELSE Wrap(g[n - 1] + c[n])]
            step == [x \in Int \X (1..s) |-> Wrap(x[1] + c[x[2]])]
<1>1. s \in Nat /\ \A n \in 1..s : c[n] \in Int
  BY StepsType
<1>2. step \in [Int \X (1..s) -> Int]
  <2>1. \A x \in Int \X (1..s) : Wrap(x[1] + c[x[2]]) \in Int
    BY <1>1, WrapRange
  <2>. QED BY <2>1
<1>3. PICK g \in [0..s -> Int] : Follows(g, s, 0, step)
  <2>. HIDE DEF step, s, c, F
  <2>1. s \in Nat /\ 0 \in Int
    BY <1>1
  <2>2. \A d \in Int : \E g \in [0..s -> Int] : Follows(g, s, d, step)
    BY <1>2, <2>1, Recursion
  <2>. QED BY <2>1, <2>2
<1>4. \A n \in 1..s : g[n] = Wrap(g[n - 1] + c[n])
  <2>1. \A n \in 1..s : <<g[n - 1], n>> \in Int \X (1..s)
    BY <1>1, SMTT(30)
  <2>. QED BY <1>3, <2>1 DEF Follows
<1>5. g = F(g)
  <2>1. g = [n \in 0..s |-> g[n]]
    OBVIOUS
  <2>2. \A n \in 0..s : g[n] = IF n = 0 THEN 0 ELSE Wrap(g[n - 1] + c[n])
    BY <1>1, <1>3, <1>4 DEF Follows
  <2>. QED BY <2>1, <2>2
<1>6. Cumulative(mapping) = F(Cumulative(mapping))
  <2>1. Cumulative(mapping) = CHOOSE f : f = F(f)
    BY DEF Cumulative
  <2>. HIDE DEF F
  <2>. QED BY <1>5, <2>1
<1>. DEFINE C == Cumulative(mapping)
<1>7. C[0] = 0 /\ \A n \in 1..s : C[n] = Wrap(C[n - 1] + c[n])
  <2>. HIDE DEF C, s, c
  <2>. QED BY <1>1, <1>6 DEF C
<1>8. \A n \in 0..s : C[n] \in Int
  <2>. DEFINE S == {n \in 0..s : C[n] \in Int}
  <2>1. 0 \in S
    BY <1>1, <1>7
  <2>2. \A n \in 0..(s - 1) : n \in S => n + 1 \in S
    <3>. SUFFICES ASSUME NEW n \in 0..(s - 1), C[n] \in Int PROVE C[n + 1] \in Int
      BY <1>1
    <3>1. n + 1 \in 1..s /\ C[n + 1] = Wrap(C[n] + c[n + 1])
      BY <1>1, <1>7
    <3>2. C[n] + c[n + 1] \in Int
      BY <1>1, <3>1
    <3>. QED BY <3>1, <3>2, WrapRange
  <2>. HIDE DEF S
  <2>3. 0..s \subseteq S
    BY <1>1, <2>1, <2>2, IntervalSets
  <2>. QED BY <2>3 DEF S
<1>9. C \in [0..s -> Int]
  <2>1. C = [n \in 0..s |-> IF n = 0 THEN 0 ELSE Wrap(C[n - 1] + c[n])]
    BY <1>6
  <2>2. C = [n \in 0..s |-> C[n]]
    BY <2>1
  <2>. QED BY <1>8, <2>2
<1>. QED BY <1>7, <1>9

\* The sums of a list, which do not.
LEMMA SumsDef ==
  ASSUME NEW list \in Seq(Int)
  PROVE  /\ Sums(list) \in [0..Len(list) -> Int]
         /\ Sums(list)[0] = 0
         /\ \A n \in 1..Len(list) : Sums(list)[n] = Sums(list)[n - 1] + list[n]
<1>. DEFINE s == Len(list)
            F(g) == [n \in 0..s |-> IF n = 0 THEN 0 ELSE g[n - 1] + list[n]]
            step == [x \in Int \X (1..s) |-> x[1] + list[x[2]]]
<1>1. s \in Nat /\ \A n \in 1..s : list[n] \in Int
  OBVIOUS
<1>2. step \in [Int \X (1..s) -> Int]
  <2>1. \A x \in Int \X (1..s) : x[1] + list[x[2]] \in Int
    BY <1>1
  <2>. QED BY <2>1
<1>3. PICK g \in [0..s -> Int] : Follows(g, s, 0, step)
  <2>. HIDE DEF step, s, F
  <2>1. s \in Nat /\ 0 \in Int
    BY <1>1
  <2>2. \A d \in Int : \E g \in [0..s -> Int] : Follows(g, s, d, step)
    BY <1>2, <2>1, Recursion
  <2>. QED BY <2>1, <2>2
<1>4. \A n \in 1..s : g[n] = g[n - 1] + list[n]
  <2>1. \A n \in 1..s : <<g[n - 1], n>> \in Int \X (1..s)
    <3>. HIDE DEF s
    <3>. QED BY <1>1
  <2>. QED BY <1>3, <2>1 DEF Follows
<1>5. g = F(g)
  <2>1. g = [n \in 0..s |-> g[n]]
    OBVIOUS
  <2>2. \A n \in 0..s : g[n] = IF n = 0 THEN 0 ELSE g[n - 1] + list[n]
    BY <1>1, <1>3, <1>4 DEF Follows
  <2>. QED BY <2>1, <2>2
<1>6. Sums(list) = F(Sums(list))
  <2>1. Sums(list) = CHOOSE f : f = F(f)
    BY DEF Sums
  <2>. HIDE DEF F
  <2>. QED BY <1>5, <2>1
<1>. DEFINE C == Sums(list)
<1>7. C[0] = 0 /\ \A n \in 1..s : C[n] = C[n - 1] + list[n]
  <2>. HIDE DEF C, s
  <2>. QED BY <1>1, <1>6 DEF C
<1>8. \A n \in 0..s : C[n] \in Int
  <2>. DEFINE S == {n \in 0..s : C[n] \in Int}
  <2>1. 0 \in S
    BY <1>1, <1>7
  <2>2. \A n \in 0..(s - 1) : n \in S => n + 1 \in S
    <3>. SUFFICES ASSUME NEW n \in 0..(s - 1), C[n] \in Int PROVE C[n + 1] \in Int
      BY <1>1
    <3>1. n + 1 \in 1..s /\ C[n + 1] = C[n] + list[n + 1]
      BY <1>1, <1>7
    <3>. QED BY <1>1, <3>1
  <2>. HIDE DEF S
  <2>3. 0..s \subseteq S
    BY <1>1, <2>1, <2>2, IntervalSets
  <2>. QED BY <2>3 DEF S
<1>9. C \in [0..s -> Int]
  <2>1. C = [n \in 0..s |-> IF n = 0 THEN 0 ELSE C[n - 1] + list[n]]
    BY <1>6
  <2>2. C = [n \in 0..s |-> C[n]]
    BY <2>1
  <2>. QED BY <1>8, <2>2
<1>. QED BY <1>7, <1>9

-----------------------------------------------------------------------------
(* GetDelay *)

\* The first step whose cumulative count reaches k.
Reaches(mapping, k, n) ==
  /\ n \in 1..Steps(mapping) /\ Cumulative(mapping)[n] >= k
  /\ \A j \in 1..(n - 1) : Cumulative(mapping)[j] < k

LEMMA DelayOfStep ==
  ASSUME MaxI32 \in Nat, NEW mapping \in Lists, NEW k \in Nat \ {0}
  PROVE  /\ \A n : Reaches(mapping, k, n) => GetDelay(mapping, k) = <<mapping.frequency[n]>>
         /\ GetDelay(mapping, k) # None => \E n \in 1..Steps(mapping) : Reaches(mapping, k, n)
         /\ (\A n \in 1..Steps(mapping) : Cumulative(mapping)[n] < k)
              => GetDelay(mapping, k) = None
<1>. DEFINE C == Cumulative(mapping)
            s == Steps(mapping)
            reached == {n \in 1..s : C[n] >= k}
            first == CHOOSE n \in reached : \A j \in reached : n <= j
<1>1. s \in Nat /\ \A n \in 0..s : C[n] \in Int
  BY StepsType, CumulativeDef
<1>2. GetDelay(mapping, k) = IF reached = {} THEN None ELSE <<mapping.frequency[first]>>
  BY DEF GetDelay, Some
<1>. HIDE DEF first, C, s
<1>3. ASSUME NEW n, Reaches(mapping, k, n)
      PROVE  GetDelay(mapping, k) = <<mapping.frequency[n]>>
  <2>1. /\ n \in 1..s /\ C[n] >= k
        /\ \A j \in 1..(n - 1) : C[j] < k
    BY <1>3 DEF Reaches, C, s
  <2>2. n \in reached
    BY <2>1
  <2>3. \A j \in reached : n <= j
    BY <1>1, <2>1
  <2>. HIDE DEF reached
  <2>4. first \in reached /\ \A j \in reached : first <= j
    BY <2>2, <2>3 DEF first
  <2>5. first <= n /\ n <= first /\ n \in Int /\ first \in Int
    BY <2>2, <2>3, <2>4, <1>1 DEF reached
  <2>6. first = n
    BY <2>5
  <2>. QED BY <1>2, <2>2, <2>6
<1>4. ASSUME GetDelay(mapping, k) # None
      PROVE  \E n \in 1..s : Reaches(mapping, k, n)
  <2>1. reached # {} /\ reached \in SUBSET Nat
    BY <1>1, <1>2, <1>4
  <2>. HIDE DEF reached
  <2>2. PICK n \in reached : \A j \in reached : n <= j
    BY <2>1, Least
  <2>3. n \in 1..s /\ C[n] >= k /\ \A j \in 1..(n - 1) : j \in 1..s /\ j \notin reached
    BY <1>1, <2>2 DEF reached
  <2>4. \A j \in 1..(n - 1) : C[j] < k
    BY <1>1, <2>3 DEF reached
  <2>. QED BY <2>3, <2>4 DEF Reaches, C, s
<1>5. ASSUME \A n \in 1..s : C[n] < k
      PROVE  GetDelay(mapping, k) = None
  <2>1. reached = {}
    BY <1>1, <1>5
  <2>. QED BY <1>2, <2>1
<1>. QED BY <1>3, <1>4, <1>5 DEF C, s

\* The cumulative count is an i32.
LEMMA CumulativeRange ==
  ASSUME MaxI32 \in Nat, NEW mapping \in Lists, NEW n \in 0..Steps(mapping)
  PROVE  /\ Cumulative(mapping)[n] \in Int
         /\ -(MaxI32 + 1) <= Cumulative(mapping)[n] /\ Cumulative(mapping)[n] <= MaxI32
<1>. DEFINE C == Cumulative(mapping)
<1>1. Steps(mapping) \in Nat /\ \A j \in 1..Steps(mapping) : mapping.count[j] \in Int
  BY StepsType
<1>2. /\ C \in [0..Steps(mapping) -> Int] /\ C[0] = 0
      /\ \A j \in 1..Steps(mapping) : C[j] = Wrap(C[j - 1] + mapping.count[j])
  BY CumulativeDef
<1>. HIDE DEF C
<1>3. CASE n = 0
  BY <1>2, <1>3 DEF C
<1>4. CASE n # 0
  <2>1. n \in 1..Steps(mapping) /\ n - 1 \in 0..Steps(mapping)
    BY <1>1, <1>4
  <2>2. C[n - 1] + mapping.count[n] \in Int
    BY <1>1, <1>2, <2>1, SMTT(30)
  <2>3. C[n] = Wrap(C[n - 1] + mapping.count[n])
    BY <1>2, <2>1
  <2>. QED BY <2>2, <2>3, WrapRange DEF C
<1>. QED BY <1>3, <1>4

-----------------------------------------------------------------------------
(* Counts that fit an i32 *)

\* Their cumulative count is their sum, which never falls.
LEMMA CumulativeIsSum ==
  ASSUME MaxI32 \in Nat, NEW mapping \in Lists, Counted(mapping), Fits(mapping)
  PROVE  /\ \A n \in 0..Steps(mapping) : Cumulative(mapping)[n] = Sums(mapping.count)[n]
         /\ \A n \in 0..Steps(mapping) : Sums(mapping.count)[n] \in Nat
         /\ \A n \in 0..Steps(mapping) : \A j \in 0..n :
              Sums(mapping.count)[j] <= Sums(mapping.count)[n]
         /\ \A n \in 1..Steps(mapping) :
              Sums(mapping.count)[n] = Sums(mapping.count)[n - 1] + mapping.count[n]
<1>. DEFINE s == Steps(mapping)
            c == mapping.count
            C == Cumulative(mapping)
            T == Sums(mapping.count)
<1>1. s \in Nat /\ \A n \in 1..s : n \in 1..Len(c) /\ c[n] \in Int
  BY StepsType
<1>2. C[0] = 0 /\ \A n \in 1..s : C[n] = Wrap(C[n - 1] + c[n])
  BY CumulativeDef
<1>3. T[0] = 0 /\ \A n \in 1..s : T[n] = T[n - 1] + c[n]
  <2>1. c \in Seq(Int)
    BY DEF Lists
  <2>2. T[0] = 0 /\ \A n \in 1..Len(c) : T[n] = T[n - 1] + c[n]
    BY <2>1, SumsDef
  <2>. QED BY <1>1, <2>2
<1>4. \A n \in 1..s : c[n] >= 0 /\ T[n] <= MaxI32
  BY DEF Counted, Fits
<1>. HIDE DEF s, c, C, T
<1>. DEFINE S == {n \in 0..s : T[n] \in Nat /\ C[n] = T[n]
                                 /\ \A j \in 0..n : T[j] \in Nat /\ T[j] <= T[n]}
<1>5. 0 \in S
  BY <1>1, <1>2, <1>3
<1>6. ASSUME NEW n \in 0..(s - 1), n \in S
      PROVE  n + 1 \in S
  <2>1. n + 1 \in 1..s /\ (n + 1) - 1 = n
    BY <1>1
  <2>2. T[n] \in Nat /\ C[n] = T[n] /\ \A j \in 0..n : T[j] \in Nat /\ T[j] <= T[n]
    BY <1>6
  <2>3. c[n + 1] \in Nat /\ T[n + 1] <= MaxI32 /\ T[n + 1] = T[n] + c[n + 1]
    BY <1>1, <1>3, <1>4, <2>1
  <2>4. C[n + 1] = Wrap(T[n + 1])
    BY <1>2, <2>1, <2>2, <2>3
  <2>5. T[n + 1] \in Nat /\ T[n + 1] >= -(MaxI32 + 1)
    BY <2>2, <2>3
  <2>6. Wrap(T[n + 1]) = T[n + 1]
    BY <2>3, <2>5, WrapRange
  <2>7. \A j \in 0..(n + 1) : T[j] \in Nat /\ T[j] <= T[n + 1]
    <3>. SUFFICES ASSUME NEW j \in 0..(n + 1) PROVE T[j] \in Nat /\ T[j] <= T[n + 1]
      OBVIOUS
    <3>1. CASE j = n + 1
      BY <2>5, <3>1
    <3>2. CASE j \in 0..n
      <4>1. T[j] <= T[n] /\ T[j] \in Nat
        BY <2>2, <3>2
      <4>. QED BY <2>2, <2>3, <4>1
    <3>. QED BY <1>1, <3>1, <3>2
  <2>. QED BY <2>1, <2>4, <2>5, <2>6, <2>7
<1>7. 0..s \subseteq S
  <2>. HIDE DEF S
  <2>. QED BY <1>1, <1>5, <1>6, IntervalSets
<1>. QED BY <1>3, <1>7 DEF s, c, C, T

\* A schedule written out: its parts in a row.
LEMMA FlattenDef ==
  ASSUME NEW seqs \in Seq(Seq(Int)), Len(seqs) # 0
  PROVE  \E G : /\ FlattenSeq(seqs) = G[Len(seqs)] /\ G[1] = seqs[1]
                /\ \A n \in 2..Len(seqs) : G[n] = G[n - 1] \o seqs[n]
<1>. DEFINE s == Len(seqs)
            F(g) == [i \in 1..s |-> IF i = 1 THEN seqs[i] ELSE g[i - 1] \o seqs[i]]
            step == [x \in Seq(Int) \X (1..s) |-> IF x[2] = 1 THEN seqs[1] ELSE x[1] \o seqs[x[2]]]
            G == CHOOSE f : f = F(f)
<1>1. s \in Nat \ {0} /\ \A n \in 1..s : seqs[n] \in Seq(Int)
  OBVIOUS
<1>2. step \in [Seq(Int) \X (1..s) -> Seq(Int)]
  <2>1. \A x \in Seq(Int) \X (1..s) : x[1] \in Seq(Int) /\ x[2] \in 1..s
    OBVIOUS
  <2>2. \A q \in Seq(Int), r \in Seq(Int) : q \o r \in Seq(Int)
    OBVIOUS
  <2>3. \A x \in Seq(Int) \X (1..s) :
          (IF x[2] = 1 THEN seqs[1] ELSE x[1] \o seqs[x[2]]) \in Seq(Int)
    <3>. HIDE DEF s
    <3>. QED BY <1>1, <2>1, <2>2
  <2>. QED BY <2>3
<1>3. PICK h \in [0..s -> Seq(Int)] : Follows(h, s, <<>>, step)
  <2>. HIDE DEF step, s, F
  <2>1. s \in Nat /\ <<>> \in Seq(Int)
    BY <1>1
  <2>2. \A d \in Seq(Int) : \E h \in [0..s -> Seq(Int)] : Follows(h, s, d, step)
    BY <1>2, <2>1, Recursion
  <2>. QED BY <2>1, <2>2
<1>4. \A n \in 1..s : h[n] = IF n = 1 THEN seqs[n] ELSE h[n - 1] \o seqs[n]
  <2>1. \A n \in 1..s : n - 1 \in 0..s
    BY <1>1
  <2>2. \A n \in 1..s : <<h[n - 1], n>> \in Seq(Int) \X (1..s)
    <3>. HIDE DEF s
    <3>. QED BY <1>1, <1>3, <2>1
  <2>3. \A n \in 1..s : h[n] = step[<<h[n - 1], n>>]
    BY <1>3 DEF Follows
  <2>4. ASSUME NEW x \in Seq(Int) \X (1..s)
        PROVE  step[x] = IF x[2] = 1 THEN seqs[1] ELSE x[1] \o seqs[x[2]]
    OBVIOUS
  <2>. HIDE DEF step
  <2>5. \A n \in 1..s : step[<<h[n - 1], n>>]
                          = IF n = 1 THEN seqs[1] ELSE h[n - 1] \o seqs[n]
    <3>. HIDE DEF s
    <3>. QED BY <2>2, <2>4
  <2>. QED BY <2>3, <2>5
<1>. DEFINE g == [n \in 1..s |-> h[n]]
<1>5. g = F(g)
  <2>1. \A n \in 1..s : n # 1 => n - 1 \in 1..s
    BY <1>1
  <2>2. \A n \in 1..s : h[n] = IF n = 1 THEN seqs[n] ELSE g[n - 1] \o seqs[n]
    BY <1>4, <2>1
  <2>. QED BY <2>2
<1>6. G = F(G)
  <2>. HIDE DEF F, g
  <2>. QED BY <1>5
<1>7. FlattenSeq(seqs) = G[s]
  BY <1>1 DEF FlattenSeq
<1>. HIDE DEF G, s
<1>8. G[1] = seqs[1] /\ \A n \in 2..s : G[n] = G[n - 1] \o seqs[n]
  <2>1. \A n \in 2..s : n \in 1..s /\ n # 1
    BY <1>1
  <2>2. \A n \in 1..s : G[n] = IF n = 1 THEN seqs[n] ELSE G[n - 1] \o seqs[n]
    BY <1>6
  <2>3. 1 \in 1..s
    BY <1>1
  <2>4. G[1] = seqs[1]
    BY <2>2, <2>3
  <2>5. ASSUME NEW n \in 2..s PROVE G[n] = G[n - 1] \o seqs[n]
    <3>1. n \in 1..s /\ n # 1
      BY <2>1
    <3>. QED BY <2>2, <3>1, Zenon
  <2>. QED BY <2>4, <2>5
<1>. QED BY <1>7, <1>8 DEF s

\* Of counts that fit, the schedule written out has an entry for every
\* attempt: that of the step in which its number lies.
LEMMA ConfiguredDef ==
  ASSUME MaxI32 \in Nat, NEW mapping \in Lists, Counted(mapping), Fits(mapping)
  PROVE  /\ Configured(mapping) \in Seq(Int)
         /\ Len(Configured(mapping)) = 1 + Sums(mapping.count)[Steps(mapping)]
         /\ Configured(mapping)[1] = mapping.start_after
         /\ \A k \in 1..Sums(mapping.count)[Steps(mapping)] : \E j \in 1..Steps(mapping) :
              /\ Sums(mapping.count)[j - 1] < k /\ k <= Sums(mapping.count)[j]
              /\ Configured(mapping)[k + 1] = mapping.frequency[j]
<1>. DEFINE s == Steps(mapping)
            c == mapping.count
            f == mapping.frequency
            T == Sums(mapping.count)
            part(n) == [k \in 1..c[n] |-> f[n]]
            seqs == [n \in 1..s |-> part(n)]
            flat == FlattenSeq(seqs)
            Of(q, n) == /\ q \in Seq(Int) /\ Len(q) = T[n]
                        /\ \A k \in 1..T[n] : \E j \in 1..n :
                             T[j - 1] < k /\ k <= T[j] /\ q[k] = f[j]
<1>1. s \in Nat /\ \A n \in 1..s : c[n] \in Nat /\ f[n] \in Int
  BY StepsType DEF Counted
<1>2. /\ T[0] = 0 /\ \A n \in 0..s : T[n] \in Nat
      /\ \A n \in 1..s : T[n] = T[n - 1] + c[n]
  <2>1. c \in Seq(Int)
    BY DEF Lists
  <2>. QED BY <2>1, CumulativeIsSum, SumsDef
<1>3. mapping.start_after \in Int
  BY DEF Lists
<1>4. Configured(mapping) = <<mapping.start_after>> \o flat
  BY DEF Configured
<1>. HIDE DEF s, c, f, T
<1>5. \A n \in 1..s : part(n) \in Seq(Int) /\ Len(part(n)) = c[n]
                      /\ \A k \in 1..c[n] : part(n)[k] = f[n]
  BY <1>1
<1>6. seqs \in Seq(Seq(Int)) /\ Len(seqs) = s /\ \A n \in 1..s : seqs[n] = part(n)
  <2>. HIDE DEF part
  <2>. QED BY <1>1, <1>5
<1>. HIDE DEF part, seqs
<1>7. Of(flat, s)
  <2>1. CASE s = 0
    <3>1. flat = seqs /\ seqs = <<>>
      BY <1>6, <2>1 DEF FlattenSeq
    <3>. QED BY <1>2, <2>1, <3>1
  <2>2. CASE s # 0
    <3>1. PICK G : /\ flat = G[s] /\ G[1] = seqs[1]
                   /\ \A n \in 2..s : G[n] = G[n - 1] \o seqs[n]
      BY <1>6, <2>2, FlattenDef
    <3>. HIDE DEF flat
    <3>. DEFINE S == {n \in 0..s : n # 0 => Of(G[n], n)}
    <3>2. 0 \in S
      BY <1>1
    <3>3. ASSUME NEW n \in 0..(s - 1), n \in S
          PROVE  n + 1 \in S
      <4>. DEFINE m == n + 1
                  q == part(m)
      <4>1. /\ m \in 1..s /\ m - 1 = n /\ c[m] \in Nat /\ f[m] \in Int
            /\ T[m] = T[n] + c[m] /\ T[m] \in Nat /\ T[n] \in Nat
        BY <1>1, <1>2
      <4>2. q \in Seq(Int) /\ Len(q) = c[m] /\ \A k \in 1..c[m] : q[k] = f[m]
        BY <1>5, <4>1
      <4>. HIDE DEF q
      <4>3. CASE n = 0
        <5>1. G[m] = q
          BY <1>6, <3>1, <4>1, <4>3 DEF q
        <5>2. T[n] = 0 /\ T[m] = c[m]
          BY <1>2, <4>1, <4>3
        <5>3. \A k \in 1..T[m] : m \in 1..m /\ T[m - 1] < k /\ k <= T[m] /\ q[k] = f[m]
          BY <4>1, <4>2, <5>2
        <5>4. Of(q, m)
          BY <4>2, <5>2, <5>3
        <5>5. Of(G[m], m) /\ m \in 0..s
          <6>. HIDE DEF Of
          <6>. QED BY <1>1, <4>1, <5>1, <5>4
        <5>. QED BY <5>5
      <4>4. CASE n # 0
        <5>. DEFINE p == G[n]
        <5>1. /\ p \in Seq(Int) /\ Len(p) = T[n]
              /\ \A k \in 1..T[n] : \E j \in 1..n :
                   T[j - 1] < k /\ k <= T[j] /\ p[k] = f[j]
          BY <3>3, <4>4
        <5>2. G[m] = p \o q
          <6>1. m \in 2..s /\ m - 1 = n /\ seqs[m] = q
            BY <1>1, <1>6, <4>1, <4>4 DEF q
          <6>. HIDE DEF m
          <6>. QED BY <3>1, <6>1
        <5>. HIDE DEF p, m
        <5>. DEFINE r == p \o q
        <5>3. /\ r \in Seq(Int) /\ Len(r) = Len(p) + Len(q)
              /\ \A k \in 1..(Len(p) + Len(q)) :
                   r[k] = IF k <= Len(p) THEN p[k] ELSE q[k - Len(p)]
          BY <4>2, <5>1, ConcatProperties, ZenonT(60)
        <5>. HIDE DEF r
        <5>. DEFINE a == Len(p)
                    b == Len(q)
        <5>4. a = T[n] /\ b = c[m] /\ a + b = T[m] /\ a \in Nat /\ b \in Nat
          BY <4>1, <4>2, <5>1
        <5>. HIDE DEF a, b
        <5>5. Len(r) = a + b /\ \A k \in 1..a : r[k] = p[k]
          BY <5>3, <5>4 DEF a, b
        <5>6. \A k \in (a + 1)..(a + b) : k - a \in 1..b /\ r[k] = q[k - a]
          BY <5>3, <5>4, SMTT(30) DEF a, b
        <5>7. Len(r) = T[m] /\ \A k \in 1..T[n] : r[k] = p[k]
          BY <5>4, <5>5
        <5>8. \A k \in (T[n] + 1)..T[m] : k - T[n] \in 1..c[m] /\ r[k] = q[k - T[n]]
          BY <5>4, <5>6
        <5>9. ASSUME NEW k \in 1..T[m]
              PROVE  \E j \in 1..m : T[j - 1] < k /\ k <= T[j] /\ r[k] = f[j]
          <6>1. CASE k \in 1..T[n]
            <7>1. PICK j \in 1..n : T[j - 1] < k /\ k <= T[j] /\ p[k] = f[j]
              BY <5>1, <6>1
            <7>2. j \in 1..m /\ r[k] = f[j]
              BY <4>1, <5>7, <6>1, <7>1
            <7>. QED BY <7>1, <7>2
          <6>2. CASE k \in (T[n] + 1)..T[m]
            <7>1. r[k] = f[m]
              BY <4>2, <5>8, <6>2
            <7>2. m \in 1..m /\ T[m - 1] < k /\ k <= T[m]
              BY <4>1, <6>2
            <7>. QED BY <7>1, <7>2
          <6>. QED BY <4>1, <6>1, <6>2
        <5>10. Of(r, m)
          BY <5>3, <5>7, <5>9
        <5>11. G[m] = r
          BY <5>2 DEF r
        <5>12. Of(G[m], m) /\ m \in 0..s
          <6>. HIDE DEF Of
          <6>. QED BY <1>1, <4>1, <5>10, <5>11
        <5>. QED BY <5>12 DEF m
      <4>. QED BY <4>3, <4>4
    <3>4. 0..s \subseteq S
      <4>. HIDE DEF S
      <4>. QED BY <1>1, <3>2, <3>3, IntervalSets
    <3>5. Of(G[s], s)
      <4>. HIDE DEF Of
      <4>1. s \in 0..s
        BY <1>1
      <4>. QED BY <2>2, <3>4, <4>1
    <3>. QED BY <3>1, <3>5
  <2>. QED BY <2>1, <2>2
<1>. HIDE DEF flat
<1>8. s \in 0..s /\ T[s] \in Nat
  BY <1>1, <1>2
<1>. DEFINE cf == <<mapping.start_after>> \o flat
<1>9. /\ cf \in Seq(Int) /\ Len(cf) = 1 + T[s] /\ cf[1] = mapping.start_after
      /\ \A k \in 1..T[s] : cf[k + 1] = flat[k]
  BY <1>3, <1>7, <1>8
<1>. HIDE DEF cf
<1>10. \A k \in 1..T[s] : \E j \in 1..s : T[j - 1] < k /\ k <= T[j] /\ cf[k + 1] = f[j]
  BY <1>7, <1>9
<1>11. Configured(mapping) = cf
  BY <1>4 DEF cf
<1>. QED BY <1>9, <1>10, <1>11 DEF s, f, T

\* Of counts that fit, the delays are those of the schedule, and there is none
\* after it.
LEMMA ScheduleOfFitting ==
  ASSUME MaxI32 \in Nat, NEW mapping \in Lists, Counted(mapping), Fits(mapping),
         NEW k \in Nat
  PROVE  /\ k < Len(Configured(mapping)) =>
              GetScheduleTime(mapping, k) = <<Configured(mapping)[k + 1]>>
         /\ k >= Len(Configured(mapping)) => GetScheduleTime(mapping, k) = None
<1>. DEFINE s == Steps(mapping)
            C == Cumulative(mapping)
            T == Sums(mapping.count)
            cf == Configured(mapping)
<1>1. s \in Nat
  BY StepsType
<1>2. /\ \A n \in 0..s : C[n] = T[n] /\ T[n] \in Nat
      /\ \A n \in 0..s : \A j \in 0..n : T[j] <= T[n]
  BY CumulativeIsSum
<1>3. /\ Len(cf) = 1 + T[s] /\ cf[1] = mapping.start_after
      /\ \A i \in 1..T[s] : \E j \in 1..s :
           T[j - 1] < i /\ i <= T[j] /\ cf[i + 1] = mapping.frequency[j]
  BY ConfiguredDef
<1>. HIDE DEF s, C, T, cf
<1>4. T[s] \in Nat
  BY <1>1, <1>2
<1>5. CASE k = 0
  <2>1. GetScheduleTime(mapping, k) = <<mapping.start_after>>
    BY <1>5 DEF GetScheduleTime, Some
  <2>2. ~(k >= Len(cf)) /\ cf[k + 1] = mapping.start_after
    BY <1>3, <1>4, <1>5
  <2>. QED BY <2>1, <2>2 DEF cf
<1>6. CASE k # 0 /\ k <= T[s]
  <2>1. k \in 1..T[s] /\ ~(k >= Len(cf))
    BY <1>3, <1>4, <1>6
  <2>2. PICK j \in 1..s : T[j - 1] < k /\ k <= T[j] /\ cf[k + 1] = mapping.frequency[j]
    BY <1>3, <2>1
  <2>3. C[j] >= k
    BY <1>1, <1>2, <2>2
  <2>4. ASSUME NEW i \in 1..(j - 1) PROVE C[i] < k
    <3>1. i \in 0..s /\ j - 1 \in 0..s /\ i \in 0..(j - 1)
      BY <1>1
    <3>2. T[i] <= T[j - 1] /\ T[i] \in Nat /\ T[j - 1] \in Nat /\ C[i] = T[i]
      BY <1>2, <3>1
    <3>. QED BY <2>2, <3>2
  <2>5. Reaches(mapping, k, j)
    BY <2>3, <2>4 DEF Reaches, C, s
  <2>6. GetDelay(mapping, k) = <<mapping.frequency[j]>>
    BY <1>6, <2>5, DelayOfStep
  <2>. QED BY <1>6, <2>1, <2>2, <2>6 DEF GetScheduleTime, cf
<1>7. CASE k # 0 /\ k > T[s]
  <2>1. ~(k < Len(cf))
    BY <1>3, <1>4, <1>7
  <2>2. ASSUME NEW n \in 1..s PROVE C[n] < k
    <3>1. n \in 0..s /\ s \in 0..s
      BY <1>1
    <3>2. C[n] = T[n] /\ T[n] \in Nat /\ T[n] <= T[s]
      BY <1>2, <3>1
    <3>. QED BY <1>4, <1>7, <3>2
  <2>3. GetDelay(mapping, k) = None
    BY <1>7, <2>2, DelayOfStep DEF C, s
  <2>. QED BY <1>7, <2>1, <2>3 DEF GetScheduleTime, cf
<1>. QED BY <1>4, <1>5, <1>6, <1>7

-----------------------------------------------------------------------------
(* Counts that overflow *)

\* The attempts in A that use the interval f are at most as many as the mapping
\* configures: those that a step serves lie between its cumulative count and
\* that of the step before, and wrapping only brings the two together.
LEMMA AttemptsOfInterval ==
  ASSUME MaxI32 \in Nat, NEW mapping \in Lists, Counted(mapping), NEW f \in Int,
         NEW l \in Nat, NEW A \in SUBSET (1..l),
         \A k \in A : GetDelay(mapping, k) = <<f>>
  PROVE  Cardinality(A) <= Configures(mapping, f)
<1>. DEFINE s == Steps(mapping)
            c == mapping.count
            C == Cumulative(mapping)
            u == Uses(mapping, f)
            U == Sums(u)
            B(n) == {k \in A : \E j \in 1..n : C[j] >= k}
            S == {n \in 0..s : U[n] \in Int /\ Cardinality(B(n)) <= U[n]}
<1>1. s \in Nat /\ \A n \in 1..s : c[n] \in Nat /\ mapping.frequency[n] \in Int
  BY StepsType DEF Counted
<1>2. C[0] = 0 /\ \A n \in 1..s : C[n] = Wrap(C[n - 1] + c[n])
  BY CumulativeDef
<1>3. \A n \in 0..s : C[n] \in Int /\ -(MaxI32 + 1) <= C[n]
  BY CumulativeRange
<1>4. /\ u \in Seq(Int) /\ Len(u) = s
      /\ \A n \in 1..s : u[n] = IF mapping.frequency[n] = f THEN c[n] ELSE 0
  BY <1>1 DEF Uses
<1>5. U[0] = 0 /\ \A n \in 1..s : U[n] = U[n - 1] + u[n]
  BY <1>4, SumsDef
<1>6. Configures(mapping, f) = U[s]
  BY DEF Configures
<1>7. \A k \in A : \E n \in 1..s :
        /\ C[n] >= k /\ mapping.frequency[n] = f
        /\ \A j \in 1..(n - 1) : C[j] < k
  <2>. SUFFICES ASSUME NEW k \in A
                PROVE  \E n \in 1..s :
                         /\ C[n] >= k /\ mapping.frequency[n] = f
                         /\ \A j \in 1..(n - 1) : C[j] < k
    OBVIOUS
  <2>1. k \in Nat \ {0} /\ GetDelay(mapping, k) = <<f>>
    OBVIOUS
  <2>2. GetDelay(mapping, k) # None
    BY <2>1 DEF None
  <2>3. PICK n \in 1..s : Reaches(mapping, k, n)
    BY <2>1, <2>2, DelayOfStep
  <2>4. <<mapping.frequency[n]>> = <<f>>
    BY <2>1, <2>3, DelayOfStep
  <2>5. mapping.frequency[n] = f
    BY <2>4
  <2>. QED BY <2>3, <2>5 DEF Reaches
<1>8. IsFiniteSet(A)
  <2>1. A \in SUBSET Nat /\ \A k \in A : k <= l
    OBVIOUS
  <2>. QED BY <2>1, FS_BoundedSetOfNaturals
<1>. HIDE DEF s, c, C, u, U
<1>9. 0 \in S
  <2>1. B(0) = {}
    OBVIOUS
  <2>2. Cardinality({}) = 0
    BY FS_EmptySet
  <2>3. U[0] \in Int /\ Cardinality(B(0)) <= U[0]
    <3>. HIDE DEF B
    <3>. QED BY <1>5, <2>1, <2>2
  <2>. HIDE DEF B
  <2>. QED BY <1>1, <2>3
<1>10. ASSUME NEW n \in 0..(s - 1), n \in S
       PROVE  n + 1 \in S
  <2>. DEFINE m == n + 1
              new == (C[n] + 1)..(C[n] + c[m])
  <2>1. /\ m \in 1..s /\ m - 1 = n /\ c[m] \in Nat /\ C[n] \in Int /\ C[m] \in Int
        /\ U[m] = U[n] + u[m] /\ u[m] = (IF mapping.frequency[m] = f THEN c[m] ELSE 0)
        /\ U[n] \in Int /\ Cardinality(B(n)) <= U[n]
    BY <1>1, <1>3, <1>4, <1>5, <1>10
  <2>2. C[m] <= C[n] + c[m]
    <3>1. C[m] = Wrap(C[n] + c[m])
      BY <1>2, <2>1
    <3>2. C[n] >= -(MaxI32 + 1)
      BY <1>1, <1>3
    <3>3. C[n] + c[m] \in Int /\ C[n] + c[m] >= -(MaxI32 + 1)
      <4>. HIDE DEF m
      <4>. QED BY <2>1, <3>2
    <3>. QED BY <3>1, <3>3, WrapRange
  <2>3. IsFiniteSet(B(n)) /\ Cardinality(B(n)) \in Nat
    BY <1>8, FS_Subset, FS_CardinalityType
  <2>4. CASE mapping.frequency[m] = f
    <3>1. B(m) \subseteq B(n) \cup new
      <4>. SUFFICES ASSUME NEW k \in A, NEW j \in 1..m, C[j] >= k, k \notin B(n)
                    PROVE  k \in new
        OBVIOUS
      <4>1. \A i \in 1..n : ~(C[i] >= k)
        OBVIOUS
      <4>2. j = m
        BY <2>1, <4>1
      <4>3. C[n] < k
        <5>1. CASE n = 0
          BY <1>2, <5>1
        <5>2. CASE n # 0
          <6>1. n \in 1..n
            BY <5>2
          <6>. QED BY <2>1, <4>1, <6>1
        <5>. QED BY <5>1, <5>2
      <4>4. C[m] >= k
        BY <4>2
      <4>. QED BY <2>1, <2>2, <4>3, <4>4
    <3>2. IsFiniteSet(new) /\ Cardinality(new) = c[m]
      <4>. DEFINE x == C[n] + 1
                  y == C[n] + c[m]
      <4>1. x \in Int /\ y \in Int /\ y - x + 1 = c[m] /\ (x > y => c[m] = 0)
        BY <2>1
      <4>. HIDE DEF x, y
      <4>2. IsFiniteSet(x..y) /\ Cardinality(x..y) = IF x > y THEN 0 ELSE y - x + 1
        BY <4>1, FS_Interval
      <4>3. Cardinality(x..y) = c[m]
        BY <4>1, <4>2
      <4>. QED BY <4>2, <4>3 DEF x, y
    <3>. HIDE DEF B, new, m
    <3>3. /\ IsFiniteSet(B(n) \cup new)
          /\ Cardinality(B(n) \cup new)
               = Cardinality(B(n)) + Cardinality(new) - Cardinality(B(n) \cap new)
      BY <2>3, <3>2, FS_Union
    <3>4. Cardinality(B(n) \cap new) \in Nat
      BY <2>3, FS_Intersection, FS_CardinalityType
    <3>5. Cardinality(B(m)) <= Cardinality(B(n) \cup new)
      BY <3>1, <3>3, FS_Subset
    <3>6. Cardinality(B(m)) \in Nat
      BY <3>1, <3>3, FS_Subset, FS_CardinalityType
    <3>7. U[m] \in Int /\ Cardinality(B(m)) <= U[m]
      BY <2>1, <2>3, <2>4, <3>2, <3>3, <3>4, <3>5, <3>6
    <3>. QED BY <1>1, <3>7 DEF m
  <2>5. CASE mapping.frequency[m] # f
    <3>1. B(m) = B(n)
      <4>1. B(n) \subseteq B(m)
        BY <2>1
      <4>2. ASSUME NEW k \in A, NEW j \in 1..m, C[j] >= k
            PROVE  k \in B(n)
        <5>1. PICK i \in 1..s :
                /\ C[i] >= k /\ mapping.frequency[i] = f
                /\ \A h \in 1..(i - 1) : C[h] < k
          BY <1>7
        <5>2. i <= j
          <6>. SUFFICES ASSUME j < i PROVE FALSE
            BY <1>1
          <6>1. j \in 1..(i - 1) /\ C[j] \in Int /\ k \in Int
            BY <1>1, <1>3, <2>1
          <6>. QED BY <4>2, <5>1, <6>1
        <5>3. i # m
          BY <2>5, <5>1
        <5>4. i \in 1..n
          BY <5>2, <5>3
        <5>. QED BY <5>1, <5>4
      <4>. QED BY <4>1, <4>2
    <3>2. U[m] = U[n]
      BY <2>1, <2>5
    <3>. HIDE DEF B, m
    <3>3. U[m] \in Int /\ Cardinality(B(m)) <= U[m]
      BY <2>1, <3>1, <3>2
    <3>. QED BY <1>1, <3>3 DEF m
  <2>. QED BY <2>4, <2>5
<1>11. 0..s \subseteq S
  <2>. HIDE DEF S
  <2>. QED BY <1>1, <1>9, <1>10, IntervalSets
<1>12. B(s) = A
  BY <1>7
<1>. QED
  <2>1. s \in S
    BY <1>1, <1>11
  <2>2. Cardinality(B(s)) <= U[s]
    BY <2>1
  <2>. QED BY <1>6, <1>12, <2>2

-----------------------------------------------------------------------------
(* The attempts of a task *)

\* The delays taken are those GetScheduleTime names, attempt by attempt, and a
\* task is over when there is none for the next one.
Inv ==
  /\ default \in Defaults /\ custom \in [Merchants -> Mappings \cup {<<>>}]
  /\ merchant \in Merchants
  /\ delays \in Seq(Int) /\ retry = Len(delays) /\ over \in BOOLEAN
  /\ \A i \in 1..Len(delays) : GetScheduleTime(Mapping, i - 1) = <<delays[i]>>
  /\ over => GetScheduleTime(Mapping, retry) = None

LEMMA MappingType ==
  ASSUME Mappings \subseteq Lists,
         default \in Defaults, custom \in [Merchants -> Mappings \cup {<<>>}],
         merchant \in Merchants
  PROVE  Mapping \in Lists
<1>1. Defaults \subseteq Lists
  BY DEF Defaults, DefaultConnectorMapping, DefaultPmMapping, DefaultWebhookMapping,
         RetryMapping, Lists
<1>2. custom[merchant] \in Mappings \cup {<<>>}
  OBVIOUS
<1>. QED BY <1>1, <1>2 DEF Mapping

LEMMA ScheduleTimeType ==
  ASSUME MaxI32 \in Nat, NEW mapping \in Lists, NEW k \in Nat
  PROVE  GetScheduleTime(mapping, k) = None \/ \E d \in Int : GetScheduleTime(mapping, k) = <<d>>
<1>1. CASE k = 0
  BY <1>1 DEF GetScheduleTime, Some, Lists
<1>2. CASE k # 0 /\ GetDelay(mapping, k) # None
  <2>1. PICK n \in 1..Steps(mapping) : Reaches(mapping, k, n)
    BY <1>2, DelayOfStep
  <2>2. GetDelay(mapping, k) = <<mapping.frequency[n]>> /\ mapping.frequency[n] \in Int
    BY <1>2, <2>1, DelayOfStep, StepsType
  <2>. QED BY <1>2, <2>2 DEF GetScheduleTime
<1>. QED BY <1>1, <1>2 DEF GetScheduleTime

LEMMA InitInv ==
  ASSUME Init PROVE Inv
<1>1. delays \in Seq(Int) /\ Len(delays) = 0 /\ retry = Len(delays) /\ over = FALSE
  BY DEF Init
<1>2. 1..Len(delays) = {}
  BY <1>1
<1>. QED BY <1>1, <1>2, Zenon DEF Init, Inv

LEMMA NextInv ==
  ASSUME MaxI32 \in Nat, Mappings \subseteq Lists, Inv, [Next]_vars
  PROVE  Inv'
<1>. DEFINE m == Mapping
            t == GetScheduleTime(m, retry)
<1>1. m \in Lists /\ retry \in Nat
  BY MappingType DEF Inv
<1>2. CASE Schedule
  <2>1. m' = m /\ UNCHANGED <<custom, default, merchant, over>>
    BY <1>2 DEF Schedule, Mapping
  <2>2. t # None /\ ~over /\ delays' = delays \o t /\ retry' = retry + 1
    BY <1>2 DEF Schedule
  <2>. HIDE DEF m
  <2>3. PICK d \in Int : t = <<d>>
    BY <1>1, <2>2, ScheduleTimeType
  <2>. HIDE DEF t
  <2>4. /\ delays \in Seq(Int) /\ retry = Len(delays)
        /\ \A i \in 1..Len(delays) : GetScheduleTime(m, i - 1) = <<delays[i]>>
    BY DEF Inv, m
  <2>5. delays' \in Seq(Int) /\ Len(delays') = Len(delays) + 1 /\ delays'[Len(delays) + 1] = d
    BY <2>2, <2>3, <2>4
  <2>6. \A i \in 1..Len(delays) : delays'[i] = delays[i]
    BY <2>2, <2>3, <2>4
  <2>7. ASSUME NEW i \in 1..Len(delays')
        PROVE  GetScheduleTime(m, i - 1) = <<delays'[i]>>
    <3>1. CASE i = Len(delays) + 1
      <4>1. i - 1 = retry /\ delays'[i] = d
        BY <2>4, <2>5, <3>1
      <4>. QED BY <2>3, <4>1 DEF t
    <3>2. CASE i \in 1..Len(delays)
      BY <2>4, <2>6, <3>2
    <3>. QED BY <2>4, <2>5, <3>1, <3>2
  <2>. QED BY <2>1, <2>2, <2>4, <2>5, <2>7 DEF Inv, m
<1>3. CASE GiveUp
  BY <1>3 DEF Inv, GiveUp, Mapping
<1>4. CASE UNCHANGED vars
  BY <1>4 DEF Inv, vars, Mapping
<1>. QED BY <1>2, <1>3, <1>4 DEF Next

LEMMA InvTried ==
  ASSUME MaxI32 \in Nat, Mappings \subseteq Lists, Inv
  PROVE  TriedAsConfigured
<1>. DEFINE m == Mapping
            l == Len(delays)
<1>1. m \in Lists
  BY MappingType DEF Inv
<1>2. /\ delays \in Seq(Int) /\ l \in Nat /\ retry = l
      /\ \A i \in 1..l : GetScheduleTime(m, i - 1) = <<delays[i]>> /\ delays[i] \in Int
      /\ over => GetScheduleTime(m, l) = None
  BY DEF Inv
<1>. HIDE DEF m, l
<1>3. ASSUME NEW i \in 2..l
      PROVE  /\ i \in 1..l /\ i - 1 \in Nat \ {0} /\ delays[i] \in Int
             /\ GetDelay(m, i - 1) = <<delays[i]>> /\ GetDelay(m, i - 1) # None
  <2>1. i \in 1..l /\ i - 1 \in Nat \ {0}
    BY <1>2
  <2>2. GetScheduleTime(m, i - 1) = <<delays[i]>>
    BY <1>2, <2>1
  <2>3. delays[i] \in Int
    BY <1>2, <2>1
  <2>4. GetDelay(m, i - 1) = <<delays[i]>>
    <3>. DEFINE k == i - 1
    <3>. HIDE DEF k
    <3>1. k # 0 /\ GetScheduleTime(m, k) = <<delays[i]>>
      BY <2>1, <2>2 DEF k
    <3>2. GetDelay(m, k) = <<delays[i]>>
      BY <3>1 DEF GetScheduleTime
    <3>. QED BY <3>2 DEF k
  <2>5. <<delays[i]>> # None
    BY DEF None
  <2>. QED BY <2>1, <2>3, <2>4, <2>5, Zenon
<1>4. l <= MaxI32 + 1
  <2>1. CASE l < 2
    BY <1>2, <2>1
  <2>2. CASE l >= 2
    <3>1. l \in 2..l
      BY <1>2, <2>2
    <3>2. PICK n \in 1..Steps(m) : Reaches(m, l - 1, n)
      BY <1>1, <1>3, <3>1, DelayOfStep
    <3>3. n \in 0..Steps(m) /\ Cumulative(m)[n] >= l - 1
      BY <1>1, <3>2, StepsType DEF Reaches
    <3>4. Cumulative(m)[n] \in Int /\ Cumulative(m)[n] <= MaxI32
      BY <1>1, <3>3, CumulativeRange
    <3>. QED BY <1>2, <3>3, <3>4
  <2>. QED BY <1>2, <2>1, <2>2
<1>5. ASSUME Counted(m), Fits(m)
      PROVE  IsPrefix(delays, Configured(m)) /\ (over => delays = Configured(m))
  <2>. DEFINE cf == Configured(m)
  <2>1. cf \in Seq(Int) /\ Len(cf) \in Nat
    BY <1>1, <1>5, ConfiguredDef
  <2>2. ASSUME NEW k \in Nat
        PROVE  /\ k < Len(cf) => GetScheduleTime(m, k) = <<cf[k + 1]>>
               /\ k >= Len(cf) => GetScheduleTime(m, k) = None
    BY <1>1, <1>5, ScheduleOfFitting
  <2>. HIDE DEF cf
  <2>3. ASSUME NEW i \in 1..l
        PROVE  i <= Len(cf) /\ delays[i] = cf[i]
    <3>1. i - 1 \in Nat /\ GetScheduleTime(m, i - 1) = <<delays[i]>>
      BY <1>2
    <3>. DEFINE k == i - 1
    <3>2. <<delays[i]>> # None /\ k \in Nat /\ k + 1 = i
      BY <3>1 DEF None
    <3>3. GetScheduleTime(m, k) = <<delays[i]>>
      BY <3>1
    <3>. HIDE DEF k
    <3>4. ~(k >= Len(cf))
      BY <2>2, <3>2, <3>3
    <3>5. k < Len(cf)
      BY <2>1, <3>2, <3>4
    <3>6. <<delays[i]>> = <<cf[k + 1]>>
      BY <2>2, <3>2, <3>3, <3>5
    <3>. QED BY <2>1, <3>2, <3>5, <3>6
  <2>4. l <= Len(cf)
    <3>1. CASE l = 0
      BY <2>1, <3>1
    <3>2. CASE l # 0
      <4>1. l \in 1..l
        BY <1>2, <3>2
      <4>. QED BY <2>3, <4>1
    <3>. QED BY <3>1, <3>2
  <2>5. IsPrefix(delays, cf)
    <3>1. SubSeq(delays, 1, l) = [i \in 1..l |-> delays[i]]
      BY <1>2 DEF l
    <3>2. SubSeq(cf, 1, l) = [i \in 1..l |-> cf[i]]
      BY <1>2, <2>1, <2>4
    <3>3. SubSeq(delays, 1, l) = SubSeq(cf, 1, l)
      BY <2>3, <3>1, <3>2
    <3>. QED BY <2>4, <3>3 DEF IsPrefix, l
  <2>6. ASSUME over PROVE delays = cf
    <3>1. ~(l < Len(cf))
      <4>. SUFFICES ASSUME l < Len(cf) PROVE FALSE
        OBVIOUS
      <4>1. GetScheduleTime(m, l) = <<cf[l + 1]>>
        BY <1>2, <2>2
      <4>2. GetScheduleTime(m, l) = None
        BY <1>2, <2>6
      <4>. QED BY <4>1, <4>2 DEF None
    <3>2. l = Len(cf)
      BY <1>2, <2>1, <2>4, <3>1
    <3>. QED BY <1>2, <2>1, <2>3, <3>2, SeqEqual DEF l
  <2>. QED BY <2>5, <2>6 DEF cf
<1>6. ASSUME Counted(m)
      PROVE  OnlyShortened
  <2>. SUFFICES ASSUME NEW i \in 2..l
                PROVE  Cardinality({k \in 2..l : delays[k] = delays[i]})
                         <= Configures(m, delays[i])
    BY DEF OnlyShortened, l, m
  <2>. DEFINE f == delays[i]
              D == {k \in 2..l : delays[k] = f}
              A == {k \in 1..l : k + 1 \in D}
              pred == [k \in D |-> k - 1]
  <2>1. f \in Int
    BY <1>3
  <2>. HIDE DEF f
  <2>2. A \in SUBSET (1..l)
    OBVIOUS
  <2>3. \A k \in A : GetDelay(m, k) = <<f>>
    <3>. SUFFICES ASSUME NEW k \in A PROVE GetDelay(m, k) = <<f>>
      OBVIOUS
    <3>1. k + 1 \in 2..l /\ delays[k + 1] = f /\ (k + 1) - 1 = k
      BY <1>2
    <3>. QED BY <1>3, <3>1
  <2>4. Cardinality(A) <= Configures(m, f)
    <3>. HIDE DEF A
    <3>. QED BY <1>1, <1>2, <1>6, <2>1, <2>2, <2>3, AttemptsOfInterval
  <2>5. Cardinality(D) = Cardinality(A)
    <3>1. IsFiniteSet(D)
      <4>1. D \in SUBSET Nat /\ \A k \in D : k <= l
        BY <1>2
      <4>. QED BY <1>2, <4>1, FS_BoundedSetOfNaturals
    <3>2. pred \in Bijection(D, A)
      <4>1. \A k \in D : k - 1 \in A
        BY <1>2
      <4>2. pred \in [D -> A]
        BY <4>1
      <4>3. \A k \in A : k + 1 \in D /\ pred[k + 1] = k
        BY <1>2
      <4>4. \A j, k \in D : pred[j] = pred[k] => j = k
        BY <1>2
      <4>. HIDE DEF D, A, pred
      <4>5. pred \in Injection(D, A)
        BY <4>2, <4>4 DEF Injection, IsInjective
      <4>6. pred \in Surjection(D, A)
        BY <4>2, <4>3 DEF Surjection
      <4>. QED BY <4>5, <4>6 DEF Bijection
    <3>. HIDE DEF D, A, pred
    <3>3. ExistsBijection(D, A)
      BY <3>2 DEF ExistsBijection
    <3>. QED BY <3>1, <3>3, FS_Bijection
  <2>. QED BY <2>4, <2>5 DEF f
<1>. QED BY <1>4, <1>5, <1>6 DEF TriedAsConfigured, m, l

\* get_schedule_time and its callers: whatever mapping an operator configures, a
\* task is tried exactly as configured when the counts add up within an i32;
\* counts that overflow only shorten the schedule, and no counts make a task
\* run without end.
THEOREM TriedAsConfiguredHolds ==
  ASSUME MaxI32 \in Nat, Mappings \subseteq Lists
  PROVE  Spec => []TriedAsConfigured
<1>1. Init => Inv
  BY InitInv
<1>2. Inv /\ [Next]_vars => Inv'
  BY NextInv
<1>3. Inv => TriedAsConfigured
  BY InvTried
<1>. QED BY <1>1, <1>2, <1>3, PTL DEF Spec

=============================================================================
