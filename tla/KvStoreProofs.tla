--------------------------- MODULE KvStoreProofs ---------------------------
(***************************************************************************)
(* Theorems about KvStore, for any clients, records, unique constraints    *)
(* and number of values and faults.                                        *)
(***************************************************************************)
EXTENDS KvStore, FiniteSetTheorems, TLAPS

USE ClientsAssumption, KeysAssumption, LimitsAssumption, FlagAssumption

-----------------------------------------------------------------------------
(* Type correctness, and what an operation is about at each of its steps   *)

\* What an operation is about at each of its steps.
OpInv ==
  \A c \in Clients :
    LET o == op[c] IN
    /\ o.at \in {"check", "write", "expire", "push"} => o.kind \in {"insert", "update"}
    /\ o.at = "check" => o.kind = "insert" /\ (o.val # 0 => o.key \in PlainKeys)
    /\ o.at = "write" => o.val = 0
    /\ o.at = "push" => o.val # 0
    /\ o.at \in {"get", "db"} => o.kind \in {"read", "scan"}

\* The clients that may still write fit into the bound on the values.
BoundInv == writes + Cardinality({c \in Clients : Writing(c)}) <= MaxWrites

\* No client but this one moves.
Others(c) == \A d \in Clients : d # c => op'[d] = op[d]

\* The operation stays what it is.
SameOp(c) ==
  /\ op'[c].kind = op[c].kind /\ op'[c].key = op[c].key /\ op'[c].lo = op[c].lo

Steps == {"check", "write", "expire", "push", "get", "db", "error", "done"}

LEMMA IdleType == Idle \in Ops /\ Idle.kind = "none" /\ Idle.at = "done"
                  /\ Idle.lo = 0 /\ Idle.val = 0 /\ Idle.key \in Keys
  BY DEF Idle, Ops, Keys, Values

\* The next step of an operation.
LEMMA GotoOp ==
  ASSUME op \in [Clients -> Ops], NEW c \in Clients, NEW at \in Steps, Goto(c, at)
  PROVE  /\ op' \in [Clients -> Ops] /\ Others(c) /\ SameOp(c)
         /\ op'[c].at = at /\ op'[c].val = op[c].val
  BY DEF Goto, Ops, Others, SameOp, Steps

\* The next step of an operation and its value.
LEMMA ValueOp ==
  ASSUME op \in [Clients -> Ops], NEW c \in Clients, NEW at \in Steps, NEW v \in Values,
         \/ op' = [op EXCEPT ![c].val = v, ![c].at = at]
         \/ op' = [op EXCEPT ![c].at = at, ![c].val = v]
  PROVE  /\ op' \in [Clients -> Ops] /\ Others(c) /\ SameOp(c)
         /\ op'[c].at = at /\ op'[c].val = v
  BY DEF Ops, Others, SameOp, Steps, Values

\* The operation ends.
LEMMA IdleOp ==
  ASSUME op \in [Clients -> Ops], NEW c \in Clients, op' = [op EXCEPT ![c] = Idle]
  PROVE  op' \in [Clients -> Ops] /\ Others(c) /\ op'[c] = Idle
  BY IdleType DEF Others

\* Every command of an operation, by what it does to it.
LEMMA CheckOp ==
  ASSUME TypeOK, OpInv, NEW c \in Clients, Check(c)
  PROVE  /\ op' \in [Clients -> Ops] /\ Others(c) /\ SameOp(c) /\ op'[c].val = op[c].val
         /\ op'[c].at \in {"error", "write", "push"}
         /\ op'[c].at # "error" => Constraint[op[c].key] \notin members
         /\ op'[c].at = "write" <=> Constraint[op[c].key] \notin members /\ op[c].key \in HashKeys
         /\ op'[c].at = "push" => op[c].key \in PlainKeys
         /\ op'[c].at = "push" => op[c].val # 0
<1> DEFINE at == IF Sadd(op[c].key) /\ op[c].key \in HashKeys THEN "write"
                 ELSE IF Sadd(op[c].key) /\ op[c].val # 0 THEN "push"
                 ELSE "error"
<1>1. Goto(c, at) /\ at \in Steps
  BY DEF Check, Steps
<1>2. op[c].key \in Keys
  BY DEF TypeOK, Ops
<1>3. /\ at \in {"error", "write", "push"}
      /\ at # "error" => Constraint[op[c].key] \notin members
      /\ at = "write" <=> Constraint[op[c].key] \notin members /\ op[c].key \in HashKeys
      /\ at = "push" => op[c].key \in PlainKeys
      /\ at = "push" => op[c].val # 0
  BY <1>2 DEF Sadd, Keys
<1> QED
  BY <1>1, <1>3, GotoOp DEF TypeOK

\* The three writes: the value is the next one, if the command takes effect.
LEMMA StoredOp ==
  ASSUME TypeOK, OpInv, BoundInv, NEW c \in Clients, At(c, "write"),
         NEW set \in BOOLEAN, NEW next \in Steps, Stored(c, set, next)
  PROVE  /\ op' \in [Clients -> Ops] /\ Others(c) /\ SameOp(c) /\ op'[c].at = next
         /\ op'[c].val = IF set THEN writes + 1 ELSE 0
         /\ kv' \in [Keys -> Values] /\ writes' \in Values
         /\ kv'[op[c].key] = IF set THEN writes + 1 ELSE kv[op[c].key]
         /\ \A k \in Keys : k # op[c].key => kv'[k] = kv[k]
         /\ writes' = IF set THEN writes + 1 ELSE writes
         /\ writes + 1 \in Values
<1> DEFINE W == {d \in Clients : Writing(d)}
<1>1. op[c].key \in Keys /\ Writing(c)
  BY DEF TypeOK, Ops, OpInv, At, Writing
<1>2. IsFiniteSet(W) /\ c \in W
  BY <1>1, FS_Subset
<1>3. Cardinality(W) \in Nat \ {0}
  BY <1>2, FS_CardinalityType, FS_EmptySet
<1>4. writes + 1 \in Values
  BY <1>3 DEF BoundInv, TypeOK, Values
<1>5. 0 \in Values
  BY DEF Values
<1>6. (IF set THEN writes + 1 ELSE 0) \in Values
  BY <1>4, <1>5
<1>7. /\ op' \in [Clients -> Ops] /\ Others(c) /\ SameOp(c) /\ op'[c].at = next
      /\ op'[c].val = IF set THEN writes + 1 ELSE 0
  <2> DEFINE v == IF set THEN writes + 1 ELSE 0
  <2>1. op' = [op EXCEPT ![c].val = v, ![c].at = next] /\ op \in [Clients -> Ops] /\ v \in Values
    BY <1>6 DEF Stored, TypeOK
  <2> HIDE DEF v
  <2>2. op' \in [Clients -> Ops] /\ Others(c) /\ SameOp(c) /\ op'[c].at = next /\ op'[c].val = v
    BY <2>1, ValueOp
  <2> QED
    BY <2>2 DEF v
<1>8. kv \in [Keys -> Values] /\ writes \in Values
  BY DEF TypeOK, Values
<1> QED
  BY <1>1, <1>4, <1>7, <1>8 DEF Stored

\* The invariant of the types.
TypeInv == TypeOK /\ OpInv /\ BoundInv

\* The clients that may still write are finitely many.
LEMMA WritersFinite ==
  ASSUME NEW W, W \subseteq Clients
  PROVE  IsFiniteSet(W) /\ Cardinality(W) \in Nat
  BY FS_Subset, FS_CardinalityType

\* If no client gets a value to write, the bound is kept.
LEMMA BoundKept ==
  ASSUME TypeOK, BoundInv, writes' = writes,
         \A c \in Clients : Writing(c)' => Writing(c)
  PROVE  BoundInv'
<1> DEFINE W == {c \in Clients : Writing(c)}
           V == {c \in Clients : Writing(c)'}
<1>1. V \subseteq W /\ IsFiniteSet(W) /\ Cardinality(W) \in Nat
  BY WritersFinite
<1>2. Cardinality(V) <= Cardinality(W) /\ Cardinality(V) \in Nat
  BY <1>1, FS_Subset, FS_CardinalityType
<1> HIDE DEF W, V
<1>3. writes + Cardinality(W) <= MaxWrites => writes + Cardinality(V) <= MaxWrites
  BY <1>1, <1>2 DEF TypeOK, Values
<1> QED
  BY <1>3 DEF BoundInv, W, V

\* If one client moves on and has not to write any more, what is said of the
\* operations and of the bound is kept.
LEMMA OneMoves ==
  ASSUME TypeOK, OpInv, BoundInv, NEW c \in Clients, Others(c), writes' = writes,
         op'[c].at \in {"error", "done"}
           \/ (op'[c].at = "db" /\ op'[c].kind \in {"read", "scan"})
           \/ (op'[c].at = "push" /\ op'[c].val # 0 /\ op'[c].kind \in {"insert", "update"})
  PROVE  OpInv' /\ BoundInv'
<1>1. \A d \in Clients : Writing(d)' => Writing(d)
  BY DEF Others, Writing
<1>2. BoundInv'
  BY <1>1, BoundKept
<1>3. OpInv'
  BY DEF Others, OpInv
<1> QED
  BY <1>2, <1>3

\* The bound after the begin of an operation, and after a write.
LEMMA BoundBegun ==
  ASSUME TypeOK, BoundInv, NEW c \in Clients, Others(c), writes' = writes,
         Writing(c)' => writes + Cardinality({d \in Clients : Writing(d)}) < MaxWrites
  PROVE  BoundInv'
<1> DEFINE W == {d \in Clients : Writing(d)}
           V == {d \in Clients : Writing(d)'}
<1>1. \A d \in Clients : d # c => (Writing(d)' <=> Writing(d))
  BY DEF Others, Writing
<1>2. CASE ~Writing(c)'
  BY <1>1, <1>2, BoundKept
<1>3. CASE Writing(c)'
  <2>1. V \subseteq W \cup {c}
    BY <1>1
  <2>2. IsFiniteSet(W) /\ Cardinality(W) \in Nat
    BY WritersFinite
  <2>3. IsFiniteSet(W \cup {c}) /\ Cardinality(W \cup {c}) <= Cardinality(W) + 1
        /\ Cardinality(W \cup {c}) \in Nat
    <3> HIDE DEF W
    <3>1. /\ IsFiniteSet(W \cup {c})
          /\ Cardinality(W \cup {c}) = IF c \in W THEN Cardinality(W) ELSE Cardinality(W) + 1
      BY <2>2, FS_AddElement
    <3> QED
      BY <2>2, <3>1
  <2>4. Cardinality(V) <= Cardinality(W \cup {c}) /\ Cardinality(V) \in Nat
    BY <2>1, <2>3, FS_Subset, WritersFinite
  <2>5. writes + Cardinality(W) < MaxWrites
    BY <1>3
  <2> HIDE DEF W, V
  <2>6. writes + Cardinality(V) <= MaxWrites
    BY <2>2, <2>3, <2>4, <2>5 DEF TypeOK, Values
  <2> QED
    BY <2>6 DEF BoundInv, V
<1> QED
  BY <1>2, <1>3

LEMMA BoundWritten ==
  ASSUME TypeOK, BoundInv, NEW c \in Clients, Others(c), Writing(c), ~Writing(c)',
         writes' = writes + 1
  PROVE  BoundInv'
<1> DEFINE W == {d \in Clients : Writing(d)}
           V == {d \in Clients : Writing(d)'}
<1>1. \A d \in Clients : d # c => (Writing(d)' <=> Writing(d))
  BY DEF Others, Writing
<1>2. V = W \ {c} /\ c \in W
  BY <1>1
<1>3. IsFiniteSet(W) /\ Cardinality(W) \in Nat
  BY WritersFinite
<1>4. writes + Cardinality(W) <= MaxWrites
  BY DEF BoundInv
<1> HIDE DEF W, V
<1>5. Cardinality(V) = Cardinality(W) - 1
  BY <1>2, <1>3, FS_RemoveElement
<1>6. writes' + Cardinality(V) <= MaxWrites
  BY <1>3, <1>4, <1>5 DEF TypeOK, Values
<1> QED
  BY <1>6 DEF BoundInv, V

\* TypeOK, without what is said of the log and of Redis and the operations.
LEMMA StoreStep ==
  ASSUME TypeInv, NEW c \in Clients,
         SetHashFields(c) \/ SetHashFieldIfNotExist(c) \/ SetKeyIfNotExist(c)
  PROVE  TypeInv'
<1> USE DEF TypeInv
<1>1. PICK set \in BOOLEAN, next \in {"expire", "check"} :
        /\ At(c, "write") /\ Stored(c, set, next)
        /\ set => timed' \in {timed, timed \cup {op[c].key}}
        /\ ~set => timed' = timed
        /\ next = "check" => op[c].kind = "insert" /\ op[c].key \in PlainKeys
  <2>1. CASE SetHashFields(c)
    BY <2>1 DEF SetHashFields
  <2>2. CASE SetHashFieldIfNotExist(c)
    BY <2>2 DEF SetHashFieldIfNotExist
  <2>3. CASE SetKeyIfNotExist(c)
    BY <2>3 DEF SetKeyIfNotExist
  <2> QED
    BY <2>1, <2>2, <2>3
<1>2. /\ op' \in [Clients -> Ops] /\ Others(c) /\ SameOp(c) /\ op'[c].at = next
      /\ op'[c].val = IF set THEN writes + 1 ELSE 0
      /\ kv' \in [Keys -> Values] /\ writes' \in Values
      /\ kv'[op[c].key] = IF set THEN writes + 1 ELSE kv[op[c].key]
      /\ \A k \in Keys : k # op[c].key => kv'[k] = kv[k]
      /\ writes' = IF set THEN writes + 1 ELSE writes
  BY <1>1, StoredOp DEF Steps
<1>3. op[c].key \in Keys /\ op[c].kind \in {"insert", "update"} /\ writes \in Nat
  BY <1>1 DEF TypeOK, Ops, OpInv, At, Values
<1>4. UNCHANGED <<members, drain, history, health, faults>>
  BY <1>1 DEF Stored
<1>5. timed' \subseteq {k \in Keys : kv'[k] # 0}
  <2>1. \A k \in timed : k \in Keys /\ kv[k] # 0
    BY DEF TypeOK
  <2>2. \A k \in timed' : k \in timed \/ (set /\ k = op[c].key)
    BY <1>1
  <2> QED
    BY <1>2, <1>3, <2>1, <2>2
<1>6. TypeOK'
  <2>1. /\ UNCHANGED <<members, log, trimmed, executed, db, floor, seen, early, torn>>
        /\ UNCHANGED <<link, signalled, available, faults>>
    BY <1>4 DEF drain, history, health
  <2> QED
    BY <1>2, <1>5, <2>1 DEF TypeOK, Values
<1>7. OpInv'
  BY <1>1, <1>2, <1>3 DEF OpInv, Others, SameOp
<1>8. BoundInv'
  <2>1. Writing(c)
    BY <1>1 DEF OpInv, At, Writing
  <2>2. CASE set
    BY <1>2, <1>3, <2>1, <2>2, BoundWritten DEF Writing
  <2>3. CASE ~set
    BY <1>2, <2>1, <2>3, BoundKept DEF Others, Writing
  <2> QED
    BY <2>2, <2>3
<1> QED
  BY <1>6, <1>7, <1>8

\* The steps of an operation other than the writes.
LEMMA OperationStep ==
  ASSUME TypeInv, NEW c \in Clients,
         \/ Check(c) \/ SetExpiry(c) \/ Push(c) \/ PushLost(c) \/ Get(c) \/ DatabaseGet(c)
         \/ Answer(c) \/ Fail(c) \/ ScanFails(c) \/ Unavailable(c)
  PROVE  TypeInv'
<1> USE DEF TypeInv
<1>0. /\ op \in [Clients -> Ops] /\ op[c] \in Ops /\ op[c].key \in Keys
      /\ op[c].val \in Values /\ writes \in Values /\ faults \in Nat
      /\ faults < MaxFaults => faults + 1 \in 0..MaxFaults
  BY DEF TypeOK, Ops
<1>1. CASE Check(c)
  <2>1. /\ op' \in [Clients -> Ops] /\ Others(c) /\ SameOp(c) /\ op'[c].val = op[c].val
        /\ op'[c].at \in {"error", "write", "push"}
        /\ op'[c].at = "write" => op[c].key \in HashKeys
        /\ op'[c].at = "push" => op[c].val # 0
    BY <1>1, CheckOp
  <2>2. members' \subseteq {Constraint[k] : k \in Keys}
    BY <1>0, <1>1 DEF Check, TypeOK
  <2>3. TypeOK'
    BY <1>1, <2>1, <2>2 DEF Check, TypeOK, drain, history, health
  <2>4. op[c].kind = "insert" /\ op[c].at = "check" /\ (op[c].key \in HashKeys => op[c].val = 0)
    BY <1>1 DEF Check, At, OpInv
  <2>5. OpInv'
    BY <2>1, <2>4 DEF OpInv, Others, SameOp
  <2>6. \A d \in Clients : Writing(d)' => Writing(d)
    BY <2>1, <2>4 DEF Writing, Others, SameOp
  <2> QED
    BY <1>1, <2>3, <2>5, <2>6, BoundKept DEF Check
<1>2. CASE SetExpiry(c)
  <2> DEFINE at == IF op[c].val # 0 THEN "push" ELSE "error"
  <2>1. /\ op' \in [Clients -> Ops] /\ Others(c) /\ SameOp(c) /\ op'[c].val = op[c].val
        /\ op'[c].at = at
    BY <1>0, <1>2, GotoOp DEF SetExpiry, Steps
  <2>2. timed' \subseteq {k \in Keys : kv[k] # 0}
    BY <1>0, <1>2 DEF SetExpiry, TypeOK
  <2>3. TypeOK'
    BY <1>2, <2>1, <2>2 DEF SetExpiry, TypeOK, drain, history, health
  <2>4. op[c].kind \in {"insert", "update"}
    BY <1>2 DEF SetExpiry, At, OpInv
  <2> QED
    BY <1>2, <2>1, <2>3, <2>4, OneMoves DEF SetExpiry, SameOp
<1>3. CASE Push(c) \/ PushLost(c)
  <2>1. op[c].kind \in {"insert", "update"} /\ op[c].val # 0
    BY <1>3 DEF Push, PushLost, At, OpInv
  <2>2. Entry(op[c].kind, op[c].key, op[c].val) \in Entries
    BY <1>0, <2>1 DEF Entry, Entries
  <2>3. log' = Append(log, Entry(op[c].kind, op[c].key, op[c].val))
    BY <1>3 DEF Push, PushLost
  <2>4. log' \in Seq(Entries) /\ Len(log') = Len(log) + 1
    BY <2>2, <2>3 DEF TypeOK
  <2>5. executed' \in 0..Len(log') /\ trimmed' \in 0..executed'
    BY <1>3, <2>4 DEF Push, PushLost, TypeOK
  <2>6. op' \in [Clients -> Ops] /\ Others(c) /\ op'[c].at \in {"error", "done"}
    BY <1>0, <1>3, GotoOp, IdleOp, IdleType DEF Push, PushLost, Steps
  <2>7. floor' \in [Keys -> Values]
    BY <1>0, <1>3 DEF Push, PushLost, TypeOK, history
  <2>8. seen' \subseteq Keys /\ faults' \in 0..MaxFaults
    BY <1>0, <1>3 DEF Push, PushLost, TypeOK, history
  <2>9. UNCHANGED <<kv, timed, members, db, writes, early, torn, link, signalled, available>>
    BY <1>3 DEF Push, PushLost, store, history, health
  <2>10. TypeOK'
    BY <2>4, <2>5, <2>6, <2>7, <2>8, <2>9 DEF TypeOK
  <2> QED
    BY <2>6, <2>9, <2>10, OneMoves
<1>4. CASE Get(c) \/ DatabaseGet(c)
  <2>1. op[c].kind \in {"read", "scan"} /\ kv[op[c].key] \in Values /\ db[op[c].key] \in Values
    BY <1>0, <1>4 DEF Get, DatabaseGet, At, OpInv, TypeOK
  <2>2. /\ op' \in [Clients -> Ops] /\ Others(c) /\ SameOp(c) /\ op'[c].at \in {"done", "db"}
    <3>1. CASE DatabaseGet(c)
      BY <1>0, <2>1, <3>1, ValueOp DEF DatabaseGet, Steps
    <3>2. CASE Get(c) /\ kv[op[c].key] = 0
      BY <1>0, <3>2, GotoOp DEF Get, Steps
    <3>3. CASE Get(c) /\ kv[op[c].key] # 0
      BY <1>0, <2>1, <3>3, ValueOp DEF Get, Steps
    <3> QED
      BY <1>4, <3>1, <3>2, <3>3
  <2>3. seen' \subseteq Keys
    BY <1>0, <1>4 DEF Get, DatabaseGet, TypeOK
  <2>4. /\ UNCHANGED <<kv, timed, members, log, trimmed, executed, db, writes, floor>>
        /\ UNCHANGED <<early, torn, link, signalled, available, faults>>
    BY <1>4 DEF Get, DatabaseGet, store, drain, health
  <2>5. TypeOK'
    BY <2>2, <2>3, <2>4 DEF TypeOK
  <2> QED
    BY <2>1, <2>2, <2>4, <2>5, OneMoves DEF SameOp
<1>5. CASE Answer(c) \/ Unavailable(c) \/ Fail(c) \/ ScanFails(c)
  <2>1. /\ op' \in [Clients -> Ops] /\ Others(c)
        /\ \/ op'[c].at \in {"error", "done"}
           \/ op'[c].at = "db" /\ op'[c].kind = "scan"
    BY <1>0, <1>5, GotoOp, IdleOp, IdleType DEF Answer, Unavailable, Fail, ScanFails, Steps, SameOp
  <2>2. /\ UNCHANGED <<kv, timed, members, log, trimmed, executed, db, writes, floor>>
        /\ UNCHANGED <<early, seen, link, signalled, available>>
    BY <1>5 DEF Answer, Unavailable, Fail, ScanFails, store, drain, health, history
  <2>3. torn' \subseteq Keys /\ faults' \in 0..MaxFaults
    BY <1>0, <1>5 DEF Answer, Unavailable, Fail, ScanFails, history, TypeOK
  <2>4. TypeOK'
    BY <2>1, <2>2, <2>3 DEF TypeOK
  <2> QED
    BY <2>1, <2>2, <2>4, OneMoves
<1> QED
  BY <1>1, <1>2, <1>3, <1>4, <1>5

LEMMA BeginStep ==
  ASSUME TypeInv, NEW c \in Clients, NEW kind \in {"insert", "update", "read", "scan"},
         NEW k \in Keys, Begin(c, kind, k)
  PROVE  /\ TypeInv' /\ Others(c)
         /\ op'[c] = [kind |-> kind, key |-> k, at |-> First(kind, k), lo |-> floor[k], val |-> 0]
<1> USE DEF TypeInv
<1> DEFINE o == [kind |-> kind, key |-> k, at |-> First(kind, k), lo |-> floor[k], val |-> 0]
<1>1. /\ First(kind, k) \in {"check", "write", "get"}
      /\ First(kind, k) = "get" <=> kind \in {"read", "scan"}
      /\ First(kind, k) = "check" => kind = "insert"
  BY DEF First
<1>2. o \in Ops
  BY <1>1 DEF Ops, TypeOK, Values
<1>3. op' \in [Clients -> Ops] /\ Others(c) /\ op'[c] = o
  BY <1>2 DEF Begin, Others, TypeOK
<1>4. /\ UNCHANGED <<kv, timed, members, log, trimmed, executed, db, writes, floor>>
      /\ UNCHANGED <<seen, torn, link, signalled, available, faults>>
      /\ early' \subseteq Keys
  BY DEF Begin, store, drain, health, TypeOK
<1>5. TypeOK'
  BY <1>3, <1>4 DEF TypeOK
<1>6. OpInv'
  BY <1>1, <1>3 DEF OpInv, Others
<1>7. Writing(c)' => kind \in {"insert", "update"}
  BY <1>3 DEF Writing
<1>8. BoundInv'
  BY <1>3, <1>4, <1>7, BoundBegun DEF Begin
<1> QED
  BY <1>3, <1>5, <1>6, <1>8

\* The steps of Redis, the drainer and the process.
LEMMA WorldStep ==
  ASSUME TypeInv,
         \/ \E k \in Keys : Expire(k)
         \/ Execute \/ Trim \/ Redeliver
         \/ Disconnect \/ OnErrorSend \/ OnErrorStore \/ Restart \/ Crash
  PROVE  TypeInv'
<1> USE DEF TypeInv
<1>0. /\ faults \in Nat /\ (faults < MaxFaults => faults + 1 \in 0..MaxFaults)
      /\ executed \in Nat /\ trimmed \in Nat /\ Len(log) \in Nat
      /\ trimmed <= executed /\ executed <= Len(log)
  BY DEF TypeOK
<1>1. ASSUME UNCHANGED <<op, writes>> PROVE OpInv' /\ BoundInv'
  BY <1>1 DEF OpInv, BoundInv, Writing
<1>2. ASSUME NEW k \in Keys, Expire(k) PROVE TypeInv'
  <2>1. kv' \in [Keys -> Values] /\ timed' \subseteq {x \in Keys : kv'[x] # 0}
    BY <1>2 DEF Expire, TypeOK, Values
  <2>2. TypeOK'
    BY <1>2, <2>1 DEF Expire, TypeOK, drain, history, health
  <2> QED
    BY <1>1, <1>2, <2>2 DEF Expire
<1>3. CASE Execute
  <2>1. log[executed + 1] \in Entries
    BY <1>0, <1>3 DEF Execute, TypeOK
  <2>2. db' \in [Keys -> Values] /\ executed' \in 0..Len(log) /\ trimmed \in 0..executed'
    BY <1>0, <1>3, <2>1 DEF Execute, TypeOK, Entries
  <2>3. TypeOK'
    BY <1>3, <2>2 DEF Execute, TypeOK, store, history, health
  <2> QED
    BY <1>1, <1>3, <2>3 DEF Execute
<1>4. CASE Trim \/ Redeliver
  <2>1. executed' \in 0..Len(log) /\ trimmed' \in 0..executed' /\ faults' \in 0..MaxFaults
    BY <1>0, <1>4 DEF Trim, Redeliver, TypeOK
  <2>2. TypeOK'
    BY <1>4, <2>1 DEF Trim, Redeliver, TypeOK, store, history, health
  <2> QED
    BY <1>1, <1>4, <2>2 DEF Trim, Redeliver
<1>5. CASE Disconnect \/ OnErrorSend \/ OnErrorStore
  <2>1. TypeOK'
    BY <1>0, <1>5 DEF Disconnect, OnErrorSend, OnErrorStore, TypeOK, store, drain, history
  <2> QED
    BY <1>1, <1>5, <2>1 DEF Disconnect, OnErrorSend, OnErrorStore
<1>6. CASE Restart \/ Crash
  <2>1. op' \in [Clients -> Ops] /\ \A c \in Clients : op'[c] = Idle
    BY <1>6, IdleType DEF Restart, Crash, Restarted
  <2>2. torn' \subseteq Keys /\ faults' \in 0..MaxFaults
    BY <1>0, <1>6 DEF Restart, Crash, Restarted, TypeOK, Ops
  <2>3. TypeOK'
    BY <1>6, <2>1, <2>2 DEF Restart, Crash, Restarted, TypeOK, store, drain
  <2>4. OpInv'
    BY <2>1, IdleType DEF OpInv
  <2>5. \A c \in Clients : ~Writing(c)'
    BY <2>1, IdleType DEF Writing
  <2> QED
    BY <1>6, <2>3, <2>4, <2>5, BoundKept DEF Restart, Crash, Restarted
<1> QED
  BY <1>2, <1>3, <1>4, <1>5, <1>6

\* The steps one by one: of a client, of Redis, of the drainer, of the process.
LEMMA StepCases ==
  ASSUME [Next]_vars
  PROVE  \/ UNCHANGED vars
         \/ \E c \in Clients, kind \in {"insert", "update", "read", "scan"}, k \in Keys :
              Begin(c, kind, k)
         \/ \E c \in Clients :
              SetHashFields(c) \/ SetHashFieldIfNotExist(c) \/ SetKeyIfNotExist(c)
         \/ \E c \in Clients :
              \/ Check(c) \/ SetExpiry(c) \/ Push(c) \/ PushLost(c) \/ Get(c) \/ DatabaseGet(c)
              \/ Answer(c) \/ Fail(c) \/ ScanFails(c) \/ Unavailable(c)
         \/ \E k \in Keys : Expire(k)
         \/ Execute \/ Trim \/ Redeliver
         \/ Disconnect \/ OnErrorSend \/ OnErrorStore \/ Restart \/ Crash
  BY DEF Next, Step

LEMMA TypeInvStep ==
  ASSUME TypeInv, [Next]_vars
  PROVE  TypeInv'
<1>1. CASE UNCHANGED vars
  BY <1>1 DEF TypeInv, TypeOK, OpInv, BoundInv, Writing, vars, store, drain, history, health
<1> QED
  BY <1>1, StepCases, BeginStep, StoreStep, OperationStep, WorldStep

LEMMA TypeInvariant == Spec => []TypeInv
<1>1. Init => TypeInv
  <2> SUFFICES ASSUME Init PROVE TypeInv
    OBVIOUS
  <2>1. TypeOK
    <3>1. 0 \in Values /\ <<>> \in Seq(Entries) /\ Len(<<>>) = 0
      BY DEF Values
    <3>2. op \in [Clients -> Ops]
      BY IdleType DEF Init
    <3>3. 0 \in 0..0 /\ 0 \in 0..MaxFaults
      OBVIOUS
    <3> QED
      BY <3>1, <3>2, <3>3 DEF Init, TypeOK
  <2>2. OpInv
    BY IdleType DEF Init, OpInv
  <2>3. {c \in Clients : Writing(c)} = {}
    BY IdleType DEF Init, Writing
  <2>4. BoundInv
    <3>1. Cardinality({c \in Clients : Writing(c)}) = 0 /\ writes = 0
      BY <2>3, FS_EmptySet DEF Init
    <3> QED
      BY <3>1 DEF BoundInv
  <2> QED
    BY <2>1, <2>2, <2>4 DEF TypeInv
<1>2. TypeInv /\ [Next]_vars => TypeInv'
  BY TypeInvStep
<1> QED
  BY <1>1, <1>2, PTL DEF Spec

\* Type correctness: no more values are written than the bound allows, whatever
\* the clients do, only what exists expires, and the drainer stays within what
\* the stream holds.
THEOREM KvTyping == Spec => []TypeOK
<1>1. TypeInv => TypeOK
  BY DEF TypeInv
<1> QED
  BY <1>1, TypeInvariant, PTL

-----------------------------------------------------------------------------
(* One insert for each unique constraint                                   *)

\* An entry is appended to the stream.
Appended(e) == log' = Append(log, e)

LEMMA AppendedLog ==
  ASSUME TypeOK, NEW e, Appended(e)
  PROVE  /\ Len(log) \in Nat /\ Len(log') = Len(log) + 1
         /\ \A i \in 1..Len(log) : i \in 1..Len(log') /\ log'[i] = log[i]
         /\ Len(log) + 1 \in 1..Len(log') /\ log'[Len(log) + 1] = e
         /\ \A i \in 1..Len(log') : i \in 1..Len(log) \/ i = Len(log) + 1
  BY DEF Appended, TypeOK

\* The insert has passed check_for_constraints and is not in the stream yet.
Holds(c) ==
  /\ op[c].kind = "insert"
  /\ op[c].at \in {"expire", "push"} \/ (op[c].at = "write" /\ op[c].key \in HashKeys)

\* The inserts of the stream.
Inserts == {i \in 1..Len(log) : log[i].kind = "insert"}

\* The constraint of an insert that has passed its check is a member of the set
\* Redis keeps, and no other insert has or had it.
UniqueInv ==
  /\ \A i \in Inserts : Constraint[log[i].key] \in members
  /\ \A c \in Clients : Holds(c) => Constraint[op[c].key] \in members
  /\ \A c, d \in Clients :
       Holds(c) /\ Holds(d) /\ Constraint[op[c].key] = Constraint[op[d].key] => c = d
  /\ \A c \in Clients, i \in Inserts :
       Holds(c) => Constraint[op[c].key] # Constraint[log[i].key]
  /\ UniqueInserted

\* No insert passes its check and none enters the stream.
LEMMA UniqueKept ==
  ASSUME UniqueInv, log' = log, members' = members,
         \A c \in Clients : Holds(c)' => Holds(c) /\ op'[c].key = op[c].key
  PROVE  UniqueInv'
<1>1. Inserts' = Inserts
  BY DEF Inserts
<1> QED
  BY <1>1 DEF UniqueInv, UniqueInserted

LEMMA UniqueChecked ==
  ASSUME TypeInv, UniqueInv, NEW c \in Clients, Check(c)
  PROVE  UniqueInv'
<1> DEFINE x == Constraint[op[c].key]
<1>1. /\ Others(c) /\ SameOp(c) /\ op'[c].at \in {"error", "write", "push"}
      /\ op'[c].at # "error" => x \notin members
  BY CheckOp DEF TypeInv
<1>2. log' = log /\ Inserts' = Inserts /\ members' = members \cup {x}
  BY DEF Check, drain, Inserts
<1>3. Holds(c)' => x \notin members /\ op'[c].key = op[c].key
  BY <1>1 DEF Holds, SameOp
<1>4. \A d \in Clients : d # c => (Holds(d)' <=> Holds(d)) /\ op'[d].key = op[d].key
  BY <1>1 DEF Holds, Others
<1> HIDE DEF x
<1>5. \A i \in Inserts : Constraint[log[i].key] \in members
  BY DEF UniqueInv
<1>6. \A d \in Clients : Holds(d)' => Constraint[op'[d].key] \in members'
  BY <1>2, <1>3, <1>4 DEF UniqueInv, x
<1>7. \A d, e \in Clients :
        Holds(d)' /\ Holds(e)' /\ Constraint[op'[d].key] = Constraint[op'[e].key] => d = e
  BY <1>3, <1>4 DEF UniqueInv, x
<1>8. \A d \in Clients, i \in Inserts : Holds(d)' => Constraint[op'[d].key] # Constraint[log[i].key]
  BY <1>3, <1>4, <1>5 DEF UniqueInv, x
<1>9. UniqueInserted'
  BY <1>2 DEF UniqueInv, UniqueInserted
<1> QED
  BY <1>2, <1>5, <1>6, <1>7, <1>8, <1>9 DEF UniqueInv

LEMMA UniquePushed ==
  ASSUME TypeInv, UniqueInv, NEW c \in Clients, Push(c) \/ PushLost(c)
  PROVE  UniqueInv'
<1> DEFINE n == Len(log) + 1
           e == Entry(op[c].kind, op[c].key, op[c].val)
<1>1. /\ At(c, "push") /\ members' = members /\ Appended(e)
  BY DEF Push, PushLost, store, Appended
<1>2. op[c].kind \in {"insert", "update"}
  BY <1>1 DEF At, TypeInv, OpInv
<1>3. Others(c) /\ op'[c].at \in {"error", "done"}
  BY GotoOp, IdleOp, IdleType DEF Push, PushLost, Steps, TypeInv, TypeOK
<1>4. /\ Len(log) \in Nat /\ Len(log') = Len(log) + 1
      /\ \A i \in 1..Len(log) : i \in 1..Len(log') /\ log'[i] = log[i]
      /\ n \in 1..Len(log') /\ log'[n] = e
      /\ \A i \in 1..Len(log') : i \in 1..Len(log) \/ i = n
  BY <1>1, AppendedLog DEF TypeInv
<1>5. e.kind = op[c].kind /\ e.key = op[c].key
  BY DEF Entry
<1> HIDE DEF n, e
<1>6. \A i \in Inserts' : (i \in Inserts /\ log'[i] = log[i]) \/ (i = n /\ log'[i] = e /\ Holds(c))
  BY <1>1, <1>4, <1>5 DEF Inserts, Holds, At
<1>7. ~Holds(c)' /\ \A d \in Clients : d # c => (Holds(d)' <=> Holds(d)) /\ op'[d].key = op[d].key
  BY <1>3 DEF Holds, Others
<1>8. /\ \A i \in Inserts' : Constraint[log'[i].key] \in members'
      /\ \A d \in Clients : Holds(d)' => Constraint[op'[d].key] \in members'
  BY <1>1, <1>5, <1>6, <1>7 DEF UniqueInv
<1>9. \A d, f \in Clients :
        Holds(d)' /\ Holds(f)' /\ Constraint[op'[d].key] = Constraint[op'[f].key] => d = f
  BY <1>7 DEF UniqueInv
<1>10. \A d \in Clients, i \in Inserts' :
         Holds(d)' => Constraint[op'[d].key] # Constraint[log'[i].key]
  BY <1>5, <1>6, <1>7 DEF UniqueInv
<1>11. UniqueInserted'
  <2> SUFFICES ASSUME NEW i \in Inserts', NEW j \in Inserts', i # j
               PROVE  Constraint[log'[i].key] # Constraint[log'[j].key]
    BY DEF UniqueInserted, Inserts
  <2>1. CASE i \in Inserts /\ j \in Inserts
    BY <1>4, <2>1 DEF UniqueInv, UniqueInserted, Inserts
  <2>2. CASE i \in Inserts /\ log'[i] = log[i] /\ j = n /\ log'[j] = e /\ Holds(c)
    BY <1>5, <2>2 DEF UniqueInv
  <2>3. CASE j \in Inserts /\ log'[j] = log[j] /\ i = n /\ log'[i] = e /\ Holds(c)
    BY <1>5, <2>3 DEF UniqueInv
  <2> QED
    BY <1>6, <2>1, <2>2, <2>3
<1> QED
  BY <1>8, <1>9, <1>10, <1>11 DEF UniqueInv

LEMMA UniqueStep ==
  ASSUME TypeInv, UniqueInv, [Next]_vars
  PROVE  UniqueInv'
<1>0. op \in [Clients -> Ops] /\ OpInv
  BY DEF TypeInv, TypeOK
<1>1. ASSUME UNCHANGED <<log, members, op>> PROVE UniqueInv'
  BY <1>1, UniqueKept DEF Holds
<1>2. ASSUME NEW c \in Clients, Others(c), UNCHANGED <<log, members>>,
             Holds(c)' => Holds(c) /\ op'[c].key = op[c].key
      PROVE  UniqueInv'
  BY <1>2, UniqueKept DEF Holds, Others
<1>3. ASSUME NEW c \in Clients, NEW kind \in {"insert", "update", "read", "scan"},
             NEW k \in Keys, Begin(c, kind, k)
      PROVE  UniqueInv'
  <2>1. /\ Others(c)
        /\ op'[c] = [kind |-> kind, key |-> k, at |-> First(kind, k), lo |-> floor[k], val |-> 0]
    BY <1>3, BeginStep
  <2>2. ~Holds(c)'
    BY <2>1 DEF Holds, First
  <2> QED
    BY <1>2, <1>3, <2>1, <2>2 DEF Begin, store, drain
<1>4. ASSUME NEW c \in Clients,
             SetHashFields(c) \/ SetHashFieldIfNotExist(c) \/ SetKeyIfNotExist(c)
      PROVE  UniqueInv'
  <2>1. PICK set \in BOOLEAN, next \in {"expire", "check"} :
          /\ At(c, "write") /\ Stored(c, set, next)
          /\ op[c].kind = "insert" => next = "check" \/ op[c].key \in HashKeys
    BY <1>4 DEF SetHashFields, SetHashFieldIfNotExist, SetKeyIfNotExist
  <2>2. Others(c) /\ SameOp(c) /\ op'[c].at = next
    BY <2>1, StoredOp DEF Steps, TypeInv
  <2>3. Holds(c)' => Holds(c) /\ op'[c].key = op[c].key
    BY <2>1, <2>2 DEF Holds, At, SameOp
  <2> QED
    BY <1>2, <2>1, <2>2, <2>3 DEF Stored, drain
<1>5. ASSUME NEW c \in Clients, SetExpiry(c) PROVE UniqueInv'
  <2>1. Others(c) /\ SameOp(c) /\ At(c, "expire")
    BY <1>0, <1>5, GotoOp DEF SetExpiry, Steps
  <2> QED
    BY <1>2, <1>5, <2>1 DEF SetExpiry, drain, Holds, At, SameOp
<1>6. ASSUME NEW c \in Clients, Get(c) \/ DatabaseGet(c) PROVE UniqueInv'
  <2>1. /\ Others(c) /\ UNCHANGED <<log, members>>
    BY <1>6 DEF Get, DatabaseGet, Goto, store, drain, Others, TypeInv, TypeOK
  <2>2. op'[c].at \in {"done", "db"}
    BY <1>0, <1>6 DEF Get, DatabaseGet, Goto, Ops
  <2> QED
    BY <1>2, <2>1, <2>2 DEF Holds
<1>7. ASSUME NEW c \in Clients, Answer(c) \/ Fail(c) \/ ScanFails(c) \/ Unavailable(c)
      PROVE  UniqueInv'
  <2>1. Others(c) /\ op'[c].at \in {"error", "done", "db"}
    BY <1>0, <1>7, GotoOp, IdleOp, IdleType DEF Answer, Unavailable, Fail, ScanFails, Steps
  <2> QED
    BY <1>2, <1>7, <2>1 DEF Holds, Answer, Unavailable, Fail, ScanFails, store, drain
<1>8. CASE \/ \E k \in Keys : Expire(k)
           \/ Execute \/ Trim \/ Redeliver \/ Disconnect \/ OnErrorSend \/ OnErrorStore
           \/ UNCHANGED vars
  BY <1>1, <1>8 DEF Expire, Execute, Trim, Redeliver, Disconnect, OnErrorSend, OnErrorStore,
    vars, store, drain
<1>9. CASE Restart \/ Crash
  <2>1. UNCHANGED <<log, members>> /\ \A c \in Clients : op'[c] = Idle
    BY <1>9 DEF Restart, Crash, Restarted, store, drain
  <2>2. \A c \in Clients : ~Holds(c)'
    BY <2>1, IdleType DEF Holds
  <2> QED
    BY <2>1, <2>2, UniqueKept
<1> QED
  BY <1>3, <1>4, <1>5, <1>6, <1>7, <1>8, <1>9, StepCases, UniqueChecked, UniquePushed

LEMMA UniqueInvariant == Spec => [](TypeInv /\ UniqueInv)
<1>1. Init => UniqueInv
  BY IdleType DEF Init, UniqueInv, UniqueInserted, Inserts, Holds
<1>2. TypeInv /\ UniqueInv /\ [Next]_vars => UniqueInv'
  BY UniqueStep
<1> QED
  BY <1>1, <1>2, TypeInvariant, PTL DEF Spec

\* The stream never holds two inserts with the same unique constraint, for any
\* number of clients and records, whatever fails and whatever Redis forgets:
\* the set of the constraints is never pruned, and SADD lets one insert pass.
THEOREM InsertedOnce == Spec => []UniqueInserted
<1>1. UniqueInv => UniqueInserted
  BY DEF UniqueInv
<1> QED
  BY <1>1, UniqueInvariant, PTL

-----------------------------------------------------------------------------
(* What Redis shows is in the stream or on its way to it                   *)

\* The value of the record is in the stream.
InLog(k, v) == \E i \in 1..Len(log) : log[i].key = k /\ log[i].val = v

\* A client has it still to push.
InHand(c, k, v) == Pending(c) /\ op[c].key = k /\ op[c].val = v

\* It was left there by a SetNx whose constraint was taken.
LeftBehind(k) == k \in PlainKeys /\ Constraint[k] \in members

\* One of these holds of the value.
Accounted(k, v) ==
  InLog(k, v) \/ LeftBehind(k) \/ \E c \in Clients : InHand(c, k, v)

\* RedisIsLogged, in these terms.
LEMMA LoggedMeans ==
  RedisIsLogged <=> \A k \in Keys \ torn : \A v : v # 0 /\ kv[k] = v => Accounted(k, v)
  BY DEF RedisIsLogged, Accounted, InLog, InHand, LeftBehind

\* One client moves and Redis keeps its values.
LEMMA LoggedMove ==
  ASSUME RedisIsLogged, NEW c \in Clients, Others(c), kv' = kv, torn \subseteq torn',
         members \subseteq members', \A k, v : InLog(k, v) => InLog(k, v)',
         \A k, v : InHand(c, k, v) =>
                     InHand(c, k, v)' \/ InLog(k, v)' \/ k \in torn' \/ LeftBehind(k)'
  PROVE  RedisIsLogged'
<1>1. \A d \in Clients : d # c => \A k, v : InHand(d, k, v) => InHand(d, k, v)'
  BY DEF Others, InHand, Pending
<1>2. ASSUME NEW k \in Keys \ torn', NEW v, v # 0, kv'[k] = v PROVE Accounted(k, v)'
  <2>1. Accounted(k, v)
    BY <1>2, LoggedMeans
  <2>2. LeftBehind(k) => LeftBehind(k)'
    BY DEF LeftBehind
  <2> QED
    BY <1>1, <1>2, <2>1, <2>2 DEF Accounted
<1> QED
  BY <1>2 DEF RedisIsLogged, Accounted, InLog, InHand, LeftBehind

\* What is in the stream stays there.
LEMMA InLogStays ==
  ASSUME TypeOK, log' = log \/ \E e : Appended(e)
  PROVE  \A k, v : InLog(k, v) => InLog(k, v)'
<1>1. CASE log' = log
  BY <1>1 DEF InLog
<1>2. ASSUME NEW e, Appended(e) PROVE \A k, v : InLog(k, v) => InLog(k, v)'
  <2>1. \A i \in 1..Len(log) : i \in 1..Len(log') /\ log'[i] = log[i]
    BY <1>2, AppendedLog
  <2> QED
    BY <2>1 DEF InLog
<1> QED
  BY <1>1, <1>2

LEMMA LoggedStored ==
  ASSUME TypeInv, RedisIsLogged, NEW c \in Clients,
         SetHashFields(c) \/ SetHashFieldIfNotExist(c) \/ SetKeyIfNotExist(c)
  PROVE  RedisIsLogged'
<1>1. PICK set \in BOOLEAN, next \in {"expire", "check"} :
        At(c, "write") /\ Stored(c, set, next)
  BY DEF SetHashFields, SetHashFieldIfNotExist, SetKeyIfNotExist
<1>2. /\ op' \in [Clients -> Ops] /\ Others(c) /\ SameOp(c) /\ op'[c].at = next
      /\ op'[c].val = IF set THEN writes + 1 ELSE 0
      /\ kv'[op[c].key] = IF set THEN writes + 1 ELSE kv[op[c].key]
      /\ \A k \in Keys : k # op[c].key => kv'[k] = kv[k]
  BY <1>1, StoredOp DEF Steps, TypeInv
<1>3. /\ UNCHANGED <<log, members, torn>> /\ writes + 1 # 0
      /\ op[c].key \in Keys /\ op[c].kind \in {"insert", "update"}
  BY <1>1 DEF Stored, drain, history, TypeInv, TypeOK, Ops, OpInv, At, Values
<1>4. ASSUME NEW k \in Keys \ torn', NEW v, v # 0, kv'[k] = v PROVE Accounted(k, v)'
  <2>1. CASE set /\ k = op[c].key
    <3>1. InHand(c, k, v)'
      BY <1>2, <1>3, <1>4, <2>1 DEF InHand, Pending, SameOp
    <3> QED
      BY <3>1 DEF Accounted
  <2>2. CASE ~(set /\ k = op[c].key)
    <3>1. Accounted(k, v)
      BY <1>2, <1>3, <1>4, <2>2, LoggedMeans
    <3>2. \A d \in Clients : InHand(d, k, v) => InHand(d, k, v)'
      BY <1>1, <1>2 DEF Others, InHand, Pending, At
    <3>3. (InLog(k, v) => InLog(k, v)') /\ (LeftBehind(k) => LeftBehind(k)')
      BY <1>3 DEF InLog, LeftBehind
    <3> QED
      BY <3>1, <3>2, <3>3 DEF Accounted
  <2> QED
    BY <2>1, <2>2
<1> QED
  BY <1>4 DEF RedisIsLogged, Accounted, InLog, InHand, LeftBehind

LEMMA LoggedStep ==
  ASSUME TypeInv, RedisIsLogged, [Next]_vars
  PROVE  RedisIsLogged'
<1>0. op \in [Clients -> Ops] /\ OpInv /\ TypeOK /\ \A c \in Clients : op[c].key \in Keys
  BY DEF TypeInv, TypeOK, Ops
<1>1. ASSUME UNCHANGED <<log, members, op, torn>>,
             \A k \in Keys : kv'[k] \in {0, kv[k]}
      PROVE  RedisIsLogged'
  <2> SUFFICES ASSUME NEW k \in Keys \ torn, kv'[k] # 0, kv'[k] = kv[k]
               PROVE  \/ \E i \in 1..Len(log') : log'[i].key = k /\ log'[i].val = kv'[k]
                      \/ \E c \in Clients : Pending(c)' /\ op'[c].key = k /\ op'[c].val = kv'[k]
                      \/ k \in PlainKeys /\ Constraint[k] \in members'
    BY <1>1 DEF RedisIsLogged
  <2> QED
    BY <1>1 DEF RedisIsLogged, Pending
<1>2. ASSUME NEW c \in Clients, Others(c), UNCHANGED <<kv, log>>, members \subseteq members',
             torn \subseteq torn',
             \A k, v : InHand(c, k, v) => InHand(c, k, v)' \/ k \in torn' \/ LeftBehind(k)'
      PROVE  RedisIsLogged'
  <2>1. \A k, v : InLog(k, v) => InLog(k, v)'
    BY <1>2 DEF InLog
  <2> QED
    BY <1>2, <2>1, LoggedMove
<1>3. ASSUME NEW c \in Clients, NEW kind \in {"insert", "update", "read", "scan"},
             NEW k \in Keys, Begin(c, kind, k)
      PROVE  RedisIsLogged'
  <2>1. Others(c) /\ \A x, v : ~InHand(c, x, v)
    BY <1>3, BeginStep DEF Begin, At, InHand, Pending
  <2> QED
    BY <1>2, <1>3, <2>1 DEF Begin, store, drain
<1>4. ASSUME NEW c \in Clients, Check(c) PROVE RedisIsLogged'
  <2>1. /\ Others(c) /\ SameOp(c) /\ op'[c].val = op[c].val
        /\ op'[c].at \in {"error", "write", "push"}
        /\ op'[c].at = "write" => op[c].key \in HashKeys
    BY <1>0, <1>4, CheckOp
  <2>2. Constraint[op[c].key] \in members' /\ members \subseteq members' /\ torn' = torn
    BY <1>4 DEF Check, history
  <2>3. \A k, v : InHand(c, k, v) => InHand(c, k, v)' \/ LeftBehind(k)'
    BY <1>0, <1>4, <2>1, <2>2 DEF Check, At, OpInv, InHand, Pending, SameOp, LeftBehind
  <2> QED
    BY <1>2, <1>4, <2>1, <2>2, <2>3 DEF Check, drain
<1>5. ASSUME NEW c \in Clients, SetExpiry(c) PROVE RedisIsLogged'
  <2>1. /\ Others(c) /\ SameOp(c) /\ op'[c].val = op[c].val
        /\ op'[c].at = IF op[c].val # 0 THEN "push" ELSE "error"
    BY <1>0, <1>5, GotoOp DEF SetExpiry, Steps
  <2>2. \A k, v : InHand(c, k, v) => InHand(c, k, v)'
    BY <2>1 DEF InHand, Pending, SameOp
  <2> QED
    BY <1>2, <1>5, <2>1, <2>2 DEF SetExpiry, drain, history
<1>6. ASSUME NEW c \in Clients, Push(c) \/ PushLost(c) PROVE RedisIsLogged'
  <2> DEFINE e == Entry(op[c].kind, op[c].key, op[c].val)
  <2>1. Appended(e) /\ UNCHANGED <<kv, members, torn>>
    BY <1>6 DEF Push, PushLost, store, history, Appended
  <2>2. Others(c)
    BY <1>0, <1>6, GotoOp, IdleOp DEF Push, PushLost, Steps
  <2>3. \A k, v : InLog(k, v) => InLog(k, v)'
    BY <1>0, <2>1, InLogStays
  <2>4. Len(log) + 1 \in 1..Len(log') /\ log'[Len(log) + 1] = e
    BY <1>0, <2>1, AppendedLog
  <2>5. \A k, v : InHand(c, k, v) => InLog(k, v)'
    BY <2>4 DEF InHand, InLog, Entry
  <2> QED
    BY <2>1, <2>2, <2>3, <2>5, LoggedMove
<1>7. ASSUME NEW c \in Clients,
             Get(c) \/ DatabaseGet(c) \/ Answer(c) \/ ScanFails(c) \/ Unavailable(c)
      PROVE  RedisIsLogged'
  <2>1. Others(c)
    BY <1>7 DEF Get, DatabaseGet, Answer, ScanFails, Unavailable, Goto, Others, TypeInv, TypeOK
  <2>2. \A k, v : ~InHand(c, k, v)
    BY <1>7 DEF Get, DatabaseGet, Answer, ScanFails, Unavailable, At, InHand, Pending
  <2> QED
    BY <1>2, <1>7, <2>1, <2>2 DEF Get, DatabaseGet, Answer, ScanFails, Unavailable, store,
      drain, history
<1>8. ASSUME NEW c \in Clients, Fail(c) PROVE RedisIsLogged'
  <2>1. Others(c)
    BY <1>0, <1>8, GotoOp DEF Fail, Steps
  <2>2. \A k, v : InHand(c, k, v) => k \in torn'
    BY <1>8 DEF Fail, InHand
  <2> QED
    BY <1>2, <1>8, <2>1, <2>2 DEF Fail, store, drain
<1>9. CASE \/ \E k \in Keys : Expire(k)
           \/ Execute \/ Trim \/ Redeliver \/ Disconnect \/ OnErrorSend \/ OnErrorStore
           \/ UNCHANGED vars
  <2>1. UNCHANGED <<log, members, op, torn>>
    BY <1>9 DEF Expire, Execute, Trim, Redeliver, Disconnect, OnErrorSend, OnErrorStore,
      vars, store, drain, history
  <2>2. \A k \in Keys : kv'[k] \in {0, kv[k]}
    BY <1>0, <1>9 DEF Expire, Execute, Trim, Redeliver, Disconnect, OnErrorSend,
      OnErrorStore, vars, store, TypeOK
  <2> QED
    BY <1>1, <2>1, <2>2
<1>10. CASE Restart \/ Crash
  <2>1. /\ UNCHANGED <<kv, log, members>>
        /\ torn' = torn \cup {op[c].key : c \in {d \in Clients : Pending(d)}}
    BY <1>10 DEF Restart, Crash, Restarted, store, drain
  <2> QED
    BY <2>1 DEF RedisIsLogged
<1> QED
  BY <1>3, <1>4, <1>5, <1>6, <1>7, <1>8, <1>9, <1>10, StepCases, LoggedStored

\* What Redis shows of a record is in the stream or on its way to it, for any
\* number of clients and records, unless its write failed half way or a plain key
\* was left behind by an insert whose constraint was taken.
THEOREM ShownIsLogged == Spec => []RedisIsLogged
<1>1. Init => RedisIsLogged
  BY DEF Init, RedisIsLogged
<1>2. TypeInv /\ RedisIsLogged /\ [Next]_vars => RedisIsLogged'
  BY LoggedStep
<1> QED
  BY <1>1, <1>2, TypeInvariant, PTL DEF Spec

-----------------------------------------------------------------------------
(* The rows of the database                                                *)

\* The insert of the record is its first entry.
Origin(k, i) ==
  /\ i \in Inserts /\ log[i].key = k
  /\ \A j \in 1..(i - 1) : log[j].key # k

\* A row is there once an entry of the record was executed; it began with the
\* insert of the record and, unless updates overtook each other, it is at least
\* as new as every executed entry.  The drainer may execute an entry again.
DbInv ==
  /\ \A k \in Keys : \A i \in 1..executed : log[i].key = k => db[k] # 0
  /\ \A k \in Keys : db[k] # 0 =>
       \E i \in Inserts : Origin(k, i) /\ (~Overtaken(k) => log[i].val <= db[k])
  /\ \A k \in Keys : ~Overtaken(k) =>
       \A i \in 1..executed : log[i].key = k => log[i].val <= db[k]

\* What a step may do to the stream and to the database.
LEMMA DrainCases ==
  ASSUME [Next]_vars
  PROVE  \/ UNCHANGED drain
         \/ \E c \in Clients :
              /\ Push(c) \/ PushLost(c)
              /\ Appended(Entry(op[c].kind, op[c].key, op[c].val))
              /\ UNCHANGED <<trimmed, executed, db>>
         \/ Execute \/ Trim \/ Redeliver
<1>1. ASSUME NEW c \in Clients, NEW kind \in {"insert", "update", "read", "scan"},
             NEW k \in Keys, Begin(c, kind, k)
      PROVE  UNCHANGED drain
  BY <1>1 DEF Begin
<1>2. ASSUME NEW c \in Clients,
             \/ SetHashFields(c) \/ SetHashFieldIfNotExist(c) \/ SetKeyIfNotExist(c)
             \/ Check(c) \/ SetExpiry(c) \/ Get(c) \/ DatabaseGet(c)
             \/ Answer(c) \/ Fail(c) \/ ScanFails(c) \/ Unavailable(c)
      PROVE  UNCHANGED drain
  BY <1>2 DEF SetHashFields, SetHashFieldIfNotExist, SetKeyIfNotExist, Stored, Check,
    SetExpiry, Get, DatabaseGet, Answer, Fail, ScanFails, Unavailable
<1>3. ASSUME NEW c \in Clients, Push(c) \/ PushLost(c)
      PROVE  /\ Appended(Entry(op[c].kind, op[c].key, op[c].val))
             /\ UNCHANGED <<trimmed, executed, db>>
  BY <1>3 DEF Push, PushLost, Appended
<1>4. ASSUME \/ \E k \in Keys : Expire(k)
             \/ Disconnect \/ OnErrorSend \/ OnErrorStore \/ Restart \/ Crash \/ UNCHANGED vars
      PROVE  UNCHANGED drain
  BY <1>4 DEF Expire, Disconnect, OnErrorSend, OnErrorStore, Restart, Crash, Restarted, vars
<1> QED
  BY <1>1, <1>2, <1>3, <1>4, StepCases

\* The numbers of the log, and its values.
LEMMA LogFacts ==
  ASSUME TypeOK
  PROVE  /\ executed \in Nat /\ trimmed \in Nat /\ Len(log) \in Nat
         /\ trimmed <= executed /\ executed <= Len(log)
         /\ \A i \in 1..Len(log) : /\ log[i].key \in Keys /\ log[i].val \in Nat
                                   /\ log[i].val # 0 /\ log[i].kind \in {"insert", "update"}
         /\ \A k \in Keys : kv[k] \in Nat /\ db[k] \in Nat /\ floor[k] \in Nat
         /\ writes \in Nat
         /\ \A c \in Clients : op[c].val \in Nat /\ op[c].lo \in Nat /\ op[c].key \in Keys
<1>1. /\ executed \in Nat /\ trimmed \in Nat /\ Len(log) \in Nat
      /\ trimmed <= executed /\ executed <= Len(log)
  BY DEF TypeOK
<1>2. \A i \in 1..Len(log) : log[i] \in Entries
  BY DEF TypeOK
<1>3. \A i \in 1..Len(log) : /\ log[i].key \in Keys /\ log[i].val \in Nat
                             /\ log[i].val # 0 /\ log[i].kind \in {"insert", "update"}
  BY <1>2 DEF Entries, Values
<1>4. /\ \A k \in Keys : kv[k] \in Nat /\ db[k] \in Nat /\ floor[k] \in Nat
      /\ writes \in Nat
  BY DEF TypeOK, Values
<1>5. \A c \in Clients : op[c].val \in Nat /\ op[c].lo \in Nat /\ op[c].key \in Keys
  BY DEF TypeOK, Ops, Values
<1> QED
  BY <1>1, <1>3, <1>4, <1>5

\* What has overtaken has done so for good, and a record's origin stays.
LEMMA LogGrows ==
  ASSUME TypeOK, NEW e, Appended(e)
  PROVE  /\ \A i \in Inserts : i \in Inserts'
         /\ \A k : Overtaken(k) => Overtaken(k)'
         /\ \A k, i : Origin(k, i) => Origin(k, i)'
<1>1. /\ \A i \in 1..Len(log) : i \in 1..Len(log') /\ log'[i] = log[i]
  BY AppendedLog
<1>2. \A i \in Inserts : i \in Inserts'
  BY <1>1 DEF Inserts
<1>3. \A k : Overtaken(k) => Overtaken(k)'
  BY <1>1 DEF Overtaken
<1>4. ASSUME NEW k, NEW i, Origin(k, i) PROVE Origin(k, i)'
  <2>1. i \in 1..Len(log) /\ Len(log) \in Nat
    BY <1>4 DEF Origin, Inserts, TypeOK
  <2>2. \A j \in 1..(i - 1) : j \in 1..Len(log)
    BY <2>1
  <2> QED
    BY <1>1, <1>2, <1>4, <2>1, <2>2 DEF Origin
<1> QED
  BY <1>2, <1>3, <1>4

LEMMA DbAppended ==
  ASSUME TypeOK, DbInv, NEW e, Appended(e), UNCHANGED <<executed, db>>
  PROVE  DbInv'
<1>1. \A i \in 1..executed : i \in 1..Len(log) /\ log'[i] = log[i]
  BY LogFacts, AppendedLog
<1>2. \A k \in Keys : \A i \in 1..executed : log'[i].key = k => db[k] # 0
  BY <1>1 DEF DbInv
<1>3. ASSUME NEW k \in Keys, db[k] # 0
      PROVE  \E i \in Inserts' : Origin(k, i)' /\ (~Overtaken(k)' => log'[i].val <= db[k])
  <2>1. PICK i \in Inserts : Origin(k, i) /\ (~Overtaken(k) => log[i].val <= db[k])
    BY <1>3 DEF DbInv
  <2>2. i \in Inserts' /\ Origin(k, i)' /\ log'[i] = log[i] /\ (Overtaken(k) => Overtaken(k)')
    BY <2>1, LogGrows, AppendedLog DEF Inserts
  <2> QED
    BY <2>1, <2>2
<1>4. ASSUME NEW k \in Keys, ~Overtaken(k)', NEW i \in 1..executed, log'[i].key = k
      PROVE  log'[i].val <= db[k]
  <2>1. ~Overtaken(k)
    BY <1>4, LogGrows
  <2> QED
    BY <1>1, <1>4, <2>1 DEF DbInv
<1> QED
  BY <1>2, <1>3, <1>4 DEF DbInv

LEMMA DbExecuted ==
  ASSUME TypeOK, UniqueInserted, DbInv, Execute
  PROVE  DbInv'
<1> DEFINE n == executed + 1
           e == log[n]
           x == e.key
<1>1. /\ n \in 1..Len(log) /\ executed' = n /\ log' = log
      /\ x \in Keys /\ e.val \in Nat \ {0} /\ db[x] \in Nat
      /\ e.kind \in {"insert", "update"}
      /\ \A i \in 1..n : i \in 1..executed \/ i = n
      /\ \A i \in 1..executed : i \in 1..Len(log) /\ i < n /\ i \in Nat
  BY LogFacts DEF Execute
<1>2. e.kind = "update" => db[x] # 0
  BY DEF Execute, Blocked
<1>3. /\ \A k \in Keys : k # x => db'[k] = db[k]
      /\ db'[x] = IF e.kind = "insert" /\ db[x] # 0 THEN db[x] ELSE e.val
  BY <1>1 DEF Execute, TypeOK
<1>4. Inserts' = Inserts /\ \A k, i : (Origin(k, i)' <=> Origin(k, i)) /\ (Overtaken(k)' <=> Overtaken(k))
  BY <1>1 DEF Inserts, Origin, Overtaken
<1> HIDE DEF n, e, x
<1>5. \A k \in Keys : \A i \in 1..n : log[i].key = k => db'[k] # 0
  BY <1>1, <1>3 DEF DbInv, e, x
<1>6. ASSUME NEW i \in 1..Len(log), i < n, log[i].key = x, ~Overtaken(x)
      PROVE  log[i].val <= e.val
  <2>1. log[i].val \in Nat /\ log[n].val = e.val /\ log[n].key = x
    BY LogFacts DEF e, x
  <2>2. ~(log[i].val > log[n].val)
    BY <1>1, <1>6, <2>1 DEF Overtaken
  <2> QED
    BY <1>1, <2>1, <2>2
<1>7. db[x] # 0 => \E i \in Inserts : Origin(x, i) /\ (~Overtaken(x) => log[i].val <= db[x])
  BY <1>1 DEF DbInv
<1>8. \E i \in Inserts : Origin(x, i) /\ (~Overtaken(x) => log[i].val <= db'[x])
  <2>1. CASE e.kind = "insert" /\ db[x] # 0
    BY <1>3, <1>7, <2>1
  <2>2. CASE e.kind = "insert" /\ db[x] = 0
    <3>1. n \in Inserts
      BY <1>1, <2>2 DEF Inserts, e
    <3>2. \A j \in 1..(n - 1) : log[j].key # x
      <4>1. \A j \in 1..(n - 1) : j \in 1..executed
        BY LogFacts DEF n
      <4> QED
        BY <1>1, <2>2, <4>1 DEF DbInv
    <3>3. Origin(x, n) /\ log[n].val <= db'[x]
      BY <1>1, <1>3, <2>2, <3>1, <3>2 DEF Origin, e, x
    <3> QED
      BY <3>1, <3>3
  <2>3. CASE e.kind = "update"
    <3>1. PICK i \in Inserts : Origin(x, i)
      BY <1>2, <1>7, <2>3
    <3>2. i \in 1..Len(log) /\ i \in Nat /\ n \in Nat /\ i # n /\ log[i].key = x
      BY <1>1, <2>3, <3>1 DEF Inserts, e, Origin
    <3>3. ~(n < i)
      <4> SUFFICES ASSUME n < i PROVE FALSE
        OBVIOUS
      <4>1. n \in 1..(i - 1) /\ log[n].key = x
        BY <1>1, <3>2 DEF e, x
      <4> QED
        BY <3>1, <4>1 DEF Origin
    <3>4. i < n
      BY <3>2, <3>3
    <3> QED
      BY <1>3, <1>6, <2>3, <3>1, <3>2, <3>4
  <2> QED
    BY <1>1, <2>1, <2>2, <2>3
<1>9. ASSUME NEW i \in 1..n, log[i].key = x, ~Overtaken(x) PROVE log[i].val <= db'[x]
  <2>1. CASE i \in 1..executed /\ db'[x] = db[x]
    BY <1>1, <1>9, <2>1 DEF DbInv
  <2>2. CASE i \in 1..executed /\ db'[x] = e.val
    BY <1>1, <1>6, <1>9, <2>2
  <2>3. CASE i = n /\ db'[x] = e.val
    BY <1>1, <2>3 DEF e
  <2>4. CASE i = n /\ e.kind = "insert" /\ db[x] # 0
    <3>1. PICK j \in Inserts : Origin(x, j) /\ log[j].val <= db[x]
      BY <1>7, <1>9, <2>4
    <3>2. j = n
      BY <1>1, <2>4, <3>1 DEF UniqueInserted, Origin, Inserts, e, x
    <3> QED
      BY <1>3, <2>4, <3>1, <3>2
  <2> QED
    BY <1>1, <1>3, <2>1, <2>2, <2>3, <2>4
<1>10. \A k \in Keys : db'[k] # 0 =>
         \E i \in Inserts : Origin(k, i) /\ (~Overtaken(k) => log[i].val <= db'[k])
  BY <1>3, <1>8 DEF DbInv
<1>11. ASSUME NEW k \in Keys, ~Overtaken(k), NEW i \in 1..n, log[i].key = k
       PROVE  log[i].val <= db'[k]
  <2>1. CASE k = x
    BY <1>9, <1>11, <2>1
  <2>2. CASE k # x
    <3>1. i \in 1..executed
      BY <1>1, <1>11, <2>2 DEF e, x
    <3> QED
      BY <1>3, <1>11, <2>2, <3>1 DEF DbInv
  <2> QED
    BY <2>1, <2>2
<1> QED
  BY <1>1, <1>4, <1>5, <1>10, <1>11 DEF DbInv

LEMMA DbStep ==
  ASSUME TypeInv, UniqueInv, DbInv, [Next]_vars
  PROVE  DbInv'
<1>1. CASE UNCHANGED drain
  BY <1>1 DEF DbInv, drain, Inserts, Origin, Overtaken
<1>2. ASSUME NEW e, Appended(e), UNCHANGED <<trimmed, executed, db>> PROVE DbInv'
  BY <1>2, DbAppended DEF TypeInv
<1>3. CASE Execute
  BY <1>3, DbExecuted DEF TypeInv, UniqueInv
<1>4. CASE Trim \/ Redeliver
  <2>1. UNCHANGED <<log, db>> /\ \A i \in 1..executed' : i \in 1..executed
    BY <1>4, LogFacts DEF Trim, Redeliver, TypeInv
  <2> QED
    BY <2>1 DEF DbInv, Inserts, Origin, Overtaken
<1> QED
  BY <1>1, <1>2, <1>3, <1>4, DrainCases

LEMMA DbInvariant == Spec => [](TypeInv /\ UniqueInv /\ DbInv)
<1>1. Init => DbInv
  BY DEF Init, DbInv
<1>2. TypeInv /\ UniqueInv /\ DbInv /\ [Next]_vars => DbInv'
  BY DbStep
<1> QED
  BY <1>1, <1>2, UniqueInvariant, PTL DEF Spec

-----------------------------------------------------------------------------
(* The stream blocks only at an update that came early                     *)

\* Every step but the begin of an operation leaves the operations what they are
\* or ends them.
LEMMA OpSteps ==
  ASSUME TypeInv, [Next]_vars
  PROVE  \/ \E c \in Clients, kind \in {"insert", "update", "read", "scan"}, k \in Keys :
              Begin(c, kind, k)
         \/ UNCHANGED early /\ \A c \in Clients : SameOp(c) \/ op'[c] = Idle
<1>0. op \in [Clients -> Ops] /\ OpInv /\ BoundInv /\ TypeOK
  BY DEF TypeInv, TypeOK
<1>1. ASSUME NEW c \in Clients, Others(c), SameOp(c) \/ op'[c] = Idle
      PROVE  \A d \in Clients : SameOp(d) \/ op'[d] = Idle
  BY <1>1 DEF Others, SameOp
<1>2. ASSUME NEW c \in Clients,
             SetHashFields(c) \/ SetHashFieldIfNotExist(c) \/ SetKeyIfNotExist(c)
      PROVE  UNCHANGED early /\ Others(c) /\ SameOp(c)
  <2>1. PICK set \in BOOLEAN, next \in {"expire", "check"} :
          At(c, "write") /\ Stored(c, set, next)
    BY <1>2 DEF SetHashFields, SetHashFieldIfNotExist, SetKeyIfNotExist
  <2> QED
    BY <1>0, <2>1, StoredOp DEF Steps, Stored, history
<1>3. ASSUME NEW c \in Clients,
             \/ Check(c) \/ SetExpiry(c) \/ PushLost(c) \/ Fail(c) \/ ScanFails(c)
             \/ Get(c) \/ DatabaseGet(c)
      PROVE  UNCHANGED early /\ Others(c) /\ SameOp(c)
  BY <1>0, <1>3 DEF Check, SetExpiry, PushLost, Fail, ScanFails, Get, DatabaseGet, Goto,
    Others, SameOp, history, Ops
<1>4. ASSUME NEW c \in Clients, Push(c) \/ Answer(c) \/ Unavailable(c)
      PROVE  UNCHANGED early /\ Others(c) /\ op'[c] = Idle
  BY <1>0, <1>4, IdleOp DEF Push, Answer, Unavailable, history
<1>5. ASSUME \/ \E k \in Keys : Expire(k)
             \/ Execute \/ Trim \/ Redeliver \/ Disconnect \/ OnErrorSend \/ OnErrorStore
             \/ UNCHANGED vars
      PROVE  UNCHANGED <<early, op>>
  BY <1>5 DEF Expire, Execute, Trim, Redeliver, Disconnect, OnErrorSend, OnErrorStore, vars,
    history
<1>6. Restart \/ Crash => UNCHANGED early /\ \A c \in Clients : op'[c] = Idle
  BY DEF Restart, Crash, Restarted
<1> QED
  BY <1>1, <1>2, <1>3, <1>4, <1>5, <1>6, StepCases DEF SameOp

\* The stream holds the insert of the record.
HasInsert(k) == \E i \in Inserts : log[i].key = k

\* An update of a record that is not early follows the insert of the record.
EarlyInv ==
  /\ \A k \in Keys \ early : floor[k] # 0 => HasInsert(k)
  /\ \A c \in Clients : \A k \in Keys \ early :
       op[c].kind = "update" /\ op[c].key = k => HasInsert(k)
  /\ \A j \in 1..Len(log) :
       log[j].kind = "update" /\ log[j].key \notin early =>
         \E i \in Inserts : i < j /\ log[i].key = log[j].key

LEMMA EarlyPushed ==
  ASSUME TypeInv, EarlyInv, NEW c \in Clients, Push(c) \/ PushLost(c)
  PROVE  EarlyInv'
<1> DEFINE n == Len(log) + 1
           e == Entry(op[c].kind, op[c].key, op[c].val)
           x == op[c].key
<1>1. Appended(e) /\ UNCHANGED early
  BY DEF Push, PushLost, Appended, history
<1>2. /\ Len(log) \in Nat
      /\ \A i \in 1..Len(log) : i \in 1..Len(log') /\ log'[i] = log[i]
      /\ n \in 1..Len(log') /\ log'[n] = e
      /\ \A i \in 1..Len(log') : i \in 1..Len(log) \/ i = n
  BY <1>1, AppendedLog DEF TypeInv
<1>3. /\ op[c].kind \in {"insert", "update"} /\ x \in Keys
      /\ e.kind = op[c].kind /\ e.key = x
  BY DEF Push, PushLost, At, TypeInv, OpInv, TypeOK, Ops, Entry
<1>4. \A d \in Clients : SameOp(d) \/ op'[d] = Idle
  BY GotoOp, IdleOp DEF Push, PushLost, Steps, TypeInv, TypeOK, Others, SameOp
<1>5. \A k \in Keys : k # x => floor'[k] = floor[k]
  BY DEF Push, PushLost, history, TypeInv, TypeOK
<1> HIDE DEF n, e
<1>6. \A i \in Inserts : i \in Inserts' /\ log'[i] = log[i] /\ i \in 1..Len(log)
  BY <1>2 DEF Inserts
<1>7. ASSUME NEW k, HasInsert(k) PROVE HasInsert(k)'
  BY <1>6, <1>7 DEF HasInsert
<1>8. ASSUME op[c].kind = "update", x \notin early PROVE HasInsert(x)
  BY <1>3, <1>8 DEF EarlyInv
<1>9. ASSUME NEW k \in Keys \ early, k = x PROVE HasInsert(k)'
  <2>1. CASE op[c].kind = "insert"
    <3>1. n \in Inserts' /\ log'[n].key = k
      BY <1>2, <1>3, <1>9, <2>1 DEF Inserts
    <3> QED
      BY <3>1 DEF HasInsert
  <2>2. CASE op[c].kind = "update"
    BY <1>7, <1>8, <1>9, <2>2
  <2> QED
    BY <1>3, <2>1, <2>2
<1>10. \A k \in Keys \ early : floor'[k] # 0 => HasInsert(k)'
  BY <1>5, <1>7, <1>9 DEF EarlyInv
<1>11. \A d \in Clients : \A k \in Keys \ early :
         op'[d].kind = "update" /\ op'[d].key = k => HasInsert(k)'
  BY <1>4, <1>7, IdleType DEF EarlyInv, SameOp
<1>12. ASSUME NEW j \in 1..Len(log'), log'[j].kind = "update", log'[j].key \notin early
       PROVE  \E i \in Inserts' : i < j /\ log'[i].key = log'[j].key
  <2>1. CASE j \in 1..Len(log)
    <3>1. log'[j] = log[j]
      BY <1>2, <2>1
    <3>2. PICK i \in Inserts : i < j /\ log[i].key = log[j].key
      BY <1>12, <2>1, <3>1 DEF EarlyInv
    <3> QED
      BY <1>6, <3>1, <3>2
  <2>2. CASE j = n
    <3>1. HasInsert(x) /\ log'[j].key = x
      BY <1>2, <1>3, <1>8, <1>12, <2>2
    <3>2. PICK i \in Inserts : log[i].key = x
      BY <3>1 DEF HasInsert
    <3>3. i < n
      BY <1>2, <1>6 DEF n
    <3> QED
      BY <1>6, <2>2, <3>1, <3>2, <3>3
  <2> QED
    BY <1>2, <2>1, <2>2
<1> QED
  BY <1>1, <1>10, <1>11, <1>12 DEF EarlyInv

LEMMA EarlyBegun ==
  ASSUME TypeInv, EarlyInv, NEW c \in Clients, NEW k \in Keys,
         NEW kind \in {"insert", "update", "read", "scan"}, Begin(c, kind, k)
  PROVE  EarlyInv'
<1>1. /\ Others(c)
      /\ op'[c] = [kind |-> kind, key |-> k, at |-> First(kind, k), lo |-> floor[k], val |-> 0]
  BY BeginStep
<1>2. /\ UNCHANGED <<log, floor>> /\ early \subseteq early'
      /\ kind = "update" /\ floor[k] = 0 => k \in early'
  BY DEF Begin, drain
<1>3. Inserts' = Inserts /\ \A x : HasInsert(x)' <=> HasInsert(x)
  BY <1>2 DEF Inserts, HasInsert
<1>4. kind = "update" /\ k \notin early' => HasInsert(k)
  BY <1>2 DEF EarlyInv
<1>5. ASSUME NEW d \in Clients, NEW x \in Keys \ early', op'[d].kind = "update", op'[d].key = x
      PROVE  HasInsert(x)'
  BY <1>1, <1>2, <1>3, <1>4, <1>5 DEF EarlyInv, Others
<1> QED
  BY <1>2, <1>3, <1>5 DEF EarlyInv

LEMMA EarlyStep ==
  ASSUME TypeInv, EarlyInv, [Next]_vars
  PROVE  EarlyInv'
<1>1. ASSUME UNCHANGED <<log, floor, early>>, \A c \in Clients : SameOp(c) \/ op'[c] = Idle
      PROVE  EarlyInv'
  <2>1. Inserts' = Inserts /\ \A x : HasInsert(x)' <=> HasInsert(x)
    BY <1>1 DEF Inserts, HasInsert
  <2>2. \A c \in Clients : \A k \in Keys \ early :
          op'[c].kind = "update" /\ op'[c].key = k => HasInsert(k)
    BY <1>1, IdleType DEF EarlyInv, SameOp
  <2> QED
    BY <1>1, <2>1, <2>2 DEF EarlyInv
<1>2. ASSUME ~\E c \in Clients : Push(c) \/ PushLost(c),
             ~\E c \in Clients, kind \in {"insert", "update", "read", "scan"}, k \in Keys :
                Begin(c, kind, k)
      PROVE  UNCHANGED <<log, floor>>
  BY <1>2, StepCases DEF SetHashFields, SetHashFieldIfNotExist, SetKeyIfNotExist, Stored, Check,
    SetExpiry, Get, DatabaseGet, Answer, Fail, ScanFails, Unavailable, Expire, Execute, Trim,
    Redeliver, Disconnect, OnErrorSend, OnErrorStore, Restart, Crash, Restarted, vars, drain,
    history
<1> QED
  BY <1>1, <1>2, OpSteps, EarlyPushed, EarlyBegun

LEMMA EarlyInvariant == Spec => [](TypeInv /\ DbInv /\ EarlyInv)
<1>1. Init => EarlyInv
  BY IdleType DEF Init, EarlyInv
<1>2. TypeInv /\ EarlyInv /\ [Next]_vars => EarlyInv'
  BY EarlyStep
<1> QED
  BY <1>1, <1>2, DbInvariant, PTL DEF Spec

\* The drainer stands before an update without a row only where a client had
\* updated a record before its insert was acknowledged, for any number of
\* clients and records and however often the stream is delivered again.
THEOREM BlockedOnlyEarly == Spec => []BlockedIsEarly
<1>1. TypeInv /\ DbInv /\ EarlyInv => BlockedIsEarly
  <2> SUFFICES ASSUME TypeInv, DbInv, EarlyInv, Blocked, log[executed + 1].key \notin early
               PROVE  FALSE
    BY DEF BlockedIsEarly
  <2> DEFINE n == executed + 1
  <2>1. n \in 1..Len(log) /\ log[n].kind = "update" /\ db[log[n].key] = 0 /\ log[n].key \in Keys
    BY LogFacts DEF Blocked, TypeInv
  <2>2. PICK i \in Inserts : i < n /\ log[i].key = log[n].key
    BY <2>1 DEF EarlyInv
  <2>3. i \in 1..executed
    BY <2>2, LogFacts DEF Inserts, TypeInv
  <2> QED
    BY <2>1, <2>2, <2>3 DEF DbInv
<1> QED
  BY <1>1, EarlyInvariant, PTL

-----------------------------------------------------------------------------
(* What was acknowledged is read                                           *)

\* Redis shows the latest value of a record as long as it shows one; it forgets
\* a record only when the stream has nothing of it any more and no client has
\* something of it to push; what was acknowledged is in the stream.
ValueInv ==
  /\ \A k \in Keys : kv[k] <= writes
  /\ \A k \in Keys, v \in Nat : InLog(k, v) => v <= writes /\ (kv[k] # 0 => v <= kv[k])
  /\ \A c \in Clients : \A k \in Keys, v \in Nat :
       InHand(c, k, v) => v <= writes /\ (kv[k] # 0 => v <= kv[k])
  /\ SafeTTL => \A c \in Clients : \A k \in Keys, v \in Nat : InHand(c, k, v) => kv[k] # 0
  /\ SafeTTL => \A k \in Keys : kv[k] = 0 => ~InStream(k)
  /\ \A k \in Keys, v \in Nat : floor[k] = v /\ v # 0 => InLog(k, v)

\* No value is written, pushed, forgotten or trimmed.
LEMMA ValueKept ==
  ASSUME ValueInv, UNCHANGED <<kv, writes, log, floor, trimmed>>,
         \A c \in Clients : \A k, v : InHand(c, k, v)' => InHand(c, k, v)
  PROVE  ValueInv'
<1>1. \A k, v : InLog(k, v)' <=> InLog(k, v)
  BY DEF InLog
<1>2. \A k : InStream(k)' <=> InStream(k)
  BY DEF InStream
<1> QED
  BY <1>1, <1>2 DEF ValueInv

LEMMA ValueStored ==
  ASSUME TypeInv, ValueInv, NEW c \in Clients,
         SetHashFields(c) \/ SetHashFieldIfNotExist(c) \/ SetKeyIfNotExist(c)
  PROVE  ValueInv'
<1>1. PICK set \in BOOLEAN, next \in {"expire", "check"} :
        At(c, "write") /\ Stored(c, set, next)
  BY DEF SetHashFields, SetHashFieldIfNotExist, SetKeyIfNotExist
<1>2. /\ op' \in [Clients -> Ops] /\ Others(c) /\ SameOp(c) /\ op'[c].at = next
      /\ op'[c].val = IF set THEN writes + 1 ELSE 0
      /\ kv'[op[c].key] = IF set THEN writes + 1 ELSE kv[op[c].key]
      /\ \A k \in Keys : k # op[c].key => kv'[k] = kv[k]
      /\ writes' = IF set THEN writes + 1 ELSE writes
  BY <1>1, StoredOp DEF Steps, TypeInv
<1>3. UNCHANGED <<log, trimmed, floor>>
  BY <1>1 DEF Stored, drain, history
<1>4. writes \in Nat /\ op[c].key \in Keys /\ \A k \in Keys : kv[k] \in Nat
  BY LogFacts DEF TypeInv
<1>5. /\ \A k, v : InLog(k, v)' <=> InLog(k, v)
      /\ \A k : InStream(k)' <=> InStream(k)
  BY <1>3 DEF InLog, InStream
<1>6. \A d \in Clients : \A k, v :
        InHand(d, k, v)' => InHand(d, k, v) \/ (d = c /\ set /\ k = op[c].key /\ v = writes + 1)
  BY <1>2 DEF InHand, Pending, Others, SameOp
<1>7. /\ \A k \in Keys : kv'[k] = kv[k] \/ (set /\ k = op[c].key /\ kv'[k] = writes + 1)
      /\ set => kv'[op[c].key] = writes + 1 /\ writes' = writes + 1
      /\ ~set => writes' = writes
  BY <1>2
<1>8. \A k \in Keys : kv'[k] <= writes'
  BY <1>4, <1>7 DEF ValueInv
<1>9. \A k \in Keys, v \in Nat : InLog(k, v)' => v <= writes' /\ (kv'[k] # 0 => v <= kv'[k])
  BY <1>4, <1>5, <1>7 DEF ValueInv
<1>10. ASSUME NEW d \in Clients, NEW k \in Keys, NEW v \in Nat, InHand(d, k, v)'
       PROVE  v <= writes' /\ (kv'[k] # 0 => v <= kv'[k]) /\ (SafeTTL => kv'[k] # 0)
  <2>1. CASE InHand(d, k, v)
    BY <1>4, <1>7, <2>1 DEF ValueInv
  <2>2. CASE set /\ k = op[c].key /\ v = writes + 1
    BY <1>4, <1>7, <2>2
  <2> QED
    BY <1>6, <1>10, <2>1, <2>2
<1>11. SafeTTL => \A k \in Keys : kv'[k] = 0 => ~InStream(k)'
  BY <1>4, <1>5, <1>7 DEF ValueInv
<1>12. \A k \in Keys, v \in Nat : floor'[k] = v /\ v # 0 => InLog(k, v)'
  BY <1>3, <1>5 DEF ValueInv
<1> QED
  BY <1>8, <1>9, <1>10, <1>11, <1>12 DEF ValueInv

LEMMA ValuePushed ==
  ASSUME TypeInv, ValueInv, NEW c \in Clients, Push(c) \/ PushLost(c)
  PROVE  ValueInv'
<1> DEFINE n == Len(log) + 1
           e == Entry(op[c].kind, op[c].key, op[c].val)
<1>1. Appended(e) /\ UNCHANGED <<kv, writes, trimmed>>
  BY DEF Push, PushLost, Appended, store
<1>2. /\ Len(log) \in Nat /\ Len(log') = n
      /\ \A i \in 1..Len(log) : i \in 1..Len(log') /\ log'[i] = log[i]
      /\ n \in 1..Len(log') /\ log'[n] = e
      /\ \A i \in 1..Len(log') : i \in 1..Len(log) \/ i = n
  BY <1>1, AppendedLog DEF TypeInv
<1>3. PICK x \in Keys, y \in Nat : x = op[c].key /\ y = op[c].val
  BY LogFacts DEF TypeInv
<1>4. e.key = x /\ e.val = y
  BY <1>3 DEF Entry
<1>5. InHand(c, x, y)
  BY <1>3 DEF Push, PushLost, At, TypeInv, OpInv, InHand, Pending
<1>6. /\ Others(c) /\ op'[c].at \in {"error", "done"}
  BY GotoOp, IdleOp, IdleType DEF Push, PushLost, Steps, TypeInv, TypeOK
<1>7. \A d \in Clients : \A k, v : InHand(d, k, v)' => InHand(d, k, v)
  BY <1>6 DEF InHand, Pending, Others
<1> HIDE DEF n, e
<1>8. \A k, v : InLog(k, v)' => InLog(k, v) \/ (k = x /\ v = y)
  BY <1>2, <1>4 DEF InLog
<1>9. \A k, v : InLog(k, v) \/ (k = x /\ v = y) => InLog(k, v)'
  BY <1>2, <1>4 DEF InLog
<1>10. ASSUME NEW k, InStream(k)' PROVE InStream(k) \/ k = x
  <2>1. PICK i \in (trimmed + 1)..Len(log') : log'[i].key = k
    BY <1>1, <1>10 DEF InStream
  <2>2. trimmed \in Nat
    BY LogFacts DEF TypeInv
  <2>3. i \in 1..Len(log')
    BY <1>2, <2>1, <2>2 DEF n
  <2>4. CASE i \in 1..Len(log)
    <3>1. i \in (trimmed + 1)..Len(log) /\ log[i].key = k
      BY <1>2, <2>1, <2>2, <2>4
    <3> QED
      BY <3>1 DEF InStream
  <2>5. CASE i = n
    BY <1>2, <1>4, <2>1, <2>5
  <2> QED
    BY <1>2, <2>3, <2>4, <2>5
<1>11. \A k \in Keys, v \in Nat : InLog(k, v)' => v <= writes /\ (kv[k] # 0 => v <= kv[k])
  BY <1>5, <1>8 DEF ValueInv
<1>12. SafeTTL => \A k \in Keys : kv[k] = 0 => ~InStream(k)'
  BY <1>5, <1>10 DEF ValueInv
<1>13. ASSUME NEW k \in Keys PROVE floor'[k] = floor[k] \/ (k = x /\ floor'[k] = y)
  BY <1>3 DEF Push, PushLost, history, TypeInv, TypeOK
<1>14. \A k \in Keys, v \in Nat : floor'[k] = v /\ v # 0 => InLog(k, v)'
  BY <1>9, <1>13 DEF ValueInv
<1> QED
  BY <1>1, <1>7, <1>11, <1>12, <1>14 DEF ValueInv

LEMMA ValueExpired ==
  ASSUME TypeInv, ValueInv, NEW k \in Keys, Expire(k)
  PROVE  ValueInv'
<1>1. /\ UNCHANGED <<log, trimmed, floor, writes, op>>
      /\ kv'[k] = 0 /\ \A x \in Keys : x # k => kv'[x] = kv[x]
      /\ SafeTTL => ~InStream(k) /\ \A c \in Clients : Pending(c) => op[c].key # k
  BY DEF Expire, drain, history, TypeInv, TypeOK
<1>2. /\ \A x, v : InLog(x, v)' <=> InLog(x, v)
      /\ \A x : InStream(x)' <=> InStream(x)
      /\ \A c \in Clients : \A x, v : InHand(c, x, v)' <=> InHand(c, x, v)
  BY <1>1 DEF InLog, InStream, InHand, Pending
<1>3. SafeTTL => \A c \in Clients : \A v : ~InHand(c, k, v)
  BY <1>1 DEF InHand
<1>4. \A x \in Keys : kv'[x] <= writes
  BY <1>1, LogFacts DEF ValueInv, TypeInv
<1> QED
  BY <1>1, <1>2, <1>3, <1>4 DEF ValueInv

LEMMA ValueStep ==
  ASSUME TypeInv, ValueInv, [Next]_vars
  PROVE  ValueInv'
<1>0. op \in [Clients -> Ops] /\ OpInv /\ TypeOK
  BY DEF TypeInv, TypeOK
<1>1. ASSUME NEW c \in Clients, Others(c), UNCHANGED <<kv, writes, log, floor, trimmed>>,
             Pending(c)' => Pending(c) /\ SameOp(c) /\ op'[c].val = op[c].val
      PROVE  ValueInv'
  BY <1>1, ValueKept DEF Others, InHand, Pending, SameOp
<1>2. ASSUME UNCHANGED <<kv, writes, log, floor, trimmed, op>> PROVE ValueInv'
  BY <1>2, ValueKept DEF InHand, Pending
<1>3. ASSUME NEW c \in Clients, NEW kind \in {"insert", "update", "read", "scan"},
             NEW k \in Keys, Begin(c, kind, k)
      PROVE  ValueInv'
  <2>1. /\ Others(c)
        /\ op'[c] = [kind |-> kind, key |-> k, at |-> First(kind, k), lo |-> floor[k], val |-> 0]
    BY <1>3, BeginStep
  <2> QED
    BY <1>1, <1>3, <2>1 DEF Begin, store, drain, Pending
<1>4. ASSUME NEW c \in Clients, Check(c) PROVE ValueInv'
  <2>1. /\ Others(c) /\ SameOp(c) /\ op'[c].val = op[c].val
        /\ op'[c].at \in {"error", "write", "push"}
    BY <1>0, <1>4, CheckOp
  <2> QED
    BY <1>1, <1>4, <2>1 DEF Check, At, drain, history, Pending, SameOp
<1>5. ASSUME NEW c \in Clients, SetExpiry(c) PROVE ValueInv'
  <2>1. Others(c) /\ SameOp(c) /\ op'[c].val = op[c].val
    BY <1>0, <1>5, GotoOp DEF SetExpiry, Steps
  <2> QED
    BY <1>1, <1>5, <2>1 DEF SetExpiry, At, drain, history, Pending, SameOp
<1>6. ASSUME NEW c \in Clients, Get(c) \/ DatabaseGet(c) PROVE ValueInv'
  <2>1. Others(c) /\ op'[c].at \in {"done", "db"}
    BY <1>0, <1>6 DEF Get, DatabaseGet, Goto, Ops, Others
  <2> QED
    BY <1>1, <1>6, <2>1 DEF Get, DatabaseGet, store, drain, Pending
<1>7. ASSUME NEW c \in Clients, Answer(c) \/ Fail(c) \/ ScanFails(c) \/ Unavailable(c)
      PROVE  ValueInv'
  <2>1. Others(c) /\ op'[c].at \in {"error", "done", "db"}
    BY <1>0, <1>7, GotoOp, IdleOp, IdleType DEF Answer, Unavailable, Fail, ScanFails, Steps
  <2> QED
    BY <1>1, <1>7, <2>1 DEF Pending, Answer, Unavailable, Fail, ScanFails, store, drain, history
<1>8. CASE \/ Execute \/ Redeliver \/ Disconnect \/ OnErrorSend \/ OnErrorStore
           \/ UNCHANGED vars
  BY <1>2, <1>8 DEF Execute, Redeliver, Disconnect, OnErrorSend, OnErrorStore,
    vars, store, drain, history
<1>9. CASE Trim
  <2>1. UNCHANGED <<kv, writes, log, floor, op>> /\ trimmed' = executed
    BY <1>9 DEF Trim, store, history
  <2>2. /\ \A k, v : InLog(k, v)' <=> InLog(k, v)
        /\ \A c \in Clients : \A k, v : InHand(c, k, v)' <=> InHand(c, k, v)
    BY <2>1 DEF InLog, InHand, Pending
  <2>3. \A i \in (executed + 1)..Len(log) : i \in (trimmed + 1)..Len(log)
    BY <1>0, LogFacts
  <2>4. \A k : InStream(k)' => InStream(k)
    BY <2>1, <2>3 DEF InStream
  <2> QED
    BY <2>1, <2>2, <2>4 DEF ValueInv
<1>10. CASE Restart \/ Crash
  <2>1. UNCHANGED <<kv, writes, log, floor, trimmed>> /\ \A c \in Clients : op'[c] = Idle
    BY <1>10 DEF Restart, Crash, Restarted, store, drain
  <2> QED
    BY <2>1, ValueKept, IdleType DEF InHand, Pending
<1> QED
  BY <1>3, <1>4, <1>5, <1>6, <1>7, <1>8, <1>9, <1>10, StepCases, ValueStored, ValuePushed,
    ValueExpired

\* The reads the promise is about: a scan only as long as no command failed.
Trusted(c) == op[c].kind = "read" \/ (op[c].kind = "scan" /\ faults = 0)

\* An entry of the record that is not older than v was trimmed, so the drainer
\* does not come back behind it.
Settled(k, v) == \E i \in 1..trimmed : log[i].key = k /\ v <= log[i].val

\* A read that goes to the database asks for no more than what is settled there.
ReadInv ==
  /\ link \/ faults # 0
  /\ \A c \in Clients : \A k \in Keys : op[c].key = k => op[c].lo <= floor[k]
  /\ SafeTTL => \A c \in Clients : \A k \in Keys, v \in Nat :
       Trusted(c) /\ op[c].key = k /\ op[c].lo = v =>
         /\ At(c, "db") => v = 0 \/ Settled(k, v)
         /\ At(c, "done") => Overtaken(k) \/ v <= op[c].val

\* No fault is taken back, no acknowledged value withdrawn, no entry changed.
LEMMA OnlyGrows ==
  ASSUME TypeInv, [Next]_vars
  PROVE  /\ faults' = 0 => faults = 0
         /\ \A k \in Keys : floor[k] <= floor'[k]
         /\ \A k : Overtaken(k) => Overtaken(k)'
         /\ \A k, v : Settled(k, v) => Settled(k, v)'
         /\ link /\ ~link' => faults' # 0
<1>0. TypeOK /\ faults \in Nat /\ \A k \in Keys : floor[k] \in Nat
  BY LogFacts DEF TypeInv, TypeOK
<1>1. (faults' = 0 => faults = 0) /\ (link /\ ~link' => faults' # 0)
  <2>1. ASSUME NEW c \in Clients, Fail(c) \/ ScanFails(c) \/ PushLost(c)
        PROVE  faults' \in {faults, faults + 1} /\ link' = link
    BY <2>1 DEF Fail, ScanFails, PushLost, health
  <2>2. Redeliver \/ Disconnect \/ Crash => faults' = faults + 1
    BY DEF Redeliver, Disconnect, Crash
  <2>3. ASSUME NEW c \in Clients,
               \/ SetHashFields(c) \/ SetHashFieldIfNotExist(c) \/ SetKeyIfNotExist(c)
               \/ Check(c) \/ SetExpiry(c) \/ Push(c) \/ Get(c) \/ DatabaseGet(c)
               \/ Answer(c) \/ Unavailable(c)
               \/ \E kind \in {"insert", "update", "read", "scan"}, k \in Keys : Begin(c, kind, k)
        PROVE  UNCHANGED <<faults, link>>
    BY <2>3 DEF SetHashFields, SetHashFieldIfNotExist, SetKeyIfNotExist, Stored, Check,
      SetExpiry, Push, Get, DatabaseGet, Answer, Unavailable, Begin, health
  <2>4. ASSUME \/ \E k \in Keys : Expire(k)
               \/ Execute \/ Trim \/ OnErrorSend \/ OnErrorStore \/ UNCHANGED vars
        PROVE  UNCHANGED <<faults, link>>
    BY <2>4 DEF Expire, Execute, Trim, OnErrorSend, OnErrorStore, vars, health
  <2>5. Restart => faults' = faults /\ link'
    BY DEF Restart, Restarted
  <2> QED
    BY <1>0, <2>1, <2>2, <2>3, <2>4, <2>5, StepCases
<1>2. \A k \in Keys : floor[k] <= floor'[k]
  <2>1. ASSUME NEW c \in Clients, Push(c) PROVE \A k \in Keys : floor[k] <= floor'[k]
    <3>1. op[c].val \in Nat /\ op[c].key \in Keys
      BY <1>0, LogFacts
    <3>2. /\ \A k \in Keys : k # op[c].key => floor'[k] = floor[k]
          /\ LET f == floor[op[c].key] IN
             floor'[op[c].key] = IF f < op[c].val THEN op[c].val ELSE f
      BY <1>0, <2>1, <3>1 DEF Push, TypeOK
    <3> QED
      BY <1>0, <3>1, <3>2
  <2>2. ASSUME ~\E c \in Clients : Push(c) PROVE floor' = floor
    BY <2>2, StepCases DEF SetHashFields, SetHashFieldIfNotExist, SetKeyIfNotExist, Stored,
      Check, SetExpiry, PushLost, Get, DatabaseGet, Answer, Fail, ScanFails, Unavailable, Begin,
      Expire, Execute, Trim, Redeliver, Disconnect, OnErrorSend, OnErrorStore, Restart, Crash,
      Restarted, vars, history
  <2> QED
    BY <1>0, <2>1, <2>2
<1>3. log' = log \/ \E e : Appended(e)
  BY DrainCases DEF drain, Execute, Trim, Redeliver
<1>4. \A i \in 1..Len(log) : i \in 1..Len(log') /\ log'[i] = log[i]
  BY <1>0, <1>3, AppendedLog
<1>5. \A k : Overtaken(k) => Overtaken(k)'
  BY <1>4 DEF Overtaken
<1>6. \A i \in 1..trimmed : i \in 1..trimmed' /\ i \in 1..Len(log)
  <2>1. trimmed' = trimmed \/ trimmed' = executed
    BY DrainCases DEF drain, Execute, Trim, Redeliver
  <2> QED
    BY <1>0, <2>1, LogFacts
<1>7. \A k, v : Settled(k, v) => Settled(k, v)'
  BY <1>4, <1>6 DEF Settled
<1> QED
  BY <1>1, <1>2, <1>5, <1>7

\* A client's operation that is left alone keeps what is said of it, and so does
\* one that neither goes to the database nor answers.
LEMMA ReadKept ==
  ASSUME TypeInv, ReadInv, [Next]_vars, NEW c \in Clients,
         \/ op'[c] = op[c]
         \/ op'[c] = Idle
         \/ SameOp(c) /\ op'[c].at \notin {"db", "done"},
         NEW k \in Keys, op'[c].key = k
  PROVE  /\ op'[c].lo <= floor'[k]
         /\ SafeTTL => \A v \in Nat :
              Trusted(c)' /\ op'[c].lo = v =>
                /\ At(c, "db")' => v = 0 \/ Settled(k, v)'
                /\ At(c, "done")' => Overtaken(k)' \/ v <= op'[c].val
<1>0. op[c].lo \in Nat /\ \A x \in Keys : floor[x] \in Nat /\ floor'[x] \in Nat
  <2>1. floor' \in [Keys -> Values]
    BY TypeInvStep DEF TypeInv, TypeOK
  <2>2. \A x \in Keys : floor'[x] \in Nat
    BY <2>1 DEF Values
  <2> QED
    BY <2>2, LogFacts DEF TypeInv
<1>1. op'[c].lo <= floor'[k]
  BY <1>0, OnlyGrows, IdleType DEF ReadInv, SameOp
<1>2. CASE op'[c] = op[c]
  <2>1. Trusted(c)' => Trusted(c)
    BY <1>2, OnlyGrows DEF Trusted
  <2> QED
    BY <1>1, <1>2, <2>1, OnlyGrows DEF ReadInv, At
<1>3. CASE op'[c] = Idle
  BY <1>1, <1>3, IdleType DEF Trusted
<1>4. CASE SameOp(c) /\ op'[c].at \notin {"db", "done"}
  BY <1>1, <1>4 DEF At
<1> QED
  BY <1>2, <1>3, <1>4

\* A read that Redis answers: it shows at least what was acknowledged.
LEMMA ReadHit ==
  ASSUME TypeInv, ValueInv, NEW k \in Keys, kv[k] # 0
  PROVE  floor[k] <= kv[k]
<1>1. PICK v \in Nat : v = floor[k]
  BY LogFacts DEF TypeInv
<1>2. CASE v = 0
  BY <1>1, <1>2, LogFacts DEF TypeInv
<1>3. CASE v # 0
  BY <1>1, <1>3 DEF ValueInv
<1> QED
  BY <1>2, <1>3

\* A read that Redis does not answer: what was acknowledged is settled.
LEMMA ReadMiss ==
  ASSUME TypeInv, ValueInv, SafeTTL, NEW k \in Keys, kv[k] = 0, NEW v \in Nat, v # 0,
         v <= floor[k]
  PROVE  Settled(k, v)
<1>1. PICK w \in Nat : w = floor[k] /\ w # 0
  BY LogFacts DEF TypeInv
<1>2. PICK i \in 1..Len(log) : log[i].key = k /\ log[i].val = w
  BY <1>1 DEF ValueInv, InLog
<1>3. i \notin (trimmed + 1)..Len(log)
  BY <1>2 DEF ValueInv, InStream
<1>4. i \in 1..trimmed
  BY <1>3, LogFacts DEF TypeInv
<1> QED
  BY <1>1, <1>2, <1>4 DEF Settled

\* A read that the database answers.
LEMMA ReadRow ==
  ASSUME TypeInv, DbInv, NEW k \in Keys, NEW v \in Nat, v = 0 \/ Settled(k, v), ~Overtaken(k)
  PROVE  v <= db[k]
<1>1. CASE v = 0
  BY <1>1, LogFacts DEF TypeInv
<1>2. CASE Settled(k, v)
  <2>1. PICK i \in 1..trimmed : log[i].key = k /\ v <= log[i].val
    BY <1>2 DEF Settled
  <2>2. i \in 1..executed /\ log[i].val \in Nat /\ db[k] \in Nat
    BY LogFacts DEF TypeInv
  <2>3. log[i].val <= db[k]
    BY <2>1, <2>2 DEF DbInv
  <2> QED
    BY <2>1, <2>2, <2>3
<1> QED
  BY <1>1, <1>2

LEMMA ReadStep ==
  ASSUME TypeInv, DbInv, ValueInv, ReadInv, [Next]_vars
  PROVE  ReadInv'
<1> DEFINE Kept(c) == \/ op'[c] = op[c] \/ op'[c] = Idle
                      \/ SameOp(c) /\ op'[c].at \notin {"db", "done"}
           Good(c) == \A k \in Keys : op'[c].key = k =>
                        /\ op'[c].lo <= floor'[k]
                        /\ SafeTTL => \A v \in Nat :
                             Trusted(c)' /\ op'[c].lo = v =>
                               /\ At(c, "db")' => v = 0 \/ Settled(k, v)'
                               /\ At(c, "done")' => Overtaken(k)' \/ v <= op'[c].val
<1>0. op \in [Clients -> Ops] /\ OpInv /\ BoundInv /\ TypeOK /\ faults \in Nat
  BY DEF TypeInv, TypeOK
<1>1. \A c \in Clients : Kept(c) => Good(c)
  BY ReadKept
<1>2. link' \/ faults' # 0
  BY OnlyGrows DEF ReadInv
<1> SUFFICES \A c \in Clients : Good(c)
  BY <1>2 DEF ReadInv
<1>3. ASSUME NEW c \in Clients, Others(c), Good(c) PROVE \A d \in Clients : Good(d)
  <2>1. \A d \in Clients : d # c => Kept(d)
    BY <1>3 DEF Others
  <2> HIDE DEF Good, Kept
  <2> QED
    BY <1>1, <1>3, <2>1
<1>4. ASSUME NEW c \in Clients, Others(c), Kept(c) PROVE \A d \in Clients : Good(d)
  <2>1. Good(c)
    BY <1>1, <1>4
  <2> HIDE DEF Good, Kept
  <2> QED
    BY <1>3, <1>4, <2>1
<1>5. ASSUME UNCHANGED op PROVE \A c \in Clients : Good(c)
  <2>1. \A c \in Clients : Kept(c)
    BY <1>5
  <2> HIDE DEF Good, Kept
  <2> QED
    BY <1>1, <2>1
<1>6. ASSUME NEW c \in Clients, NEW kind \in {"insert", "update", "read", "scan"},
             NEW k \in Keys, Begin(c, kind, k)
      PROVE  \A d \in Clients : Good(d)
  <2>1. /\ Others(c)
        /\ op'[c] = [kind |-> kind, key |-> k, at |-> First(kind, k), lo |-> floor[k], val |-> 0]
    BY <1>6, BeginStep
  <2>2. First(kind, k) \notin {"db", "done"} /\ floor' = floor /\ floor[k] \in Nat
    BY <1>0, <1>6, LogFacts DEF First, Begin
  <2>3. Good(c)
    BY <2>1, <2>2 DEF At
  <2> HIDE DEF Good, Kept
  <2> QED
    BY <1>3, <2>1, <2>3
<1>7. ASSUME NEW c \in Clients,
             SetHashFields(c) \/ SetHashFieldIfNotExist(c) \/ SetKeyIfNotExist(c)
      PROVE  \A d \in Clients : Good(d)
  <2>1. PICK set \in BOOLEAN, next \in {"expire", "check"} :
          At(c, "write") /\ Stored(c, set, next)
    BY <1>7 DEF SetHashFields, SetHashFieldIfNotExist, SetKeyIfNotExist
  <2>2. Others(c) /\ SameOp(c) /\ op'[c].at = next
    BY <1>0, <2>1, StoredOp DEF Steps
  <2>3. Kept(c)
    BY <2>2
  <2> HIDE DEF Good, Kept
  <2> QED
    BY <1>4, <2>2, <2>3
<1>8. ASSUME NEW c \in Clients,
             \/ Check(c) \/ SetExpiry(c) \/ Push(c) \/ PushLost(c) \/ Answer(c)
             \/ Unavailable(c) \/ Fail(c)
      PROVE  \A d \in Clients : Good(d)
  <2>1. Others(c) /\ Kept(c)
    <3>1. CASE Check(c)
      BY <1>0, <3>1, CheckOp
    <3>2. CASE SetExpiry(c) \/ PushLost(c) \/ Fail(c)
      BY <1>0, <3>2, GotoOp DEF SetExpiry, PushLost, Fail, Steps
    <3>3. CASE Push(c) \/ Answer(c) \/ Unavailable(c)
      BY <1>0, <3>3, IdleOp DEF Push, Answer, Unavailable
    <3> QED
      BY <1>8, <3>1, <3>2, <3>3
  <2> HIDE DEF Good, Kept
  <2> QED
    BY <1>4, <2>1
<1>9. ASSUME NEW c \in Clients, Get(c) \/ DatabaseGet(c) \/ ScanFails(c)
      PROVE  \A d \in Clients : Good(d)
  <2>0. PICK k \in Keys, v \in Nat : k = op[c].key /\ v = op[c].lo
    BY <1>0, LogFacts
  <2>1. /\ v <= floor[k] /\ floor' = floor /\ log' = log /\ trimmed' = trimmed
        /\ floor[k] \in Nat /\ kv[k] \in Nat /\ db[k] \in Nat
    BY <1>0, <1>9, <2>0, LogFacts DEF ReadInv, Get, DatabaseGet, ScanFails, drain, history
  <2>2. Others(c) /\ SameOp(c)
    BY <1>0, <1>9 DEF Get, DatabaseGet, ScanFails, Goto, Others, SameOp, Ops
  <2>3. (Settled(k, v)' <=> Settled(k, v)) /\ (Overtaken(k)' <=> Overtaken(k))
    BY <2>1 DEF Settled, Overtaken
  <2>4. CASE Get(c) /\ kv[k] # 0
    <3>1. op'[c].at = "done" /\ op'[c].val = kv[k]
      BY <1>0, <2>0, <2>4 DEF Get, Ops
    <3>2. v <= kv[k]
      BY <2>1, <2>4, ReadHit
    <3>3. Good(c)
      BY <2>0, <2>1, <2>2, <3>1, <3>2 DEF SameOp, At
    <3> HIDE DEF Good, Kept
    <3> QED
      BY <1>3, <2>2, <3>3
  <2>5. CASE Get(c) /\ kv[k] = 0
    <3>1. op'[c].at = "db"
      BY <1>0, <2>0, <2>5, GotoOp DEF Get, Steps
    <3>2. SafeTTL => v = 0 \/ Settled(k, v)
      BY <2>1, <2>5, ReadMiss
    <3>3. Good(c)
      BY <2>0, <2>1, <2>2, <2>3, <3>1, <3>2 DEF SameOp, At
    <3> HIDE DEF Good, Kept
    <3> QED
      BY <1>3, <2>2, <3>3
  <2>6. CASE DatabaseGet(c)
    <3>1. op'[c].at = "done" /\ op'[c].val = db[k] /\ At(c, "db") /\ faults' = faults
      BY <1>0, <2>0, <2>6 DEF DatabaseGet, Ops
    <3>2. Trusted(c)' => Trusted(c)
      BY <2>2, <3>1 DEF Trusted, SameOp
    <3>3. SafeTTL /\ Trusted(c) => v = 0 \/ Settled(k, v)
      BY <2>0, <3>1 DEF ReadInv
    <3>4. SafeTTL /\ Trusted(c) => Overtaken(k) \/ v <= db[k]
      BY <3>3, ReadRow
    <3>5. Good(c)
      BY <2>0, <2>1, <2>2, <2>3, <3>1, <3>2, <3>4 DEF SameOp, At
    <3> HIDE DEF Good, Kept
    <3> QED
      BY <1>3, <2>2, <3>5
  <2>7. CASE ScanFails(c)
    <3>1. op[c].kind = "scan" /\ faults' # 0
      BY <1>0, <2>7 DEF ScanFails, ReadInv
    <3>2. ~Trusted(c)'
      BY <2>2, <3>1 DEF Trusted, SameOp
    <3>3. Good(c)
      BY <2>0, <2>1, <2>2, <3>2 DEF SameOp
    <3> HIDE DEF Good, Kept
    <3> QED
      BY <1>3, <2>2, <3>3
  <2> HIDE DEF Good, Kept
  <2> QED
    BY <1>9, <2>4, <2>5, <2>6, <2>7
<1>10. CASE \/ \E k \in Keys : Expire(k)
            \/ Execute \/ Trim \/ Redeliver \/ Disconnect \/ OnErrorSend \/ OnErrorStore
            \/ UNCHANGED vars
  <2>1. UNCHANGED op
    BY <1>10 DEF Expire, Execute, Trim, Redeliver, Disconnect, OnErrorSend, OnErrorStore, vars
  <2> HIDE DEF Good, Kept
  <2> QED
    BY <1>5, <2>1
<1>11. CASE Restart \/ Crash
  <2>1. \A c \in Clients : Kept(c)
    BY <1>11 DEF Restart, Crash, Restarted
  <2> HIDE DEF Good, Kept
  <2> QED
    BY <1>1, <2>1
<1> HIDE DEF Good, Kept
<1> QED
  BY <1>6, <1>7, <1>8, <1>9, <1>10, <1>11, StepCases

LEMMA ReadInvariant == Spec => [](TypeInv /\ ReadInv)
<1>1. Init => ValueInv /\ ReadInv
  <2> SUFFICES ASSUME Init PROVE ValueInv /\ ReadInv
    OBVIOUS
  <2>1. \A k, v : ~InLog(k, v) /\ \A c \in Clients : ~InHand(c, k, v)
    BY IdleType DEF Init, InLog, InHand, Pending
  <2>2. \A k : ~InStream(k)
    BY DEF Init, InStream
  <2>3. ValueInv
    <3>1. writes = 0 /\ \A k \in Keys : kv[k] = 0 /\ floor[k] = 0
      BY DEF Init
    <3>2. \A k \in Keys : kv[k] <= writes
      BY <3>1
    <3>3. \A k \in Keys, v \in Nat :
            ~InLog(k, v) /\ ~InStream(k) /\ \A c \in Clients : ~InHand(c, k, v)
      BY <2>1, <2>2
    <3>4. \A k \in Keys, v \in Nat : ~(floor[k] = v /\ v # 0)
      BY <3>1
    <3> QED
      BY <2>2, <3>2, <3>3, <3>4 DEF ValueInv
  <2>4. ReadInv
    <3>1. link /\ \A c \in Clients : op[c] = Idle /\ ~Trusted(c)
      BY IdleType DEF Init, Trusted
    <3>2. \A k \in Keys : floor[k] = 0
      BY DEF Init
    <3> QED
      BY <3>1, <3>2, IdleType DEF ReadInv
  <2> QED
    BY <2>3, <2>4
<1>2. TypeInv /\ ValueInv /\ [Next]_vars => ValueInv'
  BY ValueStep
<1>3. TypeInv /\ DbInv /\ ValueInv /\ ReadInv /\ [Next]_vars => ReadInv'
  BY ReadStep
<1> QED
  BY <1>1, <1>2, <1>3, DbInvariant, PTL DEF Spec

\* A read answers at least the latest value acknowledged before it began, from
\* Redis or, once Redis has forgotten the record, from the database, for any
\* number of clients, records and faults, unless two updates of the record
\* overtook each other on their way to the stream.
THEOREM AcknowledgedIsRead == Spec => []ReadsAcknowledged
<1>1. TypeInv /\ ReadInv => ReadsAcknowledged
  <2> SUFFICES ASSUME TypeInv, ReadInv, NEW c \in Clients, SafeTTL, At(c, "done"),
                      ~Overtaken(op[c].key), Trusted(c)
               PROVE  op[c].val >= op[c].lo
    BY DEF ReadsAcknowledged, Trusted
  <2>1. op[c].lo \in Nat /\ op[c].val \in Nat /\ op[c].key \in Keys
    BY LogFacts DEF TypeInv
  <2>2. op[c].lo <= op[c].val
    BY <2>1 DEF ReadInv
  <2> QED
    BY <2>1, <2>2
<1> QED
  BY <1>1, ReadInvariant, PTL

=============================================================================
