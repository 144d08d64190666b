SPECIFICATION Spec
CONSTANTS
  NoValue = NoValue
  Requests = {r1, r2}
  Ids = {k1, k2}
  Tokens = {"t1", "t2"}
  Updates <- KeyUpdates
  PoolSize = 1
  MaxQueryFaults = 1
  Checks = {r1, r2}
  ReadCount = 3
  MaxAppends = 6
  MaxCheckFaults = 3
  Backends = {"no_encryption", "aws_kms", "hashi_corp_vault"}
  Expiries = {0, 1, 5}
  Delays = {0, 300, 5000}
  MaxU32 = 4095
  ConnectorStatuses = {400, 503}
  MaxI32 = 15
  Merchants = {"m1"}
  Mappings <- RetryMappings
  Amounts <- MoneyAmounts
  Rates = {0, 1, 700, 7000, 8100, 10450, 12500, 33330, 100000, 100010}
  MaxAmount = 8191
  F32 = 256
  F64 = 32768
  Scales <- FloatScales
  Milli = 2
  Second = 4
  Times = {16, 17, 18, 19, 20}
  Offsets <- UtcOffsets
  MaxCode = 900
SYMMETRY Symmetry
CHECK_DEADLOCK FALSE
INVARIANTS
  NoHoldAndWait
  NotFoundIsHonest
  SecretsAreOwn
  RunsOnlyUsable
  StatusFitsCause
  TriedAsConfigured
  AmountSurvives
  SurchargeCovers
  InstantSurvives
  CodeSurvives
  HealthyIsReported
  LeftoverBounded
