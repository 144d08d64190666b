SPECIFICATION FairSpec
CONSTANTS
  i1 = i1
  i2 = i2
  t1 = t1
  t2 = t2
  k1 = k1
  k2 = k2
  Instances = {i1}
  Tasks = {t1, t2}
  Owner <- TwoSlots
  NumPartitions = 2
  MaxReadCount = 2
  Keys = {k1, k2}
  Shard <- TwoShards
  Kinds = {"insert", "garbage"}
  SafeTTL = FALSE
  MaxEntries = 2
  MaxFaults = 1
  MaxShutdowns = 0
INVARIANTS ActiveTasksCounted NoLoss ProcessedInOrder
PROPERTY EventuallyDrained
