SPECIFICATION Spec
CONSTANTS
  i1 = i1
  i2 = i2
  t1 = t1
  t2 = t2
  k1 = k1
  k2 = k2
  Instances = {i1}
  Tasks = {t1}
  Owner <- OneSlotEach
  NumPartitions = 1
  MaxReadCount = 2
  Keys = {k1}
  Shard <- OneShard
  Kinds = {"insert", "update"}
  SafeTTL = TRUE
  MaxEntries = 1
  MaxFaults = 0
  MaxShutdowns = 1
PROPERTY GracefulExit
