SPECIFICATION FairSpec
CONSTANTS
  i1 = i1
  i2 = i2
  r1 = r1
  r2 = r2
  w1 = w1
  Instances = {i1, i2}
  Readers = {r1, r2}
  Writers = {w1}
  Home <- Spread
  Caches = {"config"}
  Kinds = {"config","all"}
  Modes = {"redact", "publish"}
  MaxVersion = 2
  MaxFaults = 1
PROPERTIES
  EventuallyFresh
INVARIANTS
  StaleRedisIsDue
  StaleMemoryIsDue
  TypeOK
