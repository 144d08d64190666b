SPECIFICATION FairSpec
CONSTANTS
  Processes = {a, b}
  Producers = {p1, p2}
  Consumers = {c1, c2}
  BatchSize = 1
  GroupExists = TRUE
  SafeTTL = TRUE
  HiddenWrites = FALSE
  Late = TRUE
  MaxRetries = 1
  MaxFaults = 1
INVARIANTS
  FinishedIsQuiet
  NoLimbo
PROPERTY EventuallyStarted
