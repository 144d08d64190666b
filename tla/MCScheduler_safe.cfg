SPECIFICATION Spec
CONSTANTS
  Processes = {a, b}
  Producers = {p1, p2}
  Consumers = {c1, c2}
  BatchSize = 2
  GroupExists = FALSE
  SafeTTL = TRUE
  HiddenWrites = TRUE
  Late = FALSE
  MaxRetries = 1
  MaxFaults = 2
SYMMETRY Interchange
INVARIANTS
  TypeOK
  ProducersExclude
  NoDoubleRun
  SnapshotFresh
