SPECIFICATION Spec
CONSTANTS
  Processes = {a}
  Producers = {p1}
  Consumers = {c1}
  BatchSize = 1
  GroupExists = TRUE
  SafeTTL = TRUE
  HiddenWrites = FALSE
  Late = FALSE
  MaxRetries = 1
  MaxFaults = 1
PROPERTIES
  FinishIsFinal
