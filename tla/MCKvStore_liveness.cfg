SPECIFICATION FairSpec
CONSTANTS
  c1 = c1
  c2 = c2
  h1 = h1
  p1 = p1
  Clients = {c1, c2}
  HashKeys = {h1}
  PlainKeys = {}
  Constraint <- Shared
  SafeTTL = TRUE
  MaxWrites = 3
  MaxFaults = 1
PROPERTY EventuallyPersisted
CHECK_DEADLOCK FALSE
