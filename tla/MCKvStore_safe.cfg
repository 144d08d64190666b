SPECIFICATION Spec
CONSTANTS
  c1 = c1
  c2 = c2
  h1 = h1
  p1 = p1
  Clients = {c1, c2}
  HashKeys = {h1}
  PlainKeys = {p1}
  Constraint <- Shared
  SafeTTL = TRUE
  MaxWrites = 3
  MaxFaults = 1
INVARIANTS TypeOK UniqueInserted ReadsAcknowledged RedisIsLogged BlockedIsEarly
SYMMETRY Interchange
CHECK_DEADLOCK FALSE
