SPECIFICATION FairSpec
CONSTANTS
  Chains = {x1}
  LastStage = 2
  Workers = {w1, w2}
  Owners = {o1}
  Owner <- SameOwner
  MaxRetries = 2
  MaxFaults = 1
  MaxTimeouts = 1
  Nil = Nil
CHECK_DEADLOCK FALSE
INVARIANTS
  ClaimsFenced
  StagesInOrder
PROPERTIES
  RestIsFinal
  ChainSettles
