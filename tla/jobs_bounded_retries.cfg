SPECIFICATION Spec
CONSTANTS
  Chains = {x1}
  LastStage = 1
  Workers = {w1}
  Owners = {o1}
  Owner <- SameOwner
  MaxRetries = 2
  MaxFaults = 0
  MaxTimeouts = 4
  Nil = Nil
CHECK_DEADLOCK FALSE
INVARIANTS
  BoundedRetries
