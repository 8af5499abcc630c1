SPECIFICATION FairGatewaySpec
CONSTANTS
  Requests <- MCRequests
  Answers <- MCAnswers
  RetryAfters <- MCRetryAfters
  Callers = {c1, c2}
  Timeout = 3
  MaxDelay = 2
  ByteLimit = 1
  MaxTime = 2
  MaxErrors = 1
  MaxLosses = 1
  MaxBodies = 2
  None = None
CHECK_DEADLOCK FALSE
INVARIANTS
  AcceptedIsValid
  AdapterWithinBudget
PROPERTIES
  InvokedOnce
  ReservationsSettle
