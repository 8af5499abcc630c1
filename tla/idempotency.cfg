SPECIFICATION FairSpec
CONSTANTS
  Keys = {k1, k2}
  Runs = {r1}
  Bodies = {b1, b2, b3}
  Intakes = {b1, b2}
  Based = {b1}
  Handlers = {h1, h2}
  MaxGen = 3
  MaxFaults = 2
  None = None
INVARIANTS
  AnswersRecorded
  IntakeAllOrNothing
PROPERTIES
  GenerationFences
  
  ImplementsWriteOnce
