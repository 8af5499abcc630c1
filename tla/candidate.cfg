SPECIFICATION Spec
CONSTANTS
  Paths <- MCPaths
  Parent <- MCParent
  Root = "."
  Bodies <- MCBodies
  Size <- MCSize
  BaseEntries <- MCBaseEntries
  Bases <- MCBases
  Temporary <- MCTemporary
  Unindexable = {"e"}
  Proposals <- MCProposals
  Workers = {w1, w2}
  MaxChangedFiles = 2
  MaxFileBytes = 2
  MaxTotalBytes = 3
  MaxFaults = 1
CHECK_DEADLOCK FALSE
INVARIANTS
  AppliedExactly
  AcceptedApplies
