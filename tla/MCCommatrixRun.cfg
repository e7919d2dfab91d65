SPECIFICATION FairSpec
CONSTANTS
  n1 = n1
  Nodes <- OneNode
  Rivals = FALSE
  Formats = {"csv", "mc"}
  Pools = {"master", "worker"}
  MaxRuns = 2
INVARIANTS
  IInv
  SuccessIsComplete
  FilesNeedWork
PROPERTIES
  RunEnds
CHECK_DEADLOCK FALSE
