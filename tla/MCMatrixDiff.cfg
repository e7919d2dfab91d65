SPECIFICATION Spec
CONSTANTS
  Keys = {1, 2, 3}
  Infos = {"a", "b"}
  Matrices <- Sorted
INVARIANTS
  IInv
  DiffPartitions
  PrimaryRecoverable
CHECK_DEADLOCK FALSE
