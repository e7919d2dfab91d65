SPECIFICATION Spec
CONSTANTS
  n1 = n1
  n2 = n2
  n3 = n3
  Nodes <- ThreeNodes
  Names <- MCNames
  None = None
  Listings <- SomeListings
  FlagLists <- SomeFlagLists
SYMMETRY NodeSymmetry
INVARIANTS
  IInv
  GroupsExact
CHECK_DEADLOCK FALSE
