SPECIFICATION Spec
CONSTANTS
  n1 = n1
  n2 = n2
  Nodes <- TwoNodes
  Rivals = FALSE
PROPERTIES
  KeepRetrying
