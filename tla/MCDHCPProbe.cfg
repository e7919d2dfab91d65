SPECIFICATION FairSpec
CONSTANTS
  n1 = n1
  n2 = n2
  Nodes <- TwoNodes
  Rivals = TRUE
INVARIANTS
  IInv
  AnswerJustified
  OnePodAtATime
PROPERTIES
  ProbeEnds
  ImplementsSession
