SPECIFICATION FairSpec
CONSTANTS
  n1 = n1
  n2 = n2
  Nodes <- TwoNodes
  Rivals = TRUE
INVARIANTS
  KnownClean
  NoTerminatingRace
  ResultWhole
  NoUseAfterDelete
PROPERTIES
  PodsOnlyWhenAnnotated
  SessionEnds
  ImplementsSession
  ImplementsCollection
