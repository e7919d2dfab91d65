SPECIFICATION Spec
CONSTANTS
  n1 = n1
  n2 = n2
  Nodes <- TwoNodes
  Groups <- MCGroups
  Ports <- MCPorts
  NilPort = NilPort
  Number <- MCNumber
  Services <- ServiceLists
  Listings <- SomeListings
  Settings <- SomeSettings
  StaticTable <- MCStaticTable
  CustomFiles <- SomeFiles
  Protocols <- MCProtocols
  Protocol <- MCProtocol
  FromTable = FromTable
  FromCluster = FromCluster
  FromFile = FromFile
  Blank = Blank
  Word = Word
INVARIANTS
  IInv
  FlowsExact
  StaticsFollowRoles
  ReadBack
  FirstSourceStands
CHECK_DEADLOCK FALSE
