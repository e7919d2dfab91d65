SPECIFICATION OutputSpec
CONSTANTS
  Keys = {1, 2, 3, 4}
  Infos = {"a", "b"}
  MaxLen = 2
  Nil = Nil
  NoGroup = NoGroup
  Lists <- SmallLists
  Group <- MCGroup
  Protocol <- MCProtocol
  Port <- MCPort
  Classes = {1, 2, 3}
  RangeProtocol <- MCRangeProtocol
  Inputs <- MCInputs
  Ports <- PortSpan
INVARIANTS
  OutputInv
  DedupKept
  AcceptsExactly
  RulesLoad
CHECK_DEADLOCK FALSE
