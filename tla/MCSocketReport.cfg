SPECIFICATION SocketSpec
CONSTANTS
  p1 = p1
  p2 = p2
  c1 = c1
  c2 = c2
  Pids = {p1, p2}
  Containers = {c1, c2}
  Host = Host
  Gone = Gone
  NoPid = NoPid
  NoPort = NoPort
  NoName = NoName
  Addresses <- MCAddresses
  OnLo <- MCOnLo
  TCPLists <- MCTCPLists
  UDPLists <- MCUDPLists
INVARIANTS
  SocketInv
  RowPerSocket
  NamesJustified
CHECK_DEADLOCK FALSE
