--------------------------- MODULE MCSocketReport ---------------------------
(* Addresses of every form, two processes and two containers; TCP prints   *)
(* two lines at most, UDP one.                                             *)
EXTENDS SocketReport

CONSTANTS p1, p2, c1, c2

Address(ip, loopback, form, text) ==
  [ip |-> ip, loopback |-> loopback, form |-> form, text |-> text]

Any       == Address("*", FALSE, "star", {})
Node4     == Address("10.0.0.5", FALSE, "plain", {})
Local4    == Address("127.0.0.1", TRUE, "plain", {"127.0.0", "127."})
Other4    == Address("127.1.2.3", TRUE, "plain", {"127."})
Alias4    == Address("172.20.0.1", FALSE, "plain", {})
Lease4    == Address("10.0.0.5%br-ex", FALSE, "zone", {})
Local6    == Address("::1", TRUE, "brackets", {"::1"})
Node6     == Address("fd00::14", FALSE, "brackets", {"::1"})

MCAddresses == {Any, Node4, Local4, Other4, Alias4, Lease4, Local6, Node6}

MCOnLo == {Alias4}

L(addr, port, pid) == [addr |-> addr, port |-> port, pid |-> pid]

\* Two sockets of which one may be local, in both orders; a line that names no
\* process, and one that is not to be understood.
MCTCPLists ==
  {<<L(Any, 1, p1), L(a, 2, p2)>> : a \in MCAddresses}
    \cup {<<L(a, 2, p2), L(Node4, 1, p2)>> : a \in {Local4, Alias4}}
    \cup {<<L(Node4, NoPort, p1)>>, <<>>}

MCUDPLists == {<<L(Lease4, 1, p1)>>, <<L(Other4, 1, p1)>>, <<L(Any, 2, NoPid)>>}

=============================================================================
