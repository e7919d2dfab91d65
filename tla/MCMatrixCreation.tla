------------------------- MODULE MCMatrixCreation ---------------------------
(* Two nodes, three groups, and lists of at most two of nine services.     *)
EXTENDS MatrixCreation

CONSTANTS n1, n2

TwoNodes == {n1, n2}

MCGroups == {"master", "worker", "custom"}

\* 53 is declared for TCP and UDP.
MCPorts  == {"t53", "u53", "t22"}
MCNumber == [p \in MCPorts |-> IF p = "t22" THEN 22 ELSE 53]
MCProtocols == {"TCP", "UDP", "SCTP"}
MCProtocol == [p \in MCPorts |-> IF p = "u53" THEN "UDP" ELSE "TCP"]

Open(n)      == [number |-> n, hostPort |-> TRUE, local |-> FALSE]
Cluster(n)   == [number |-> n, hostPort |-> FALSE, local |-> FALSE]
LocalOnly(n) == [number |-> n, hostPort |-> TRUE, local |-> TRUE]

APod(host, ports) == [hostNetwork |-> host, ports |-> ports, named |-> TRUE]
ASlice(ports, nodes) == [ports |-> ports, nodes |-> nodes, owned |-> TRUE, optional |-> FALSE]
AService(slice, pod) == [slices |-> <<slice>>, selector |-> TRUE, pods |-> <<pod>>]

\* On the host network; behind host ports, some of them of another protocol,
\* not on the host or on loopback; with a slice, a selector or a pod that is not there; without an
\* owner; with a pod of an unknown controller.
SomeServices ==
  {AService(ASlice({"t53"}, {n1, n2}), APod(TRUE, {Cluster(53)})),
   AService([ASlice({"t53", "u53", "t22"}, {n1}) EXCEPT !.optional = TRUE],
            APod(FALSE, {Open(53), Cluster(53), Cluster(22)})),
   AService(ASlice({"t22", NilPort}, {n1, n2}), APod(TRUE, {Cluster(22)})),
   AService(ASlice({"t53", "t22"}, {n2}), APod(FALSE, {LocalOnly(53), Open(22)})),
   [AService(ASlice({"t53"}, {n1}), APod(TRUE, {Cluster(53)})) EXCEPT !.selector = FALSE],
   [slices |-> <<>>, selector |-> TRUE, pods |-> <<APod(TRUE, {Cluster(53)})>>],
   [slices |-> <<ASlice({"t53"}, {n1})>>, selector |-> TRUE, pods |-> <<>>],
   AService([ASlice({"t22"}, {n1}) EXCEPT !.owned = FALSE], APod(TRUE, {Cluster(22)})),
   AService(ASlice({"t22"}, {n1}), [APod(TRUE, {Cluster(22)}) EXCEPT !.named = FALSE])}

ServiceLists == UNION {[1..n -> SomeServices] : n \in 0..2}

Kind(g, roles) == [group |-> g, roles |-> roles]

\* A compact cluster; one that gains, loses or moves a node; one whose nodes
\* have neither role.
SomeListings ==
  {n1 :> Kind("master", {"master", "worker"}),
   n1 :> Kind("master", {"master"}) @@ n2 :> Kind("worker", {"worker"}),
   n1 :> Kind("master", {"master", "worker"}) @@ n2 :> Kind("custom", {"worker"}),
   n1 :> Kind("worker", {}) @@ n2 :> Kind("custom", {})}

Found(platform, topology, network, dhcp, text) ==
  [platform |-> platform, topology |-> topology, clusterNetwork |-> network, dhcp |-> dhcp,
   nodePorts |-> text]

\* One platform and one topology that are not supported; a range that does not
\* parse, and one that is inverted.
SomeSettings ==
  {Found("BareMetal", "HighlyAvailable", {"IPv4", "IPv6"}, TRUE, <<Blank>>),
   Found("None", "SingleReplica", {"IPv4", "IPv6"}, FALSE, <<1000, 1010>>),
   Found("None", "External", {"IPv4"}, FALSE, <<1000>>),
   Found("AWS", "External", {"IPv4"}, TRUE, <<1010, 1000>>),
   Found("AWS", "other", {"IPv4"}, TRUE, <<Blank>>),
   Found("other", "HighlyAvailable", {"IPv4"}, TRUE, <<Blank>>)}

Static(role, port, optional) ==
  [group |-> role, port |-> port, source |-> FromTable, optional |-> optional]

MCStaticTable ==
  [t \in Tables |->
     CASE t \in {"BaremetalMaster", "NoneMaster"} -> <<Static("master", "t53", FALSE)>>
       [] t \in {"BaremetalWorker", "NoneWorker"} -> <<Static("worker", "t53", FALSE)>>
       [] t = "GeneralMaster" -> <<Static("master", "t22", TRUE)>>
       [] t = "GeneralIPv6Master" -> <<Static("master", "u53", TRUE)>>
       [] t = "GeneralDHCPWorker" -> <<Static("worker", "u53", TRUE)>>
       [] t = "GeneralWorker" -> <<Static("worker", "t22", FALSE)>>
       [] t = "Standard" -> <<Static("worker", "u53", FALSE), Static("master", "u53", FALSE)>>
       [] OTHER -> <<>>]

ARow(group, protocol, text) ==
  [protocol |-> protocol, text |-> text, source |-> FromFile, group |-> group, optional |-> TRUE]

\* No file; two ports, a range (of one port) and a row without one; a range
\* with a bound that is no number; one that is cut twice; lists.
SomeFiles ==
  {NoFile, BadFile,
   [format |-> "csv",
    rows |-> <<ARow("custom", "TCP", <<22>>), ARow("", "TCP", <<22, 22>>),
               ARow("worker", "UDP", <<53>>), ARow("worker", "UDP", <<Blank>>)>>],
   [format |-> "csv", rows |-> <<ARow("worker", "TCP", <<53>>), ARow("", "TCP", <<53, Word>>)>>],
   [format |-> "csv", rows |-> <<ARow("", "UDP", <<22, 53, 22>>)>>],
   [format |-> "json",
    ports |-> <<[group |-> "custom", port |-> "t53", source |-> FromFile, optional |-> FALSE]>>,
    ranges |-> <<[protocol |-> "SCTP", minPort |-> 53, maxPort |-> 22, source |-> FromFile,
                  optional |-> FALSE]>>]}

=============================================================================
