--------------------------- MODULE MatrixCreation ---------------------------
(***************************************************************************)
(* The matrix of the cluster: the facts Run asks for, endpointslices.New,  *)
(* and CreateEndpointMatrix (pkg/commatrix-creator/commatrix.go).  The     *)
(* entries of ExposedPorts are followed by static ones, repeated for every *)
(* group with a node of their role, and by those of a file; the first entry *)
(* of each flow stands.                                                    *)
(*                                                                         *)
(* The nodes are listed twice, for their groups and then for their roles,  *)
(* and the cluster may change in between.                                  *)
(***************************************************************************)
EXTENDS MatrixRows

CONSTANTS
  Listings,     \* what a listing of the nodes may say
  Settings,     \* what the command found out of the cluster
  StaticTable,  \* the tables of static-custom-entries.go
  CustomFiles   \* what the file of custom entries may hold

Roles == {"master", "worker"}

\* What a node is: the group it is given (module NodeGroups) and which of the
\* two roles it is labelled with.
NodeFacts == [group : Groups, roles : SUBSET Roles]

SupportedPlatforms  == {"AWS", "BareMetal", "None"}
supportedTopologies == {"HighlyAvailable", "SingleReplica", "External"}

\* What the cluster says of itself: Infrastructure and Network; dhcp is what
\* IsDHCPEnabled would answer (module DHCPProbe).
Setting == [platform : SupportedPlatforms \cup {"other"},
            topology : supportedTopologies \cup {"other"},
            clusterNetwork : SUBSET {"IPv4", "IPv6"}, dhcp : BOOLEAN, nodePorts : Text]

Tables == {"BaremetalMaster", "BaremetalWorker", "NoneMaster", "NoneWorker",
           "GeneralMaster", "GeneralIPv6Master", "GeneralDHCPMaster", "Standard",
           "GeneralWorker", "GeneralIPv6Worker", "GeneralDHCPWorker"}

StaticEntry == [group : Roles, port : Ports, source : {FromTable}, optional : BOOLEAN]

\* A file of CSV is its rows; one of JSON or YAML is decoded into the lists themselves.
CSVFile   == [format : {"csv"}, rows : Seq({row \in Row : row.source = FromFile})]
ListsFile == [format : {"json", "yaml"},
              ports  : Seq({e \in Entry(Sources) : e.source = FromFile}),
              ranges : Seq({d \in DynamicRange : d.source = FromFile})]
NoFile    == [format |-> "none", ports |-> <<>>, ranges |-> <<>>]
BadFile   == [format |-> "bad"]  \* not there, or not to be decoded

ASSUME RolesAssumption    == Roles \subseteq Groups
ASSUME ListingsAssumption ==
  \A f \in Listings : DOMAIN f \subseteq Nodes /\ f \in [DOMAIN f -> NodeFacts]
ASSUME SettingsAssumption == Settings \subseteq Setting
ASSUME TablesAssumption   == StaticTable \in [Tables -> Seq(StaticEntry)]
ASSUME FilesAssumption    ==
  \A f \in CustomFiles : f \in CSVFile \/ f \in ListsFile \/ f \in {NoFile, BadFile}

\* The ports include those the file names.
ASSUME PortsAssumption ==
  \A f \in CustomFiles : f.format = "csv" =>
    \A i \in 1..Len(f.rows) : HasPort(f.rows[i]) /\ IsNumber(f.rows[i].text[1]) =>
      \E p \in Ports : Protocol[p] = f.rows[i].protocol /\ Number[p] = f.rows[i].text[1]

VARIABLES
  cluster,   \* the nodes there are
  setting,
  file,      \* the file of custom entries
  relisted,  \* the nodes of the second listing
  statics,   \* staticEntries, with what one entry is repeated for as a set
  custom,    \* customMatrix: the ports and ranges of the file
  ranges,    \* dynamicRanges
  matrix     \* the result, without its order: that of the keys

vars == <<cluster, setting, file, relisted, statics, custom, ranges, matrix, epVars, pc>>

TypeOK ==
  /\ ExposedTypeOK
  /\ cluster \in Listings
  /\ setting \in Settings
  /\ file \in CustomFiles
  /\ relisted \in Listings \cup {<<>>}
  /\ statics \in Seq(SUBSET Entry({FromTable}))
  /\ custom \in [ports : Seq(Entry({FromFile})), ranges : Seq(DynamicRange)]
  /\ ranges \in Seq(DynamicRange)
  /\ matrix \in SUBSET Entry(Sources)
  /\ pc \in {"facts", "new", "services", "load", "statics", "expand", "ranges", "custom", "dedup",
             "done", "error"}

Init ==
  /\ ExposedInit
  /\ cluster \in Listings
  /\ setting \in Settings
  /\ file \in CustomFiles
  /\ relisted = <<>>
  /\ statics = <<>>
  /\ custom = [ports |-> <<>>, ranges |-> <<>>]
  /\ ranges = <<>>
  /\ matrix = {}
  /\ pc = "facts"

\* A call fails and CreateEndpointMatrix returns its error.
Fail ==
  /\ pc' = "error"
  /\ UNCHANGED <<cluster, setting, file, relisted, statics, custom, ranges, matrix, epVars>>

-----------------------------------------------------------------------------
(* The facts and the nodes                                                 *)

IsIPv6Enabled == "IPv6" \in setting.clusterNetwork

\* IsDHCPEnabled is called on these platforms only.
DHCPEnabled == setting.platform \in {"BareMetal", "None"} /\ setting.dhcp

DetectFacts ==
  /\ pc = "facts"
  /\ \/ /\ setting.platform \in SupportedPlatforms
        /\ setting.topology \in supportedTopologies
        /\ pc' = "new"
        /\ UNCHANGED <<cluster, setting, file, relisted, statics, custom, ranges, matrix, epVars>>
     \/ Fail

\* Nodes join, leave and are relabelled while the command runs.
ClusterChanges ==
  /\ pc \notin {"done", "error"}
  /\ cluster' \in Listings
  /\ UNCHANGED <<setting, file, relisted, statics, custom, ranges, matrix, epVars, pc>>

\* endpointslices.New
New ==
  /\ pc = "new"
  /\ \/ /\ nodeToGroup' = [n \in DOMAIN cluster |-> cluster[n].group]
        /\ pc' = "services"
        /\ UNCHANGED <<cluster, setting, file, relisted, statics, custom, ranges, matrix,
                       services, next, sliceInfo, exposed>>
     \/ Fail

Exposure ==
  ExposedNext /\ UNCHANGED <<cluster, setting, file, relisted, statics, custom, ranges, matrix>>

-----------------------------------------------------------------------------
(* Static entries                                                          *)

If(condition, s) == IF condition THEN s ELSE <<>>

\* The tables that apply, one after the other.
StaticList ==
  LET multi == setting.topology # "SingleReplica"
  IN  If(setting.platform = "BareMetal",
         StaticTable["BaremetalMaster"] \o If(multi, StaticTable["BaremetalWorker"]))
      \o If(setting.platform = "None",
            StaticTable["NoneMaster"] \o If(multi, StaticTable["NoneWorker"]))
      \o StaticTable["GeneralMaster"]
      \o If(IsIPv6Enabled, StaticTable["GeneralIPv6Master"])
      \o If(DHCPEnabled, StaticTable["GeneralDHCPMaster"])
      \o If(multi, StaticTable["Standard"] \o StaticTable["GeneralWorker"]
                   \o If(IsIPv6Enabled, StaticTable["GeneralIPv6Worker"])
                   \o If(DHCPEnabled, StaticTable["GeneralDHCPWorker"]))

Singletons(s) == [i \in 1..Len(s) |-> {s[i]}]

\* It knows every platform Run has let through.
GetStaticEntries ==
  /\ pc = "statics"
  /\ statics' = Singletons(StaticList)
  /\ pc' = "expand"
  /\ UNCHANGED <<cluster, setting, file, relisted, custom, ranges, matrix, epVars>>

\* A node the first listing did not have is looked up all the same.
GroupIn(groups, n) == IF n \in DOMAIN groups THEN groups[n] ELSE ""

\* GetPoolRolesForStaticEntriesExpansion.  A group none of whose nodes has one
\* of the two roles does not come up in the map.
PoolRoles(nodes, groups) ==
  LET roled == {n \in DOMAIN nodes : nodes[n].roles # {}}
  IN  [g \in {GroupIn(groups, n) : n \in roled} |->
         UNION {nodes[n].roles : n \in {m \in roled : GroupIn(groups, m) = g}}]

\* Variant: an entry is put in the first group that takes it.
ExpandOnce(entry, poolRoles) ==
  LET pools == {g \in DOMAIN poolRoles : entry.group \in poolRoles[g]}
  IN  IF pools = {} THEN {} ELSE {[entry EXCEPT !.group = CHOOSE g \in pools : TRUE]}

\* What one static entry becomes, in the order the map happens to have.
Expand(entry, poolRoles) ==
  {[entry EXCEPT !.group = g] : g \in {h \in DOMAIN poolRoles : entry.group \in poolRoles[h]}}

\* The second listing and ExpandStaticEntriesByPool, which leaves the entries
\* alone when the map is empty.
ExpandStaticEntries ==
  /\ pc = "expand"
  /\ \/ /\ relisted' = cluster
        /\ LET poolRoles == PoolRoles(cluster, nodeToGroup)
           IN  statics' = IF DOMAIN poolRoles = {} THEN statics
                          ELSE [i \in DOMAIN statics |->
                                  UNION {Expand(e, poolRoles) : e \in statics[i]}]
        /\ pc' = "ranges"
        /\ UNCHANGED <<cluster, setting, file, custom, ranges, matrix, epVars>>
     \/ Fail

-----------------------------------------------------------------------------
(* Ranges, custom entries and duplicates                                   *)

NodePorts(minPort, maxPort, optional) ==
  [i \in 1..2 |-> [protocol |-> <<"TCP", "UDP">>[i], minPort |-> minPort, maxPort |-> maxPort,
                   source |-> FromCluster, optional |-> optional]]

\* The range of the node ports, or its default, which is optional.
GetDynamicRanges ==
  /\ pc = "ranges"
  /\ \/ /\ setting.nodePorts = <<Blank>> \/ IsPortRange(setting.nodePorts)
        /\ ranges' = IF setting.nodePorts = <<Blank>> THEN NodePorts(30000, 32767, TRUE)
                     ELSE NodePorts(setting.nodePorts[1], setting.nodePorts[2], FALSE)
        /\ pc' = "custom"
        /\ UNCHANGED <<cluster, setting, file, relisted, statics, custom, matrix, epVars>>
     \/ Fail

\* ParseToComMatrix: one malformed row, and there is no matrix.
ParseFails ==
  \/ file = BadFile
  \/ file.format = "csv" /\ \E i \in 1..Len(file.rows) : Malformed(file.rows[i])

\* What it makes of a file it takes.
Decoded ==
  IF file.format = "csv" THEN parseCSVToComMatrix(file.rows)
  ELSE [ports |-> file.ports, ranges |-> file.ranges]

GetComMatrixFromFile ==
  /\ pc = "custom"
  /\ \/ /\ ~ParseFails
        /\ custom' = Decoded
        /\ ranges' = ranges \o custom'.ranges
        /\ pc' = "dedup"
        /\ UNCHANGED <<cluster, setting, file, relisted, statics, matrix, epVars>>
     \/ ParseFails /\ Fail

Key(e) == <<e.group, e.port>>
KeysOf(entries) == {Key(e) : e \in entries}

\* Variant: what was seen last is kept.
LastsOf(s) ==
  UNION {{e \in s[i] : \A j \in i + 1..Len(s) : Key(e) \notin KeysOf(s[j])} : i \in DOMAIN s}

\* The entries of a sequence of sets that are the first of their flow.
FirstsOf(s) ==
  UNION {{e \in s[i] : \A j \in 1..i - 1 : Key(e) \notin KeysOf(s[j])} : i \in DOMAIN s}

\* SortAndRemoveDuplicates.  removeDups left the exposed entries in a random
\* order, so any of the services that expose a flow may be the first.
SortAndRemoveDuplicates ==
  /\ pc = "dedup"
  /\ \E winner \in [KeysOf(exposed) -> {e.source : e \in exposed}] :
       LET firsts == {e \in exposed : e.source = winner[Key(e)]}
           rest   == statics \o Singletons(custom.ports)
       IN  /\ KeysOf(firsts) = KeysOf(exposed)
           /\ matrix' = FirstsOf(<<firsts>> \o rest)
  /\ pc' = "done"
  /\ UNCHANGED <<cluster, setting, file, relisted, statics, custom, ranges, epVars>>

Next ==
  \/ ClusterChanges \/ DetectFacts \/ New \/ Exposure \/ GetStaticEntries \/ ExpandStaticEntries
  \/ GetDynamicRanges \/ GetComMatrixFromFile \/ SortAndRemoveDuplicates

Spec == Init /\ [][Next]_vars

-----------------------------------------------------------------------------
(* Properties                                                              *)

\* A service puts a flow on the hosts of a group: one of its endpoints is
\* there, and its first pod declares the number as reachable from outside.
Exposes(s, flow) ==
  /\ s.slices # <<>> /\ s.selector /\ s.pods # <<>>
  /\ LET slice == Head(s.slices)
         pod   == Head(s.pods)
         declared == {c \in pod.ports : c.number = Number[flow[2]]}
     IN  /\ slice.owned
         /\ flow[2] \in slice.ports
         /\ \E n \in slice.nodes \cap DOMAIN nodeToGroup : nodeToGroup[n] = flow[1]
         /\ \E c \in declared : ~c.local
         /\ pod.hostNetwork \/ \E c \in declared : c.hostPort

ExposedFlows ==
  {flow \in Groups \X Ports : \E i \in DOMAIN services : Exposes(services[i], flow)}

StaticEntries == ToSet(StaticList)

Roled == {n \in DOMAIN relisted : relisted[n].roles # {}}

StaticFlows ==
  IF Roled = {} THEN KeysOf(StaticEntries)
  ELSE {<<GroupIn(nodeToGroup, x[1]), x[2].port>> :
          x \in {y \in Roled \X StaticEntries : y[2].group \in relisted[y[1]].roles}}

Says(row, flow) ==
  row.group = flow[1] /\ row.text = <<Number[flow[2]]>> /\ row.protocol = Protocol[flow[2]]

FileFlows ==
  IF file.format = "csv"
  THEN {flow \in (Groups \cup {""}) \X Ports : \E row \in ToSet(file.rows) : Says(row, flow)}
  ELSE KeysOf(ToSet(file.ports))

\* CreateEndpointMatrix: the flows of the matrix are those of its three
\* sources, whatever the order of the maps and sets it goes through, however
\* the cluster changes under it; and every row of a file that has a port is
\* among them or among the ranges.
FlowsExact ==
  pc = "done" =>
    /\ KeysOf(matrix) = ExposedFlows \cup StaticFlows \cup FileFlows
    /\ \A d, e \in matrix : Key(d) = Key(e) => d = e
    /\ file.format = "csv" =>
         \A row \in ToSet(file.rows) :
           \/ row.text = <<Blank>>
           \/ \E flow \in FileFlows : Says(row, flow)
           \/ \E d \in ToSet(ranges) :
                row.text = <<d.minPort, d.maxPort>> /\ row.protocol = d.protocol

\* The file of the matrix is one its own parser takes, for the entries (row by
\* row, as their order is left out) and ranges it was written from: the tests
\* read it so (test/e2e/validation_test.go), and a user may hand it back as
\* custom entries.
ReadBack ==
  pc = "done" =>
    \A e \in matrix :
      LET rows == ToCSV(<<e>>, ranges)
      IN  /\ \A i \in DOMAIN rows : ~Malformed(rows[i])
          /\ parseCSVToComMatrix(rows) = [ports |-> <<e>>, ranges |-> ranges]

\* README.md: "Static entries [...] are automatically included in the custom
\* group based on the original node role."  For every node that both listings
\* have, whatever group it was moved to, and for no group without such a node.
StaticsFollowRoles ==
  pc = "done" =>
    /\ \A n \in Roled \cap DOMAIN nodeToGroup, e \in StaticEntries :
         e.group \in relisted[n].roles => <<nodeToGroup[n], e.port>> \in KeysOf(matrix)
    /\ \A e \in matrix : e.source = FromTable /\ Roled # {} =>
         \E n \in Roled, d \in StaticEntries :
           /\ GroupIn(nodeToGroup, n) = e.group
           /\ d.port = e.port /\ d.group \in relisted[n].roles

\* What the cluster says of a flow stands before the static table, and that
\* before the file: a service named by the matrix exposes the flow itself and
\* says whether it is optional, and no entry of the file hides another.
FirstSourceStands ==
  pc = "done" =>
    \A e \in matrix :
      /\ Key(e) \in ExposedFlows =>
           /\ e.source \in DOMAIN services
           /\ Exposes(services[e.source], Key(e))
           /\ e.optional = Head(services[e.source].slices).optional
      /\ e.source = FromFile => Key(e) \notin StaticFlows

-----------------------------------------------------------------------------
(* The inductive invariant                                                 *)

\* sliceInfo holds the services kept among those visited, in order.
LoadInv ==
  /\ next \in 1..Len(services) + 1
  /\ \A info \in ToSet(sliceInfo) :
       /\ info.service < next /\ info.service \in DOMAIN services
       /\ Kept(services[info.service])
       /\ info.ports = PortsOf(services[info.service])
  /\ \A i \in 1..next - 1 :
       Kept(services[i]) => \E info \in ToSet(sliceInfo) : info.service = i

ExposedInv ==
  /\ KeysOf(exposed) = ExposedFlows
  /\ \A e \in exposed :
       /\ e.source \in DOMAIN services
       /\ Exposes(services[e.source], Key(e))
       /\ e.optional = Head(services[e.source].slices).optional
  /\ \A d, e \in exposed : Key(d) = Key(e) /\ d.source = e.source => d = e

\* Of one static entry no two are in one group.
StaticsInv ==
  /\ KeysOf(UNION ToSet(statics)) = StaticFlows
  /\ \A i \in DOMAIN statics : \A d, e \in statics[i] : Key(d) = Key(e) => d = e

FileInv ==
  /\ ~ParseFails
  /\ custom = Decoded
  /\ KeysOf(ToSet(custom.ports)) = FileFlows
  /\ ToSet(custom.ranges) \subseteq ToSet(ranges)

\* Every flow has one entry, of the first source that has the flow.
MatrixInv ==
  LET static == UNION ToSet(statics)
      listed == ToSet(custom.ports)
  IN  /\ KeysOf(matrix) = KeysOf(exposed) \cup KeysOf(static) \cup KeysOf(listed)
      /\ \A d, e \in matrix : Key(d) = Key(e) => d = e
      /\ \A e \in matrix :
           \/ e \in exposed
           \/ e \in static /\ Key(e) \notin KeysOf(exposed)
           \/ e \in listed /\ Key(e) \notin KeysOf(exposed) \cup KeysOf(static)

IInv ==
  /\ TypeOK
  /\ pc \in {"facts", "new", "services"} => next = 1 /\ sliceInfo = <<>>
  /\ pc = "load" => LoadInv
  /\ pc \in {"statics", "expand", "ranges", "custom", "dedup", "done"} => ExposedInv
  /\ pc = "expand" => statics = Singletons(StaticList)
  /\ pc \in {"ranges", "custom", "dedup", "done"} => StaticsInv
  /\ pc \in {"dedup", "done"} => FileInv
  /\ pc = "done" => MatrixInv

=============================================================================
