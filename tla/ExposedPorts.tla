---------------------------- MODULE ExposedPorts ----------------------------
(***************************************************************************)
(* Which flows the endpoint slices of a cluster expose                     *)
(* (pkg/endpointslices): LoadExposedEndpointSlicesInfo goes through the    *)
(* services and keeps, of each, the ports its pods open on their host;     *)
(* ToComDetails makes one entry per port and node group of them.           *)
(*                                                                         *)
(* A service is what the three List calls answer about it.  They are made  *)
(* one after the other, so its pods need not be those of its slices.  Only *)
(* the first slice and the first pod are looked at.  A port is a protocol  *)
(* with a number; container ports are matched by number alone.             *)
(***************************************************************************)
EXTENDS Integers, Sequences, FiniteSets, SequencesExt

CONSTANTS
  Nodes,      \* names of nodes
  Groups,     \* names of node groups
  Ports,      \* flows of a host: a protocol and a number
  NilPort,    \* an endpoint port that names none
  Number,     \* the number of a port
  Services    \* the lists of services the cluster may answer with

ContainerPort == [number : {Number[p] : p \in Ports}, hostPort : BOOLEAN, local : BOOLEAN]

\* local is a HostIP that is a loopback address; named is that
\* extractControllerName finds the name of the controller.
Pod == [hostNetwork : BOOLEAN, ports : SUBSET ContainerPort, named : BOOLEAN]

EndpointSlice == [ports : SUBSET (Ports \cup {NilPort}), nodes : SUBSET Nodes,
                  owned : BOOLEAN, optional : BOOLEAN]

Service == [slices : Seq(EndpointSlice), selector : BOOLEAN, pods : Seq(Pod)]

\* An entry of a matrix; source is the index of the service, or another source.
Entry(Sources) == [group : Groups \cup {""}, port : Ports, source : Sources, optional : BOOLEAN]

ASSUME NumberAssumption   == Number \in [Ports -> Nat]
ASSUME NilPortAssumption  == NilPort \notin Ports
ASSUME GroupsAssumption   == "" \notin Groups
ASSUME ServicesAssumption == \A s \in Services : s \in Seq(Service)

VARIABLES
  services,     \* servicesList.Items
  nodeToGroup,  \* the map of the exporter
  next,         \* index of the next service of the loop
  sliceInfo,    \* the services kept, with their ports
  exposed,      \* the result of ToComDetails, without its order
  pc

epVars == <<services, nodeToGroup, next, sliceInfo, exposed>>

SliceInfo == [service : Nat, ports : SUBSET Ports]

ExposedTypeOK ==
  /\ services \in Seq(Service)
  /\ DOMAIN nodeToGroup \subseteq Nodes
  /\ nodeToGroup \in [DOMAIN nodeToGroup -> Groups]
  /\ next \in Nat
  /\ sliceInfo \in Seq(SliceInfo)
  /\ exposed \in SUBSET Entry(Nat)

ExposedInit ==
  /\ services = <<>>
  /\ nodeToGroup = [n \in {} |-> ""]
  /\ next = 1
  /\ sliceInfo = <<>>
  /\ exposed = {}

-----------------------------------------------------------------------------
(* The filters                                                             *)

\* The endpoint ports with the container ports of the same number.
getEndpointSlicePortsFromPod(pod, ports) ==
  {x \in (ports \ {NilPort}) \X pod.ports : x[2].number = Number[x[1]]}

filterEndpointPortsByPodHostPort(infos) == {x[1] : x \in {y \in infos : y[2].hostPort}}

filterOutLocalhostPorts(infos) == {x[1] : x \in {y \in infos : ~y[2].local}}

\* Variant: a pod of the cluster network is not looked into.
AllPorts(pod, ports) == ports

\* The ports that are on the host.
HostPorts(pod, ports) ==
  IF pod.hostNetwork THEN ports
  ELSE filterEndpointPortsByPodHostPort(getEndpointSlicePortsFromPod(pod, ports))

\* The ports kept of a service that has slices and pods.
PortsOf(s) ==
  LET pod == Head(s.pods)
  IN  filterOutLocalhostPorts(
        getEndpointSlicePortsFromPod(pod, HostPorts(pod, Head(s.slices).ports)))

\* The services the loop does not skip.
Kept(s) == s.slices # <<>> /\ s.selector /\ s.pods # <<>> /\ PortsOf(s) # {}

-----------------------------------------------------------------------------
(* LoadExposedEndpointSlicesInfo                                           *)

ListServices ==
  /\ pc = "services"
  /\ services' \in Services
  /\ pc' = "load"
  /\ UNCHANGED <<nodeToGroup, next, sliceInfo, exposed>>

\* One round of the loop.
LoadService ==
  /\ pc = "load"
  /\ next <= Len(services)
  /\ sliceInfo' = IF Kept(services[next])
                  THEN Append(sliceInfo, [service |-> next, ports |-> PortsOf(services[next])])
                  ELSE sliceInfo
  /\ next' = next + 1
  /\ UNCHANGED <<services, nodeToGroup, exposed, pc>>

\* Any List call fails: there is no matrix.
ListFails ==
  /\ pc \in {"services", "load"}
  /\ pc' = "error"
  /\ UNCHANGED epVars

-----------------------------------------------------------------------------
(* ToComDetails                                                            *)

SliceOf(info) == Head(services[info.service].slices)

\* getEndpointSliceGroups: nodes the map does not know are left out.
GroupsOf(info) == {nodeToGroup[n] : n \in SliceOf(info).nodes \cap DOMAIN nodeToGroup}

ComDetailsOf(info) ==
  {[group |-> g, port |-> p, source |-> info.service, optional |-> SliceOf(info).optional] :
     g \in GroupsOf(info), p \in info.ports}

\* The slices without an owner are skipped.
OwnedInfos == {info \in ToSet(sliceInfo) : SliceOf(info).owned}

Unnamed(info) == ~Head(services[info.service].pods).named

ToComDetails ==
  /\ pc = "load"
  /\ next > Len(services)
  /\ \A info \in OwnedInfos : ~Unnamed(info)
  /\ exposed' = UNION {ComDetailsOf(info) : info \in OwnedInfos}
  /\ pc' = "statics"
  /\ UNCHANGED <<services, nodeToGroup, next, sliceInfo>>

\* One pod without a name for its controller, and there is no matrix.
NoControllerName ==
  /\ pc = "load"
  /\ next > Len(services)
  /\ \E info \in OwnedInfos : Unnamed(info)
  /\ pc' = "error"
  /\ UNCHANGED epVars

ExposedNext == ListServices \/ LoadService \/ ListFails \/ ToComDetails \/ NoControllerName

=============================================================================
