----------------------------- MODULE NodeGroups -----------------------------
(***************************************************************************)
(* Which group each listed node belongs to: ResolveNodeToPool              *)
(* (pkg/mcp/mcp.go), its fallback BuildNodeToGroupMap, and                 *)
(* ApplyCustomNodeGroupOverrides (pkg/types/types.go), as called one after *)
(* the other by endpointslices.New and listeningsockets.NewCheck, for the  *)
(* groups parseCustomNodeGroups (cmd/generate/generate.go) makes of flags. *)
(*                                                                         *)
(* The overrides are two nested loops over Go maps, whose order is         *)
(* unspecified, that return at the first error.                            *)
(***************************************************************************)
EXTENDS Naturals, FiniteSets, SequencesExt

CONSTANTS
  Nodes,     \* names of nodes
  Names,     \* names of pools, node pools, roles and custom groups
  None,      \* no pool to be read off the annotation, or no node pool label
  Listings,  \* what a listing of the nodes may say
  FlagLists  \* what the --custom-node-group flags may say

\* What a node says of itself: the pool in currentConfig, the HyperShift node
\* pool, and the suffixes of its node-role.kubernetes.io/ labels.
Attributes == [pool : Names \cup {None}, nodePool : Names \cup {None}, roles : SUBSET Names]

\* groupName=labelSelector, as the nodes the selector matches; wellFormed is that
\* neither side is empty and labels.Parse takes the selector.
Flag == [group : Names, nodes : SUBSET Nodes, wellFormed : BOOLEAN]

IsPartial(f, Dom, Ran) == DOMAIN f \subseteq Dom /\ f \in [DOMAIN f -> Ran]

ASSUME NamesAssumption    == {"master", "control-plane", "worker"} \subseteq Names /\ None \notin Names
\* There are finitely many nodes in a listing and labels on a node.
ASSUME ListingsAssumption ==
  \A f \in Listings : /\ IsPartial(f, Nodes, Attributes)
                      /\ IsFiniteSet(DOMAIN f)
                      /\ \A n \in DOMAIN f : IsFiniteSet(f[n].roles)
ASSUME FlagsAssumption    == FlagLists \subseteq Seq(Flag)

VARIABLES
  listed,       \* the attributes of the nodes that were listed
  flags,        \* customNodeGroupRaw
  custom,       \* customNodeGroups: the nodes each selector matches
  base,         \* the map before the overrides
  nodeToGroup,
  matchedBy,    \* the custom group of the nodes matched so far
  left,         \* custom groups the outer loop has not finished
  current,      \* the group of its present round: none or one
  todo,         \* nodes the inner loop has not visited
  prevLen,      \* how many nodes were matched when the round began
  pc

vars == <<listed, flags, custom, base, nodeToGroup, matchedBy, left, current, todo, prevLen, pc>>

TypeOK ==
  /\ listed \in Listings
  /\ flags \in FlagLists
  /\ IsPartial(custom, Names, SUBSET Nodes)
  /\ IsPartial(base, Nodes, Names)
  /\ IsPartial(nodeToGroup, Nodes, Names)
  /\ IsPartial(matchedBy, Nodes, Names)
  /\ left \in SUBSET Names
  /\ current \in SUBSET Names
  /\ todo \in SUBSET Nodes
  /\ prevLen \in Nat
  /\ pc \in {"parse", "resolve", "override", "done", "error"}

EmptyMap == [n \in {} |-> None]

Init ==
  /\ listed \in Listings
  /\ flags \in FlagLists
  /\ custom = EmptyMap
  /\ base = EmptyMap
  /\ nodeToGroup = EmptyMap
  /\ matchedBy = EmptyMap
  /\ left = {}
  /\ current = {}
  /\ todo = {}
  /\ prevLen = 0
  /\ pc = "parse"

\* An error is returned, and nothing else is.
Fail ==
  /\ pc' = "error"
  /\ UNCHANGED <<listed, flags, custom, base, nodeToGroup, matchedBy, left, current, todo, prevLen>>

-----------------------------------------------------------------------------
(* The flags                                                               *)

NamedTwice == \E i, j \in DOMAIN flags : i # j /\ flags[i].group = flags[j].group

\* Variant: a group that is named again is made anew.
LastFlagWins ==
  /\ pc = "parse"
  /\ \A f \in ToSet(flags) : f.wellFormed
  /\ custom' = [g \in {f.group : f \in ToSet(flags)} |->
                 flags[CHOOSE i \in DOMAIN flags :
                         /\ flags[i].group = g
                         /\ \A j \in i + 1..Len(flags) : flags[j].group # g].nodes]
  /\ pc' = "resolve"
  /\ UNCHANGED <<listed, flags, base, nodeToGroup, matchedBy, left, current, todo, prevLen>>

parseCustomNodeGroups ==
  /\ pc = "parse"
  /\ \A f \in ToSet(flags) : f.wellFormed
  /\ ~NamedTwice
  /\ custom' = [g \in {f.group : f \in ToSet(flags)} |->
                 (CHOOSE f \in ToSet(flags) : f.group = g).nodes]
  /\ pc' = "resolve"
  /\ UNCHANGED <<listed, flags, base, nodeToGroup, matchedBy, left, current, todo, prevLen>>

BadFlag ==
  /\ pc = "parse"
  /\ NamedTwice \/ \E f \in ToSet(flags) : ~f.wellFormed
  /\ Fail

-----------------------------------------------------------------------------
(* Pools, node pools and roles                                             *)

\* The roles GetNodeRole may return: it takes the first of its own names, or
\* else whichever role the range over the labels meets first.
RolesOf(n) ==
  CASE {"master", "control-plane"} \cap listed[n].roles # {} -> {"master"}
    [] OTHER -> IF "worker" \in listed[n].roles THEN {"worker"} ELSE listed[n].roles

\* The groups BuildNodeToGroupMap may give a node.
FallbackGroups(n) ==
  IF listed[n].nodePool # None THEN {listed[n].nodePool} ELSE RolesOf(n)

HasPools == \A n \in DOMAIN listed : listed[n].pool # None

BeginOverrides(map) ==
  /\ base' = map
  /\ nodeToGroup' = map
  /\ left' = DOMAIN custom
  /\ pc' = "override"
  /\ UNCHANGED <<listed, flags, custom, matchedBy, current, todo, prevLen>>

ResolveNodeToPool ==
  /\ pc = "resolve"
  /\ HasPools
  /\ BeginOverrides([n \in DOMAIN listed |-> listed[n].pool])

\* One node without a pool, and none of the pools is used.
BuildNodeToGroupMap ==
  /\ pc = "resolve"
  /\ ~HasPools
  /\ \E map \in [DOMAIN listed -> Names] :
       /\ \A n \in DOMAIN listed : map[n] \in FallbackGroups(n)
       /\ BeginOverrides(map)

NoRole ==
  /\ pc = "resolve"
  /\ ~HasPools
  /\ \E n \in DOMAIN listed : FallbackGroups(n) = {}
  /\ Fail

-----------------------------------------------------------------------------
(* ApplyCustomNodeGroupOverrides                                           *)

\* Variant: the length of the wrong map.
PickGroupAmongAll(g) ==
  /\ pc = "override" /\ current = {}
  /\ g \in left
  /\ current' = {g}
  /\ todo' = DOMAIN nodeToGroup
  /\ prevLen' = Cardinality(DOMAIN nodeToGroup)
  /\ UNCHANGED <<listed, flags, custom, base, nodeToGroup, matchedBy, left, pc>>

\* The next group of the outer loop.
PickGroup(g) ==
  /\ pc = "override" /\ current = {}
  /\ g \in left
  /\ current' = {g}
  /\ todo' = DOMAIN nodeToGroup
  /\ prevLen' = Cardinality(DOMAIN matchedBy)
  /\ UNCHANGED <<listed, flags, custom, base, nodeToGroup, matchedBy, left, pc>>

SkipNode(g, n) ==
  /\ pc = "override" /\ g \in current /\ n \in todo
  /\ n \notin custom[g]
  /\ todo' = todo \ {n}
  /\ UNCHANGED <<listed, flags, custom, base, nodeToGroup, matchedBy, left, current, prevLen, pc>>

MatchedTwice(g, n) ==
  /\ pc = "override" /\ g \in current /\ n \in todo
  /\ n \in custom[g]
  /\ n \in DOMAIN matchedBy
  /\ Fail

MoveNode(g, n) ==
  /\ pc = "override" /\ g \in current /\ n \in todo
  /\ n \in custom[g]
  /\ n \notin DOMAIN matchedBy
  /\ matchedBy' = [x \in DOMAIN matchedBy \cup {n} |-> IF x = n THEN g ELSE matchedBy[x]]
  /\ nodeToGroup' = [nodeToGroup EXCEPT ![n] = g]
  /\ todo' = todo \ {n}
  /\ UNCHANGED <<listed, flags, custom, base, left, current, prevLen, pc>>

\* A group must have gained a node in its round.
EndGroup(g) ==
  /\ pc = "override" /\ g \in current /\ todo = {}
  /\ \/ /\ Cardinality(DOMAIN matchedBy) = prevLen
        /\ Fail
     \/ /\ Cardinality(DOMAIN matchedBy) # prevLen
        /\ left' = left \ {g}
        /\ current' = {}
        /\ UNCHANGED <<listed, flags, custom, base, nodeToGroup, matchedBy, todo, prevLen, pc>>

Return ==
  /\ pc = "override" /\ current = {} /\ left = {}
  /\ pc' = "done"
  /\ UNCHANGED <<listed, flags, custom, base, nodeToGroup, matchedBy, left, current, todo, prevLen>>

Next ==
  \/ parseCustomNodeGroups \/ BadFlag
  \/ ResolveNodeToPool \/ BuildNodeToGroupMap \/ NoRole
  \/ \E g \in Names : PickGroup(g) \/ EndGroup(g)
  \/ \E g \in Names, n \in Nodes : SkipNode(g, n) \/ MatchedTwice(g, n) \/ MoveNode(g, n)
  \/ Return

Spec == Init /\ [][Next]_vars

-----------------------------------------------------------------------------
(* Properties                                                              *)

\* The listed nodes a flag selects.
Selected(f) == f.nodes \cap DOMAIN listed

\* The comment above ApplyCustomNodeGroupOverrides: an error "if a selector
\* matches no nodes or if a node matches multiple selectors"; and a group has
\* one selector.
Contradictory ==
  \/ \E f \in ToSet(flags) : Selected(f) = {}
  \/ \E i, j \in DOMAIN flags :
       i # j /\ (flags[i].group = flags[j].group \/ Selected(flags[i]) \cap Selected(flags[j]) # {})

\* Roles that none of the names GetNodeRole knows decides between: which of
\* them it returns is left to a map.
Undecided(n) ==
  ~HasPools /\ listed[n].nodePool = None /\ Cardinality(listed[n].roles) > 1
  /\ {"master", "control-plane", "worker"} \cap listed[n].roles = {}

\* The groups are a function of the listing and the flags, whatever the order
\* of the maps, so that the two calls of a run agree on a node whose labels
\* stay as they are - but for nodes of undecided roles no flag selects.  Every
\* flag has its nodes.  There is an error, and no outcome, exactly when flags
\* contradict each other, one is none, or a node has no role where one is needed.
GroupsExact ==
  /\ pc = "done" =>
       /\ ~Contradictory
       /\ DOMAIN nodeToGroup = DOMAIN listed
       /\ \A n \in DOMAIN listed :
            \/ \E f \in ToSet(flags) : n \in f.nodes /\ nodeToGroup[n] = f.group
            \/ /\ \A f \in ToSet(flags) : n \notin f.nodes
               /\ \/ HasPools /\ nodeToGroup[n] = listed[n].pool
                  \/ ~HasPools /\ nodeToGroup[n] = listed[n].nodePool
                  \/ ~HasPools /\ listed[n].nodePool = None /\ RolesOf(n) = {nodeToGroup[n]}
                  \/ Undecided(n) /\ nodeToGroup[n] \in listed[n].roles
  /\ pc = "error" =>
       \/ Contradictory
       \/ \E f \in ToSet(flags) : ~f.wellFormed
       \/ ~HasPools /\ \E n \in DOMAIN listed : FallbackGroups(n) = {}

-----------------------------------------------------------------------------
(* The inductive invariant                                                 *)

\* What was matched is what the finished groups select and, of the present
\* one, what the inner loop has visited.
MatchedFor(n, g) ==
  /\ n \in custom[g] \cap DOMAIN listed
  /\ g \in DOMAIN custom \ left \/ (g \in current /\ n \notin todo)

LoopInv ==
  /\ DOMAIN base = DOMAIN listed
  /\ DOMAIN nodeToGroup = DOMAIN listed
  /\ left \subseteq DOMAIN custom
  /\ current \subseteq left
  /\ \A g, h \in current : g = h
  /\ current # {} => todo \subseteq DOMAIN listed
  /\ DOMAIN matchedBy = {n \in DOMAIN listed : \E g \in DOMAIN custom : MatchedFor(n, g)}
  /\ \A n \in DOMAIN matchedBy :
       /\ MatchedFor(n, matchedBy[n])
       /\ nodeToGroup[n] = matchedBy[n]
       /\ \A g \in DOMAIN custom : MatchedFor(n, g) => g = matchedBy[n]
  /\ \A n \in DOMAIN listed \ DOMAIN matchedBy : nodeToGroup[n] = base[n]
  /\ \A g \in DOMAIN custom \ left : custom[g] \cap DOMAIN listed # {}
  /\ \A g \in current :
       prevLen = Cardinality({n \in DOMAIN listed :
                                \E h \in DOMAIN custom \ left : n \in custom[h]})

IInv ==
  /\ TypeOK
  /\ pc \in {"parse", "resolve"} => matchedBy = EmptyMap /\ current = {}
  /\ pc \in {"resolve", "override"} =>
       /\ ~NamedTwice /\ \A f \in ToSet(flags) : f.wellFormed
       /\ DOMAIN custom = {f.group : f \in ToSet(flags)}
       /\ \A f \in ToSet(flags) : custom[f.group] = f.nodes
  /\ pc = "override" =>
       /\ LoopInv
       /\ \A n \in DOMAIN listed :
            base[n] \in IF HasPools THEN {listed[n].pool} ELSE FallbackGroups(n)
  /\ GroupsExact

=============================================================================
