--------------------------- MODULE MCNodeGroups -----------------------------
(* Clusters of at most three nodes of a few kinds, and at most two flags   *)
(* for two groups, one of which may bear the name of a pool.              *)
EXTENDS NodeGroups, TLC

CONSTANTS n1, n2, n3

ThreeNodes == {n1, n2, n3}

MCNames == {"master", "control-plane", "worker", "infra", "storage", "custom"}

\* With a pool or without; with a node pool; with a role GetNodeRole knows,
\* with two it does not know, and with none.
Kinds ==
  {[pool |-> "worker", nodePool |-> None, roles |-> {"worker", "infra"}],
   [pool |-> "master", nodePool |-> None, roles |-> {"control-plane"}],
   [pool |-> None, nodePool |-> "storage", roles |-> {"worker"}],
   [pool |-> None, nodePool |-> None, roles |-> {"infra", "storage"}],
   [pool |-> None, nodePool |-> None, roles |-> {}]}

SomeListings == UNION {[D -> Kinds] : D \in SUBSET Nodes}

\* A selector that is none matches no node.
SomeFlags ==
  {f \in [group : {"custom", "infra"}, nodes : SUBSET Nodes, wellFormed : BOOLEAN] :
     f.wellFormed \/ f.nodes = {}}

SomeFlagLists == UNION {[1..n -> SomeFlags] : n \in 0..2}

NodeSymmetry == Permutations(Nodes)

=============================================================================
