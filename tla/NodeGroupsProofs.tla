-------------------------- MODULE NodeGroupsProofs --------------------------
(***************************************************************************)
(* Theorems about NodeGroups, for any finite listing, any flags and every  *)
(* order of the maps: its inductive invariant IInv, and that the groups    *)
(* the nodes end up in are a function of the listing and the flags.        *)
(***************************************************************************)
EXTENDS NodeGroups, FiniteSetTheorems, TLAPS

\* The third and the fourth conjunct of IInv, and the groups before overrides.
FlagInv ==
  /\ ~NamedTwice /\ \A f \in ToSet(flags) : f.wellFormed
  /\ DOMAIN custom = {f.group : f \in ToSet(flags)}
  /\ \A f \in ToSet(flags) : custom[f.group] = f.nodes

BaseInv ==
  \A n \in DOMAIN listed :
    base[n] \in IF HasPools THEN {listed[n].pool} ELSE FallbackGroups(n)

LEMMA IInvParts ==
  IInv <=> /\ TypeOK
           /\ pc \in {"parse", "resolve"} => matchedBy = EmptyMap /\ current = {}
           /\ pc \in {"resolve", "override"} => FlagInv
           /\ pc = "override" => LoopInv /\ BaseInv
           /\ GroupsExact
  BY DEF IInv, FlagInv, BaseInv

-----------------------------------------------------------------------------
(* The flags                                                               *)

LEMMA FlagTypes ==
  ASSUME TypeOK
  PROVE  /\ ToSet(flags) \subseteq Flag
         /\ \A f : f \in ToSet(flags) <=> \E i \in DOMAIN flags : f = flags[i]
<1>1. flags \in Seq(Flag)
  BY FlagsAssumption DEF TypeOK
<1> QED
  BY <1>1 DEF ToSet

\* A custom group is the group of one flag, and has its nodes.
LEMMA FlagOfGroup ==
  ASSUME TypeOK, FlagInv, NEW g \in DOMAIN custom
  PROVE  \E i \in DOMAIN flags : /\ flags[i] \in ToSet(flags)
                                 /\ flags[i].group = g
                                 /\ flags[i].nodes = custom[g]
  BY FlagTypes DEF FlagInv

\* Two groups that share a listed node, and a group that has none.
LEMMA SharedNode ==
  ASSUME TypeOK, FlagInv, NEW g \in DOMAIN custom, NEW h \in DOMAIN custom, g # h,
         NEW n \in DOMAIN listed, n \in custom[g], n \in custom[h]
  PROVE  Contradictory
<1>1. PICK i \in DOMAIN flags : flags[i].group = g /\ flags[i].nodes = custom[g]
  BY FlagOfGroup
<1>2. PICK j \in DOMAIN flags : flags[j].group = h /\ flags[j].nodes = custom[h]
  BY FlagOfGroup
<1>3. i # j /\ n \in Selected(flags[i]) \cap Selected(flags[j])
  BY <1>1, <1>2 DEF Selected
<1> QED
  BY <1>3 DEF Contradictory

LEMMA GroupWithoutNodes ==
  ASSUME TypeOK, FlagInv, NEW g \in DOMAIN custom, custom[g] \cap DOMAIN listed = {}
  PROVE  Contradictory
<1>1. PICK i \in DOMAIN flags : flags[i] \in ToSet(flags) /\ flags[i].nodes = custom[g]
  BY FlagOfGroup
<1> QED
  BY <1>1 DEF Contradictory, Selected

\* The flags do not contradict each other when every group has nodes and no
\* node is in two of them.
LEMMA NotContradictory ==
  ASSUME TypeOK, FlagInv,
         \A g \in DOMAIN custom : custom[g] \cap DOMAIN listed # {},
         \A g, h \in DOMAIN custom : \A n \in DOMAIN listed :
           n \in custom[g] /\ n \in custom[h] => g = h
  PROVE  ~Contradictory
<1>1. \A f \in ToSet(flags) : f.group \in DOMAIN custom /\ custom[f.group] = f.nodes
  BY DEF FlagInv
<1>2. \A i \in DOMAIN flags : flags[i] \in ToSet(flags)
  BY FlagTypes
<1>3. \A f \in ToSet(flags) : Selected(f) # {}
  BY <1>1 DEF Selected
<1>4. ASSUME NEW i \in DOMAIN flags, NEW j \in DOMAIN flags, i # j
      PROVE  flags[i].group # flags[j].group /\ Selected(flags[i]) \cap Selected(flags[j]) = {}
  <2>1. flags[i].group # flags[j].group
    BY <1>4 DEF FlagInv, NamedTwice
  <2> QED
    BY <1>1, <1>2, <2>1 DEF Selected
<1> QED
  BY <1>3, <1>4 DEF Contradictory

LEMMA ParseStep ==
  ASSUME TypeOK, parseCustomNodeGroups
  PROVE  FlagInv' /\ IsPartial(custom', Names, SUBSET Nodes)
<1>1. /\ \A f \in ToSet(flags) : f.wellFormed
      /\ ~NamedTwice
      /\ custom' = [g \in {f.group : f \in ToSet(flags)} |->
                     (CHOOSE f \in ToSet(flags) : f.group = g).nodes]
      /\ flags' = flags
  BY DEF parseCustomNodeGroups
<1>2. \A f, h \in ToSet(flags) : f.group = h.group => f = h
  BY <1>1, FlagTypes DEF NamedTwice
<1>3. ASSUME NEW f \in ToSet(flags)
      PROVE  custom'[f.group] = f.nodes /\ f.group \in Names /\ f.nodes \in SUBSET Nodes
  <2>1. (CHOOSE h \in ToSet(flags) : h.group = f.group) = f
    BY <1>2
  <2>2. f \in Flag
    BY FlagTypes
  <2> QED
    BY <1>1, <2>1, <2>2 DEF Flag
<1>4. DOMAIN custom' = {f.group : f \in ToSet(flags)}
  BY <1>1
<1>5. \A g \in DOMAIN custom' : custom'[g] \in SUBSET Nodes
  BY <1>3, <1>4
<1>6. DOMAIN custom' \subseteq Names
  BY <1>3, <1>4
<1>7. custom' \in [DOMAIN custom' -> SUBSET Nodes]
  BY <1>1, <1>5
<1> QED
  BY <1>1, <1>3, <1>4, <1>6, <1>7 DEF FlagInv, NamedTwice, IsPartial

-----------------------------------------------------------------------------
(* Type correctness                                                        *)

LEMMA ListedTypes ==
  ASSUME TypeOK
  PROVE  /\ DOMAIN listed \subseteq Nodes
         /\ IsFiniteSet(DOMAIN listed)
         /\ \A n \in DOMAIN listed : /\ listed[n].pool \in Names \cup {None}
                                     /\ listed[n].nodePool \in Names \cup {None}
                                     /\ listed[n].roles \in SUBSET Names
                                     /\ IsFiniteSet(listed[n].roles)
<1>1. /\ IsPartial(listed, Nodes, Attributes)
      /\ IsFiniteSet(DOMAIN listed)
      /\ \A n \in DOMAIN listed : IsFiniteSet(listed[n].roles)
  BY ListingsAssumption DEF TypeOK
<1>2. \A n \in DOMAIN listed : listed[n] \in Attributes
  BY <1>1 DEF IsPartial
<1> QED
  BY <1>1, <1>2 DEF IsPartial, Attributes

LEMMA EmptyIsPartial ==
  ASSUME NEW D, NEW R
  PROVE  IsPartial(EmptyMap, D, R) /\ DOMAIN EmptyMap = {}
  BY DEF IsPartial, EmptyMap

LEMMA TypeInitially == Init => TypeOK
<1> SUFFICES ASSUME Init PROVE TypeOK
  OBVIOUS
<1>1. /\ IsPartial(EmptyMap, Names, SUBSET Nodes)
      /\ IsPartial(EmptyMap, Nodes, Names)
  BY EmptyIsPartial
<1> QED
  BY <1>1 DEF Init, TypeOK

\* Where the map of groups comes from.
LEMMA ResolveStep ==
  ASSUME TypeOK, ResolveNodeToPool \/ BuildNodeToGroupMap
  PROVE  /\ base' \in [DOMAIN listed -> Names]
         /\ nodeToGroup' = base'
         /\ BaseInv'
         /\ left' = DOMAIN custom /\ pc = "resolve" /\ pc' = "override"
         /\ UNCHANGED <<listed, flags, custom, matchedBy, current, todo, prevLen>>
<1>1. CASE ResolveNodeToPool
  <2>1. /\ HasPools /\ base' = [n \in DOMAIN listed |-> listed[n].pool] /\ listed' = listed
        /\ nodeToGroup' = base'
        /\ left' = DOMAIN custom /\ pc = "resolve" /\ pc' = "override"
        /\ UNCHANGED <<listed, flags, custom, matchedBy, current, todo, prevLen>>
    BY <1>1 DEF ResolveNodeToPool, BeginOverrides
  <2>2. \A n \in DOMAIN listed : listed[n].pool \in Names
    BY <2>1, ListedTypes DEF HasPools
  <2>3. base' \in [DOMAIN listed -> Names] /\ \A n \in DOMAIN listed : base'[n] = listed[n].pool
    BY <2>1, <2>2
  <2>4. HasPools' /\ \A n \in DOMAIN listed' : base'[n] \in {listed'[n].pool}
    BY <2>1, <2>3 DEF HasPools
  <2>5. BaseInv'
    BY <2>4 DEF BaseInv
  <2> QED
    BY <2>1, <2>3, <2>5
<1>2. CASE BuildNodeToGroupMap
  <2>1. PICK map \in [DOMAIN listed -> Names] :
          /\ ~HasPools
          /\ \A n \in DOMAIN listed : map[n] \in FallbackGroups(n)
          /\ base' = map /\ nodeToGroup' = map
          /\ left' = DOMAIN custom /\ pc = "resolve" /\ pc' = "override"
          /\ UNCHANGED <<listed, flags, custom, matchedBy, current, todo, prevLen>>
    BY <1>2 DEF BuildNodeToGroupMap, BeginOverrides
  <2>2. ~HasPools'
    BY <2>1 DEF HasPools
  <2>3. \A n : FallbackGroups(n)' = FallbackGroups(n)
    BY <2>1 DEF FallbackGroups, RolesOf
  <2>4. BaseInv'
    BY <2>1, <2>2, <2>3 DEF BaseInv
  <2> QED
    BY <2>1, <2>4
<1> QED
  BY <1>1, <1>2

\* What the overrides leave alone.
LEMMA MoveTypes ==
  ASSUME TypeOK, NEW g \in Names, NEW n \in Nodes, MoveNode(g, n)
  PROVE  /\ IsPartial(nodeToGroup', Nodes, Names)
         /\ IsPartial(matchedBy', Nodes, Names)
         /\ DOMAIN matchedBy' = DOMAIN matchedBy \cup {n}
         /\ DOMAIN nodeToGroup' = DOMAIN nodeToGroup
         /\ matchedBy'[n] = g
         /\ n \in DOMAIN nodeToGroup => nodeToGroup'[n] = g
         /\ \A x \in DOMAIN matchedBy \ {n} : matchedBy'[x] = matchedBy[x]
         /\ \A x \in DOMAIN nodeToGroup \ {n} : nodeToGroup'[x] = nodeToGroup[x]
  BY DEF MoveNode, TypeOK, IsPartial

LEMMA MatchedFinite ==
  ASSUME TypeOK, LoopInv
  PROVE  IsFiniteSet(DOMAIN matchedBy) /\ DOMAIN matchedBy \subseteq DOMAIN listed
<1>1. DOMAIN matchedBy \in SUBSET (DOMAIN listed) /\ IsFiniteSet(DOMAIN listed)
  BY ListedTypes DEF LoopInv
<1> QED
  BY <1>1, FS_Subset

LEMMA TypeStep == TypeOK /\ (pc = "override" => LoopInv) /\ [Next]_vars => TypeOK'
<1> SUFFICES ASSUME TypeOK, pc = "override" => LoopInv, [Next]_vars PROVE TypeOK'
  OBVIOUS
<1>1. ASSUME Fail PROVE TypeOK'
  BY <1>1 DEF Fail, TypeOK
<1>2. CASE parseCustomNodeGroups
  BY <1>2, ParseStep DEF parseCustomNodeGroups, TypeOK
<1>3. CASE BadFlag \/ NoRole
  BY <1>1, <1>3 DEF BadFlag, NoRole
<1>4. CASE ResolveNodeToPool \/ BuildNodeToGroupMap
  <2>1. IsPartial(base', Nodes, Names)
    BY <1>4, ResolveStep, ListedTypes DEF IsPartial
  <2>2. left' \in SUBSET Names
    BY <1>4, ResolveStep DEF TypeOK, IsPartial
  <2> QED
    BY <1>4, <2>1, <2>2, ResolveStep DEF TypeOK
<1>5. ASSUME NEW g \in Names, PickGroup(g) PROVE TypeOK'
  <2>1. pc = "override" /\ prevLen' = Cardinality(DOMAIN matchedBy)
    BY <1>5 DEF PickGroup
  <2>2. prevLen' \in Nat
    BY <2>1, MatchedFinite, FS_CardinalityType
  <2> QED
    BY <1>5, <2>2 DEF PickGroup, TypeOK, IsPartial
<1>6. ASSUME NEW g \in Names, EndGroup(g) PROVE TypeOK'
  BY <1>1, <1>6 DEF EndGroup, TypeOK
<1>7. ASSUME NEW g \in Names, NEW n \in Nodes, SkipNode(g, n) \/ MatchedTwice(g, n) PROVE TypeOK'
  BY <1>1, <1>7 DEF SkipNode, MatchedTwice, TypeOK
<1>8. ASSUME NEW g \in Names, NEW n \in Nodes, MoveNode(g, n) PROVE TypeOK'
  BY <1>8, MoveTypes DEF MoveNode, TypeOK
<1>9. CASE Return \/ UNCHANGED vars
  BY <1>9 DEF Return, vars, TypeOK
<1> QED
  BY <1>2, <1>3, <1>4, <1>5, <1>6, <1>7, <1>8, <1>9 DEF Next

-----------------------------------------------------------------------------
(* The loops of the overrides                                              *)

\* LoopInv in parts: the shape of the state, what was matched so far, and what
\* the rounds of the finished groups have shown.
LoopShape ==
  /\ DOMAIN base = DOMAIN listed
  /\ DOMAIN nodeToGroup = DOMAIN listed
  /\ left \subseteq DOMAIN custom
  /\ current \subseteq left
  /\ \A g, h \in current : g = h
  /\ current # {} => todo \subseteq DOMAIN listed

Matched ==
  /\ DOMAIN matchedBy \subseteq DOMAIN listed
  /\ \A n \in DOMAIN listed : \A g \in DOMAIN custom : MatchedFor(n, g) => n \in DOMAIN matchedBy
  /\ \A n \in DOMAIN matchedBy :
       /\ matchedBy[n] \in DOMAIN custom
       /\ MatchedFor(n, matchedBy[n])
       /\ nodeToGroup[n] = matchedBy[n]
       /\ \A g \in DOMAIN custom : MatchedFor(n, g) => g = matchedBy[n]
  /\ \A n \in DOMAIN listed \ DOMAIN matchedBy : nodeToGroup[n] = base[n]

Earlier == {n \in DOMAIN listed : \E h \in DOMAIN custom \ left : n \in custom[h]}

Rounds ==
  /\ \A g \in DOMAIN custom \ left : custom[g] \cap DOMAIN listed # {}
  /\ \A g \in current : prevLen = Cardinality(Earlier)

LEMMA LoopInvParts == LoopInv <=> LoopShape /\ Matched /\ Rounds
<1>1. LoopInv => LoopShape /\ Rounds
  BY DEF LoopInv, LoopShape, Rounds, Earlier
<1>2. ASSUME LoopInv PROVE Matched
  <2>1. DOMAIN matchedBy = {n \in DOMAIN listed : \E g \in DOMAIN custom : MatchedFor(n, g)}
    BY <1>2 DEF LoopInv
  <2>2. ASSUME NEW n \in DOMAIN matchedBy PROVE matchedBy[n] \in DOMAIN custom
    <3>1. MatchedFor(n, matchedBy[n])
      BY <1>2, <2>2 DEF LoopInv
    <3> QED
      BY <1>2, <3>1 DEF LoopInv, MatchedFor
  <2> QED
    BY <1>2, <2>1, <2>2 DEF LoopInv, Matched
<1>3. ASSUME LoopShape, Matched, Rounds PROVE LoopInv
  <2>1. DOMAIN matchedBy = {n \in DOMAIN listed : \E g \in DOMAIN custom : MatchedFor(n, g)}
    BY <1>3 DEF Matched
  <2> QED
    BY <1>3, <2>1 DEF LoopInv, LoopShape, Matched, Rounds, Earlier
<1> QED
  BY <1>1, <1>2, <1>3

LEMMA LoopBegins ==
  ASSUME TypeOK, matchedBy = EmptyMap, current = {}, ResolveNodeToPool \/ BuildNodeToGroupMap
  PROVE  LoopInv'
<1>1. /\ base' \in [DOMAIN listed -> Names] /\ nodeToGroup' = base' /\ left' = DOMAIN custom
      /\ UNCHANGED <<listed, flags, custom, matchedBy, current, todo, prevLen>>
  BY ResolveStep
<1>2. DOMAIN matchedBy' = {} /\ current' = {} /\ DOMAIN custom' \ left' = {}
  BY <1>1, EmptyIsPartial
<1>3. \A n, g : ~MatchedFor(n, g)'
  BY <1>2 DEF MatchedFor
<1>4. LoopShape' /\ Matched' /\ Rounds'
  BY <1>1, <1>2, <1>3 DEF LoopShape, Matched, Rounds
<1> QED
  BY <1>4, LoopInvParts, PTL

LEMMA PickGroupStep ==
  ASSUME TypeOK, LoopInv, NEW g \in Names, PickGroup(g)
  PROVE  LoopInv'
<1>1. /\ current = {} /\ g \in left /\ current' = {g} /\ todo' = DOMAIN nodeToGroup
      /\ prevLen' = Cardinality(DOMAIN matchedBy)
      /\ UNCHANGED <<listed, flags, custom, base, nodeToGroup, matchedBy, left, pc>>
  BY DEF PickGroup
<1>2. LoopShape /\ Matched /\ Rounds
  BY LoopInvParts
<1>3. LoopShape'
  BY <1>1, <1>2 DEF LoopShape
<1>4. \A n \in DOMAIN listed : \A h \in DOMAIN custom : MatchedFor(n, h)' <=> MatchedFor(n, h)
  BY <1>1, <1>2 DEF MatchedFor, LoopShape
<1>5. Matched'
  BY <1>1, <1>2, <1>4 DEF Matched
<1>6. DOMAIN matchedBy = Earlier
  BY <1>1, <1>2 DEF Matched, Earlier, MatchedFor
<1>7. Earlier' = Earlier
  BY <1>1 DEF Earlier
<1>8. Rounds'
  BY <1>1, <1>2, <1>6, <1>7 DEF Rounds
<1> QED
  BY <1>3, <1>5, <1>8, LoopInvParts, PTL

LEMMA SkipNodeStep ==
  ASSUME TypeOK, LoopInv, NEW g \in Names, NEW n \in Nodes, SkipNode(g, n)
  PROVE  LoopInv'
<1>1. /\ g \in current /\ n \in todo /\ n \notin custom[g] /\ todo' = todo \ {n}
      /\ UNCHANGED <<listed, flags, custom, base, nodeToGroup, matchedBy, left, current, prevLen, pc>>
  BY DEF SkipNode
<1>2. LoopShape /\ Matched /\ Rounds
  BY LoopInvParts
<1>3. LoopShape' /\ Rounds'
  BY <1>1, <1>2 DEF LoopShape, Rounds, Earlier
<1>4. \A x, h : MatchedFor(x, h)' <=> MatchedFor(x, h)
  BY <1>1, <1>2 DEF MatchedFor, LoopShape
<1>5. Matched'
  BY <1>1, <1>2, <1>4 DEF Matched
<1> QED
  BY <1>3, <1>5, LoopInvParts, PTL

LEMMA MoveNodeStep ==
  ASSUME TypeOK, LoopInv, NEW g \in Names, NEW n \in Nodes, MoveNode(g, n)
  PROVE  LoopInv'
<1>1. /\ g \in current /\ n \in todo /\ n \in custom[g] /\ n \notin DOMAIN matchedBy
      /\ todo' = todo \ {n}
      /\ UNCHANGED <<listed, flags, custom, base, left, current, prevLen, pc>>
  BY DEF MoveNode
<1>2. LoopShape /\ Matched /\ Rounds
  BY LoopInvParts
<1>3. /\ DOMAIN matchedBy' = DOMAIN matchedBy \cup {n}
      /\ DOMAIN nodeToGroup' = DOMAIN nodeToGroup
      /\ matchedBy'[n] = g
      /\ n \in DOMAIN nodeToGroup => nodeToGroup'[n] = g
      /\ \A x \in DOMAIN matchedBy \ {n} : matchedBy'[x] = matchedBy[x]
      /\ \A x \in DOMAIN nodeToGroup \ {n} : nodeToGroup'[x] = nodeToGroup[x]
  BY MoveTypes
<1>4. LoopShape' /\ Rounds'
  BY <1>1, <1>2, <1>3 DEF LoopShape, Rounds, Earlier
<1>5. n \in DOMAIN listed /\ g \in DOMAIN custom
  BY <1>1, <1>2 DEF LoopShape
<1>6. \A x, h : x # n => (MatchedFor(x, h)' <=> MatchedFor(x, h))
  BY <1>1 DEF MatchedFor
<1>7. \A h \in DOMAIN custom : MatchedFor(n, h)' <=> h = g
  <2>1. ASSUME NEW h \in DOMAIN custom, MatchedFor(n, h)' PROVE h = g
    <3>1. ~MatchedFor(n, h)
      BY <1>1, <1>2, <1>5 DEF Matched
    <3>2. h \in current
      BY <1>1, <2>1, <3>1 DEF MatchedFor
    <3> QED
      BY <1>1, <1>2, <3>2 DEF LoopShape
  <2>2. MatchedFor(n, g)'
    BY <1>1, <1>5 DEF MatchedFor
  <2> QED
    BY <2>1, <2>2
<1>8. /\ DOMAIN matchedBy' \subseteq DOMAIN listed'
      /\ \A x \in DOMAIN listed' : \A h \in DOMAIN custom' :
           MatchedFor(x, h)' => x \in DOMAIN matchedBy'
  BY <1>1, <1>2, <1>3, <1>5, <1>6 DEF Matched
<1>9. ASSUME NEW x \in DOMAIN matchedBy'
      PROVE  /\ matchedBy'[x] \in DOMAIN custom'
             /\ (MatchedFor(x, matchedBy[x]))'
             /\ nodeToGroup'[x] = matchedBy'[x]
             /\ \A h \in DOMAIN custom' : MatchedFor(x, h)' => h = matchedBy'[x]
  <2>1. CASE x = n
    <3>1. MatchedFor(n, g)' /\ matchedBy'[n] = g
      BY <1>3, <1>5, <1>7
    <3> QED
      BY <1>1, <1>2, <1>3, <1>5, <1>7, <2>1, <3>1 DEF LoopShape, MatchedFor
  <2>2. CASE x # n
    <3>1. x \in DOMAIN matchedBy /\ matchedBy'[x] = matchedBy[x] /\ nodeToGroup'[x] = nodeToGroup[x]
      BY <1>2, <1>3, <1>9, <2>2 DEF LoopShape, Matched
    <3>2. MatchedFor(x, matchedBy[x])
      BY <1>2, <3>1 DEF Matched
    <3>3. (MatchedFor(x, matchedBy[x]))'
      BY <1>1, <2>2, <3>1, <3>2 DEF MatchedFor
    <3> QED
      BY <1>1, <1>2, <1>6, <2>2, <3>1, <3>3 DEF Matched
  <2> QED
    BY <2>1, <2>2
<1>10. \A x \in DOMAIN listed' \ DOMAIN matchedBy' : nodeToGroup'[x] = base'[x]
  BY <1>1, <1>2, <1>3 DEF Matched, LoopShape
<1>11. Matched'
  BY <1>8, <1>9, <1>10 DEF Matched
<1> QED
  BY <1>4, <1>11, LoopInvParts, PTL

\* The nodes that were matched when a group is done.
LEMMA RoundDone ==
  ASSUME TypeOK, LoopInv, NEW g \in current, todo = {}
  PROVE  /\ g \in DOMAIN custom
         /\ DOMAIN matchedBy = Earlier \cup (custom[g] \cap DOMAIN listed)
         /\ prevLen = Cardinality(Earlier)
<1>1. LoopShape /\ Matched /\ Rounds
  BY LoopInvParts
<1>2. ASSUME NEW n \in DOMAIN listed
      PROVE  n \in DOMAIN matchedBy <=> n \in Earlier \cup custom[g]
  <2>1. n \in DOMAIN matchedBy <=> \E h \in DOMAIN custom : MatchedFor(n, h)
    BY <1>1 DEF Matched
  <2>2. \A h \in DOMAIN custom : MatchedFor(n, h) <=> n \in custom[h] /\ (h \notin left \/ h = g)
    BY <1>1 DEF MatchedFor, LoopShape
  <2> QED
    BY <1>1, <2>1, <2>2 DEF Earlier, LoopShape
<1> QED
  BY <1>1, <1>2 DEF LoopShape, Matched, Rounds, Earlier

LEMMA EndGroupStep ==
  ASSUME TypeOK, LoopInv, NEW g \in Names, EndGroup(g), ~Fail
  PROVE  LoopInv'
<1>1. /\ g \in current /\ todo = {} /\ Cardinality(DOMAIN matchedBy) # prevLen
      /\ left' = left \ {g} /\ current' = {}
      /\ UNCHANGED <<listed, flags, custom, base, nodeToGroup, matchedBy, todo, prevLen, pc>>
  BY DEF EndGroup
<1>2. LoopShape /\ Matched /\ Rounds
  BY LoopInvParts
<1>3. LoopShape'
  BY <1>1, <1>2 DEF LoopShape
<1>4. \A n, h : h \in DOMAIN custom => (MatchedFor(n, h)' <=> MatchedFor(n, h))
  BY <1>1, <1>2 DEF MatchedFor, LoopShape
<1>5. Matched'
  BY <1>1, <1>2, <1>4 DEF Matched
<1>6. custom[g] \cap DOMAIN listed # {}
  BY <1>1, RoundDone
<1>7. Rounds'
  BY <1>1, <1>2, <1>6 DEF Rounds
<1> QED
  BY <1>3, <1>5, <1>7, LoopInvParts, PTL

LEMMA LoopStep == TypeOK /\ LoopInv /\ [Next]_vars /\ pc = "override" /\ pc' = "override" => LoopInv'
<1> SUFFICES ASSUME TypeOK, LoopInv, [Next]_vars, pc = "override", pc' = "override"
             PROVE  LoopInv'
  OBVIOUS
<1>1. ~Fail
  BY DEF Fail
<1>2. CASE UNCHANGED vars
  BY <1>2 DEF vars, LoopInv, MatchedFor
<1>3. ~(parseCustomNodeGroups \/ BadFlag \/ ResolveNodeToPool \/ BuildNodeToGroupMap \/ NoRole \/ Return)
  BY DEF parseCustomNodeGroups, BadFlag, ResolveNodeToPool, BuildNodeToGroupMap, NoRole, Return
<1>4. \A g \in Names, n \in Nodes : ~MatchedTwice(g, n)
  BY <1>1 DEF MatchedTwice
<1> QED
  BY <1>1, <1>2, <1>3, <1>4, PickGroupStep, SkipNodeStep, MoveNodeStep, EndGroupStep DEF Next

-----------------------------------------------------------------------------
(* The errors, and the outcome                                             *)

\* A node that was matched before, and a round without a gain, are errors of
\* the flags.
LEMMA MatchedTwiceIsContradictory ==
  ASSUME TypeOK, FlagInv, LoopInv, NEW g \in Names, NEW n \in Nodes, MatchedTwice(g, n)
  PROVE  Contradictory
<1>1. g \in current /\ n \in todo /\ n \in custom[g] /\ n \in DOMAIN matchedBy
  BY DEF MatchedTwice
<1>2. LoopShape /\ Matched
  BY LoopInvParts
<1> DEFINE h == matchedBy[n]
<1>3. n \in DOMAIN listed /\ h \in DOMAIN custom /\ n \in custom[h]
  BY <1>1, <1>2 DEF Matched, MatchedFor
<1>4. g # h /\ g \in DOMAIN custom
  BY <1>1, <1>2 DEF LoopShape, Matched, MatchedFor
<1> HIDE DEF h
<1> QED
  BY <1>1, <1>3, <1>4, SharedNode

LEMMA NoGainIsContradictory ==
  ASSUME TypeOK, FlagInv, LoopInv, NEW g \in current, todo = {},
         Cardinality(DOMAIN matchedBy) = prevLen
  PROVE  Contradictory
<1>1. /\ g \in DOMAIN custom /\ g \in left
      /\ DOMAIN matchedBy = Earlier \cup (custom[g] \cap DOMAIN listed)
      /\ prevLen = Cardinality(Earlier)
  BY RoundDone, LoopInvParts DEF LoopShape
<1>2. Earlier \in SUBSET (DOMAIN matchedBy) /\ IsFiniteSet(DOMAIN matchedBy)
  BY <1>1, MatchedFinite
<1>3. Earlier = DOMAIN matchedBy
  BY <1>1, <1>2, FS_Subset
<1>4. CASE custom[g] \cap DOMAIN listed = {}
  BY <1>1, <1>4, GroupWithoutNodes
<1>5. ASSUME NEW n \in custom[g] \cap DOMAIN listed PROVE Contradictory
  <2>1. PICK h \in DOMAIN custom \ left : n \in custom[h]
    BY <1>1, <1>3, <1>5 DEF Earlier
  <2>2. h # g
    BY <1>1, <2>1
  <2> QED
    BY <1>1, <1>5, <2>1, <2>2, SharedNode
<1> QED
  BY <1>4, <1>5

\* The flags and the error they lead to: Contradictory is about what does not
\* change.
LEMMA ErrorStep ==
  ASSUME TypeOK,
         pc = "override" => FlagInv /\ LoopInv,
         [Next]_vars, pc' = "error", pc # "error"
  PROVE  \/ Contradictory
         \/ \E f \in ToSet(flags) : ~f.wellFormed
         \/ ~HasPools /\ \E n \in DOMAIN listed : FallbackGroups(n) = {}
<1>1. CASE BadFlag
  BY <1>1 DEF BadFlag, NamedTwice, Contradictory
<1>2. CASE NoRole
  BY <1>2 DEF NoRole
<1>3. ASSUME NEW g \in Names, NEW n \in Nodes, MatchedTwice(g, n) PROVE Contradictory
  BY <1>3, MatchedTwiceIsContradictory DEF MatchedTwice
<1>4. ASSUME NEW g \in Names, EndGroup(g) PROVE Contradictory
  <2>1. /\ pc = "override" /\ g \in current /\ todo = {}
        /\ Cardinality(DOMAIN matchedBy) = prevLen
    BY <1>4 DEF EndGroup
  <2> QED
    BY <2>1, NoGainIsContradictory
<1>5. ~(parseCustomNodeGroups \/ ResolveNodeToPool \/ BuildNodeToGroupMap \/ Return \/ UNCHANGED vars)
  BY DEF parseCustomNodeGroups, ResolveNodeToPool, BuildNodeToGroupMap, BeginOverrides, Return, vars
<1>6. \A g \in Names, n \in Nodes : ~(PickGroup(g) \/ SkipNode(g, n) \/ MoveNode(g, n))
  BY DEF PickGroup, SkipNode, MoveNode
<1> QED
  BY <1>1, <1>2, <1>3, <1>4, <1>5, <1>6 DEF Next, PickGroup

\* Where nothing decides between the roles of a node, there are several.
LEMMA FallbackDecided ==
  ASSUME TypeOK, NEW n \in DOMAIN listed, ~HasPools, NEW g, g \in FallbackGroups(n)
  PROVE  \/ g = listed[n].nodePool
         \/ listed[n].nodePool = None /\ RolesOf(n) = {g}
         \/ Undecided(n) /\ g \in listed[n].roles
<1> DEFINE roles == listed[n].roles
           known == {"master", "control-plane"} \cap roles # {}
<1>1. CASE listed[n].nodePool # None
  BY <1>1 DEF FallbackGroups
<1>2. CASE listed[n].nodePool = None
  <2>1. g \in RolesOf(n)
    BY <1>2 DEF FallbackGroups
  <2>2. RolesOf(n) = IF known THEN {"master"} ELSE IF "worker" \in roles THEN {"worker"} ELSE roles
    BY DEF RolesOf
  <2>3. CASE known \/ "worker" \in roles
    BY <1>2, <2>1, <2>2, <2>3
  <2>4. CASE ~known /\ "worker" \notin roles
    <3>1. RolesOf(n) = roles /\ g \in roles /\ IsFiniteSet(roles)
      BY <2>1, <2>2, <2>4, ListedTypes
    <3>2. {"master", "control-plane", "worker"} \cap roles = {}
      BY <2>4
    <3>3. Cardinality(roles) \in Nat /\ Cardinality(roles) # 0
      BY <3>1, FS_CardinalityType, FS_EmptySet
    <3>4. CASE Cardinality(roles) = 1
      <4>1. PICK x : roles = {x}
        BY <3>1, <3>4, FS_Singleton
      <4> QED
        BY <1>2, <3>1, <4>1
    <3>5. CASE Cardinality(roles) > 1
      BY <1>2, <3>1, <3>2, <3>5 DEF Undecided
    <3> QED
      BY <3>3, <3>4, <3>5
  <2> QED
    BY <2>3, <2>4
<1> QED
  BY <1>1, <1>2

\* What the loops leave behind when no group is left.
LEMMA Outcome ==
  ASSUME TypeOK, FlagInv, LoopInv, BaseInv, current = {}, left = {}
  PROVE  /\ ~Contradictory
         /\ DOMAIN nodeToGroup = DOMAIN listed
         /\ \A n \in DOMAIN listed :
              \/ \E f \in ToSet(flags) : n \in f.nodes /\ nodeToGroup[n] = f.group
              \/ /\ \A f \in ToSet(flags) : n \notin f.nodes
                 /\ \/ HasPools /\ nodeToGroup[n] = listed[n].pool
                    \/ ~HasPools /\ nodeToGroup[n] = listed[n].nodePool
                    \/ ~HasPools /\ listed[n].nodePool = None /\ RolesOf(n) = {nodeToGroup[n]}
                    \/ Undecided(n) /\ nodeToGroup[n] \in listed[n].roles
<1>1. LoopShape /\ Matched /\ Rounds
  BY LoopInvParts
<1>2. \A n \in DOMAIN listed : \A g \in DOMAIN custom : MatchedFor(n, g) <=> n \in custom[g]
  BY DEF MatchedFor
<1>3. \A g, h \in DOMAIN custom : \A n \in DOMAIN listed :
        n \in custom[g] /\ n \in custom[h] => g = h
  BY <1>1, <1>2 DEF Matched
<1>4. ~Contradictory
  BY <1>1, <1>3, NotContradictory DEF Rounds
<1>5. ASSUME NEW n \in DOMAIN matchedBy
      PROVE  \E f \in ToSet(flags) : n \in f.nodes /\ nodeToGroup[n] = f.group
  <2>1. /\ matchedBy[n] \in DOMAIN custom /\ n \in custom[matchedBy[n]]
        /\ nodeToGroup[n] = matchedBy[n]
    BY <1>1 DEF Matched, MatchedFor
  <2>2. PICK i \in DOMAIN flags : /\ flags[i] \in ToSet(flags)
                                  /\ flags[i].group = matchedBy[n]
                                  /\ flags[i].nodes = custom[matchedBy[n]]
    BY <2>1, FlagOfGroup
  <2> QED
    BY <2>1, <2>2
<1>6. ASSUME NEW n \in DOMAIN listed \ DOMAIN matchedBy
      PROVE  /\ \A f \in ToSet(flags) : n \notin f.nodes
             /\ \/ HasPools /\ nodeToGroup[n] = listed[n].pool
                \/ ~HasPools /\ nodeToGroup[n] = listed[n].nodePool
                \/ ~HasPools /\ listed[n].nodePool = None /\ RolesOf(n) = {nodeToGroup[n]}
                \/ Undecided(n) /\ nodeToGroup[n] \in listed[n].roles
  <2>1. \A g \in DOMAIN custom : n \notin custom[g]
    BY <1>1, <1>2, <1>6 DEF Matched
  <2>2. \A f \in ToSet(flags) : n \notin f.nodes
    BY <2>1 DEF FlagInv
  <2>3. nodeToGroup[n] = base[n]
    BY <1>1, <1>6 DEF Matched
  <2>4. HasPools => base[n] = listed[n].pool
    BY <1>6 DEF BaseInv
  <2>5. ~HasPools => base[n] \in FallbackGroups(n)
    BY <1>6 DEF BaseInv
  <2> QED
    BY <1>6, <2>2, <2>3, <2>4, <2>5, FallbackDecided
<1> QED
  BY <1>1, <1>4, <1>5, <1>6 DEF LoopShape

LEMMA GroupsExactStep ==
  ASSUME TypeOK, GroupsExact, pc = "override" => FlagInv /\ LoopInv /\ BaseInv, [Next]_vars
  PROVE  GroupsExact'
<1>1. UNCHANGED <<listed, flags>>
  BY DEF Next, vars, Fail, parseCustomNodeGroups, BadFlag, ResolveNodeToPool, BuildNodeToGroupMap,
         NoRole, BeginOverrides, PickGroup, EndGroup, SkipNode, MatchedTwice, MoveNode, Return
<1>2. /\ Contradictory' <=> Contradictory
      /\ HasPools' <=> HasPools
      /\ \A n : /\ FallbackGroups(n)' = FallbackGroups(n) /\ RolesOf(n)' = RolesOf(n)
                /\ Undecided(n)' <=> Undecided(n)
  BY <1>1 DEF Contradictory, Selected, HasPools, FallbackGroups, RolesOf, Undecided
<1>3. CASE pc' = "done"
  <2>1. nodeToGroup' = nodeToGroup /\ (pc = "done" \/ Return)
    BY <1>3 DEF Next, vars, Fail, parseCustomNodeGroups, BadFlag, ResolveNodeToPool,
                BuildNodeToGroupMap, NoRole, BeginOverrides, PickGroup, EndGroup, SkipNode,
                MatchedTwice, MoveNode, Return
  <2>2. CASE pc = "done"
    BY <1>1, <1>2, <1>3, <2>1, <2>2 DEF GroupsExact
  <2>3. CASE Return
    <3>1. pc = "override" /\ current = {} /\ left = {}
      BY <2>3 DEF Return
    <3> QED
      BY <1>1, <1>2, <1>3, <2>1, <3>1, Outcome DEF GroupsExact
  <2> QED
    BY <2>1, <2>2, <2>3
<1>4. CASE pc' = "error"
  <2>1. CASE pc = "error"
    BY <1>1, <1>2, <1>4, <2>1 DEF GroupsExact
  <2>2. CASE pc # "error"
    BY <1>1, <1>2, <1>4, <2>2, ErrorStep DEF GroupsExact
  <2> QED
    BY <2>1, <2>2
<1> QED
  BY <1>3, <1>4 DEF GroupsExact

-----------------------------------------------------------------------------
(* The theorems                                                            *)

LEMMA FlagStep ==
  ASSUME TypeOK, pc \in {"resolve", "override"} => FlagInv, [Next]_vars,
         pc' \in {"resolve", "override"}
  PROVE  FlagInv'
<1>1. CASE parseCustomNodeGroups
  BY <1>1, ParseStep
<1>2. CASE ~parseCustomNodeGroups
  <2>1. UNCHANGED <<flags, custom>> /\ pc \in {"resolve", "override"}
    BY <1>2 DEF Next, vars, Fail, BadFlag, ResolveNodeToPool, BuildNodeToGroupMap,
                NoRole, BeginOverrides, PickGroup, EndGroup, SkipNode, MatchedTwice, MoveNode, Return
  <2> QED
    BY <2>1 DEF FlagInv, NamedTwice
<1> QED
  BY <1>1, <1>2

LEMMA BaseStep ==
  ASSUME TypeOK, pc = "override" => BaseInv, [Next]_vars, pc' = "override"
  PROVE  BaseInv'
<1>1. CASE ResolveNodeToPool \/ BuildNodeToGroupMap
  BY <1>1, ResolveStep
<1>2. CASE ~ResolveNodeToPool /\ ~BuildNodeToGroupMap
  <2>1. UNCHANGED <<listed, base>> /\ pc = "override"
    BY <1>2 DEF Next, vars, Fail, parseCustomNodeGroups, BadFlag, NoRole, PickGroup, EndGroup,
                SkipNode, MatchedTwice, MoveNode, Return
  <2> QED
    BY <2>1 DEF BaseInv, HasPools, FallbackGroups, RolesOf
<1> QED
  BY <1>1, <1>2

LEMMA IInvInitially == Init => IInv
<1> SUFFICES ASSUME Init PROVE IInv
  OBVIOUS
<1>1. pc = "parse" /\ matchedBy = EmptyMap /\ current = {}
  BY DEF Init
<1> QED
  BY <1>1, TypeInitially, IInvParts DEF GroupsExact

LEMMA IInvStep == IInv /\ [Next]_vars => IInv'
<1> SUFFICES ASSUME IInv, [Next]_vars PROVE IInv'
  OBVIOUS
<1>1. /\ TypeOK
      /\ pc \in {"parse", "resolve"} => matchedBy = EmptyMap /\ current = {}
      /\ pc \in {"resolve", "override"} => FlagInv
      /\ pc = "override" => LoopInv /\ BaseInv
      /\ GroupsExact
  BY IInvParts
<1>2. TypeOK'
  BY <1>1, TypeStep
<1>3. pc' \in {"parse", "resolve"} => matchedBy' = EmptyMap /\ current' = {}
  BY <1>1 DEF Next, vars, Fail, parseCustomNodeGroups, BadFlag, ResolveNodeToPool,
              BuildNodeToGroupMap, NoRole, BeginOverrides, PickGroup, EndGroup, SkipNode,
              MatchedTwice, MoveNode, Return
<1>4. pc' \in {"resolve", "override"} => FlagInv'
  BY <1>1, FlagStep
<1>5. ASSUME pc' = "override" PROVE LoopInv' /\ BaseInv'
  <2>1. BaseInv'
    BY <1>1, <1>5, BaseStep
  <2>2. CASE pc = "override"
    BY <1>1, <1>5, <2>1, <2>2, LoopStep
  <2>3. CASE pc # "override"
    <3>1. (ResolveNodeToPool \/ BuildNodeToGroupMap) /\ pc = "resolve"
      BY <1>5, <2>3 DEF Next, vars, Fail, parseCustomNodeGroups, BadFlag, ResolveNodeToPool,
                        BuildNodeToGroupMap, NoRole, BeginOverrides, PickGroup, EndGroup, SkipNode,
                        MatchedTwice, MoveNode, Return
    <3> QED
      BY <1>1, <2>1, <3>1, LoopBegins
  <2> QED
    BY <2>2, <2>3
<1>6. GroupsExact'
  BY <1>1, GroupsExactStep
<1> QED
  BY <1>2, <1>3, <1>4, <1>5, <1>6 DEF IInv, FlagInv, BaseInv

\* The invariant of the two loops of the overrides, in whatever order the maps
\* are gone through.
THEOREM Invariance == Spec => []IInv
<1>1. Init => IInv
  BY IInvInitially
<1>2. IInv /\ [Next]_vars => IInv'
  BY IInvStep
<1> QED
  BY <1>1, <1>2, PTL DEF Spec

\* The groups are a function of the listing and the flags, but for nodes of
\* undecided roles, and there is an error exactly when the flags or the roles
\* are to blame.
THEOREM GroupsAreExact == Spec => []GroupsExact
<1>1. IInv => GroupsExact
  BY DEF IInv
<1> QED
  BY <1>1, Invariance, PTL

=============================================================================
