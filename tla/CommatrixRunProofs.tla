-------------------------- MODULE CommatrixRunProofs --------------------------
(***************************************************************************)
(* Theorems about CommatrixRun, for every set of nodes, formats and groups *)
(* and any number of runs: its inductive invariant IInv, that a run which  *)
(* returns nil has written all of its files, and that no file is touched   *)
(* before the sessions of the run are over.                                *)
(***************************************************************************)
EXTENDS CommatrixRun, TLAPS

-----------------------------------------------------------------------------
(* Sessions                                                                *)

\* The steps of a session keep the types of its variables.
LEMMA SessionTypes ==
  ASSUME NsTypeOK, work \in {"none", "ok", "err"}, Begin \/ InSession \/ Crash
  PROVE  NsTypeOK' /\ work' \in {"none", "ok", "err"}
<1> USE DEF NsTypeOK, NsPhase, PodStatus, Over, Busy
<1>1. CASE Begin
  BY <1>1 DEF Begin, BeginSession, SkipSession, DisownPods
<1>2. CASE Call
  <2>1. CASE Create
    BY <2>1 DEF Create, CreateNamespace
  <2>2. CASE Ready
    BY <2>2 DEF Ready, WaitForAnnotation
  <2>3. CASE EndWork
    BY <2>3 DEF EndWork, clusterVars
  <2>4. CASE Delete
    BY <2>4 DEF Delete, DeleteNamespace
  <2>5. CASE Drain
    BY <2>5 DEF Drain, WaitForRemoval
  <2> QED
    BY <1>2, <2>1, <2>2, <2>3, <2>4, <2>5 DEF Call
<1>3. CASE Deadline
  BY <1>3 DEF Deadline, DeadlinePasses
<1>4. ASSUME NEW n \in Nodes, CreatePod(n) \/ DeletePod(n)
      PROVE  NsTypeOK' /\ work' \in {"none", "ok", "err"}
  BY <1>4 DEF CreatePod, DeletePod, sessionVars
<1>5. CASE Environment
  <2>1. UNCHANGED <<pc, expired, fresh, work>>
    BY <1>5 DEF Environment, Cluster, Annotate, StartPod, RemovePod, RemoveStale,
                FinalizeNamespace, Rival, sessionVars
  <2>2. /\ ns' \in NsPhase
        /\ annotated' \in BOOLEAN
        /\ pod' \in [Nodes -> PodStatus]
        /\ stale' \in SUBSET Nodes
        /\ dirty' \in BOOLEAN
        /\ alone' \in BOOLEAN
    BY <1>5 DEF Environment, Cluster, Annotate, StartPod, RemovePod, RemoveStale,
                FinalizeNamespace, Rival, RivalCreate, RivalDelete, RivalPod, sessionVars
  <2> QED
    BY <2>1, <2>2
<1>6. CASE Crash
  BY <1>6 DEF Crash, CrashSession
<1> QED
  BY <1>1, <1>2, <1>3, <1>4, <1>5, <1>6 DEF InSession

\* They keep what is known of the cluster.
LEMMA SessionCluster ==
  ASSUME NsTypeOK, ClusterInv, Begin \/ InSession \/ Crash
  PROVE  ClusterInv'
<1> USE DEF ClusterInv, NoTerminatingRace, NsTypeOK, Over, Busy
<1>1. CASE Begin
  <2>1. CASE BeginSession
    BY <2>1 DEF BeginSession, DisownPods
  <2>2. CASE SkipSession
    BY <2>2 DEF SkipSession, DisownPods
  <2> QED
    BY <1>1, <2>1, <2>2 DEF Begin
<1>2. CASE Call
  <2>1. CASE Create
    BY <2>1 DEF Create, CreateNamespace
  <2>2. CASE Ready
    BY <2>2 DEF Ready, WaitForAnnotation
  <2>3. CASE EndWork
    BY <2>3 DEF EndWork, clusterVars
  <2>4. CASE Delete
    BY <2>4 DEF Delete, DeleteNamespace
  <2>5. CASE Drain
    BY <2>5 DEF Drain, WaitForRemoval
  <2> QED
    BY <1>2, <2>1, <2>2, <2>3, <2>4, <2>5 DEF Call
<1>3. CASE Deadline
  BY <1>3 DEF Deadline, DeadlinePasses
<1>4. ASSUME NEW n \in Nodes, CreatePod(n) \/ DeletePod(n) PROVE ClusterInv'
  <2>1. UNCHANGED <<ns, annotated, stale, sessionVars>> /\ ns # "absent"
    BY <1>4 DEF CreatePod, DeletePod
  <2> QED
    BY <2>1 DEF sessionVars
<1>5. CASE Environment
  <2> SUFFICES ASSUME Cluster PROVE ClusterInv'
    BY <1>5 DEF Environment
  <2> USE DEF sessionVars
  <2>1. CASE Annotate
    BY <2>1 DEF Annotate
  <2>2. ASSUME NEW n \in Nodes, StartPod(n) PROVE ClusterInv'
    BY <2>2 DEF StartPod
  <2>3. ASSUME NEW n \in Nodes, RemovePod(n) PROVE ClusterInv'
    BY <2>3 DEF RemovePod
  <2>4. ASSUME NEW n \in Nodes, RemoveStale(n) PROVE ClusterInv'
    BY <2>4 DEF RemoveStale
  <2>5. CASE FinalizeNamespace
    BY <2>5 DEF FinalizeNamespace
  <2>6. CASE Rival
    BY <2>6 DEF Rival, RivalCreate, RivalDelete, RivalPod
  <2> QED
    BY <2>1, <2>2, <2>3, <2>4, <2>5, <2>6 DEF Cluster
<1>6. CASE Crash
  BY <1>6 DEF Crash, CrashSession
<1> QED
  BY <1>1, <1>2, <1>3, <1>4, <1>5, <1>6 DEF InSession

\* What the steps of an open session do to pc and work: nothing once it is
\* over, and it comes to an end with its work done or is aborted.
LEMMA SessionProgress ==
  ASSUME NsTypeOK, work \in {"none", "ok", "err"}, InSession
  PROVE  /\ pc \in Over => UNCHANGED <<pc, work>>
         /\ pc \in Busy => pc' \in Busy \cup {"aborted", "closed"}
         /\ pc' \in {"deleting", "draining", "closed"} =>
              work' # "none" \/ (pc \in {"deleting", "draining", "closed"} /\ work' = work)
         /\ (pc = "creating" => \A n \in Nodes : pod[n] = "none")
              => (pc' = "creating" => \A n \in Nodes : pod'[n] = "none")
<1> USE DEF NsTypeOK, Over, Busy
<1>1. CASE Call
  BY <1>1 DEF Call, Create, CreateNamespace, Ready, WaitForAnnotation, EndWork, Delete,
              DeleteNamespace, Drain, WaitForRemoval
<1>2. CASE Deadline
  BY <1>2 DEF Deadline, DeadlinePasses
<1>3. ASSUME NEW n \in Nodes, CreatePod(n) \/ DeletePod(n)
      PROVE  pc = "working" /\ UNCHANGED <<pc, work>>
  BY <1>3 DEF CreatePod, DeletePod, sessionVars
<1>4. CASE Environment
  <2>1. UNCHANGED <<pc, work>> /\ \A n \in Nodes : pod[n] = "none" => pod'[n] = "none"
    BY <1>4 DEF Environment, Cluster, Annotate, StartPod, RemovePod, RemoveStale,
                FinalizeNamespace, Rival, sessionVars
  <2> QED
    BY <2>1
<1> QED
  BY <1>1, <1>2, <1>3, <1>4 DEF InSession

\* A session that begins has done no work and has no pod.
LEMMA SessionBegins ==
  ASSUME Begin
  PROVE  /\ pc \in Over /\ pc' \in {"creating", "aborted"} /\ work' = "none"
         /\ \A n \in Nodes : pod'[n] = "none"
  BY DEF Begin, BeginSession, SkipSession, DisownPods

-----------------------------------------------------------------------------
(* The lists of files                                                      *)

\* What is in one of the sets of s, and that none of it is in two.
Members(s)  == UNION {s[i] : i \in 1..Len(s)}
Disjoint(s) == \A i, j \in 1..Len(s) : s[i] \cap s[j] # {} => i = j

LEMMA MembersCons ==
  ASSUME NEW A \in SUBSET FileNames, NEW s \in Seq(SUBSET FileNames)
  PROVE  /\ <<A>> \o s \in Seq(SUBSET FileNames)
         /\ Members(<<A>> \o s) = A \cup Members(s)
         /\ Disjoint(s) /\ A \cap Members(s) = {} => Disjoint(<<A>> \o s)
<1> DEFINE t == <<A>> \o s
<1>1. /\ t \in Seq(SUBSET FileNames)
      /\ Len(s) \in Nat
      /\ Len(t) = Len(s) + 1
      /\ t[1] = A
      /\ \A i \in 2..Len(t) : i - 1 \in 1..Len(s) /\ t[i] = s[i - 1]
  OBVIOUS
<1> HIDE DEF t
<1>2. \A i \in 1..Len(s) : i + 1 \in 1..Len(t) /\ t[i + 1] = s[i]
  BY <1>1
<1>3. \A i \in 1..Len(t) : i = 1 \/ (i - 1 \in 1..Len(s) /\ t[i] = s[i - 1])
  BY <1>1
<1>4. Members(t) = A \cup Members(s)
  <2>1. ASSUME NEW x \in Members(t) PROVE x \in A \cup Members(s)
    <3>1. PICK i \in 1..Len(t) : x \in t[i]
      BY DEF Members
    <3>2. t[i] = A \/ \E j \in 1..Len(s) : t[i] = s[j]
      BY <1>1, <1>3
    <3> QED
      BY <3>1, <3>2 DEF Members
  <2>2. ASSUME NEW x \in Members(s) PROVE x \in Members(t)
    <3>1. PICK i \in 1..Len(s) : x \in s[i]
      BY DEF Members
    <3>2. i + 1 \in 1..Len(t) /\ x \in t[i + 1]
      BY <1>2, <3>1
    <3> QED
      BY <3>2 DEF Members
  <2>3. ASSUME NEW x \in A PROVE x \in Members(t)
    <3>1. 1 \in 1..Len(t) /\ x \in t[1]
      BY <1>1, <2>3
    <3> QED
      BY <3>1 DEF Members
  <2> QED
    BY <2>1, <2>2, <2>3
<1>5. ASSUME Disjoint(s), A \cap Members(s) = {}, NEW i \in 1..Len(t), NEW j \in 1..Len(t),
             t[i] \cap t[j] # {}
      PROVE  i = j
  <2>1. \A k \in 1..Len(s) : A \cap s[k] = {}
    BY <1>5 DEF Members
  <2>2. i = 1 <=> j = 1
    BY <1>1, <1>3, <1>5, <2>1
  <2>3. i # 1 /\ j # 1 => i - 1 = j - 1
    BY <1>3, <1>5 DEF Disjoint
  <2> QED
    BY <1>1, <2>2, <2>3
<1> QED
  BY <1>1, <1>4, <1>5 DEF t, Disjoint

LEMMA MembersOne ==
  ASSUME NEW A \in SUBSET FileNames
  PROVE  <<A>> \in Seq(SUBSET FileNames) /\ Members(<<A>>) = A /\ Disjoint(<<A>>)
  BY DEF Members, Disjoint

\* The head is written to its end before the rest.
LEMMA MembersTail ==
  ASSUME NEW s \in Seq(SUBSET FileNames), s # <<>>, Head(s) = {}
  PROVE  /\ Tail(s) \in Seq(SUBSET FileNames)
         /\ Members(Tail(s)) = Members(s)
         /\ Disjoint(s) => Disjoint(Tail(s))
<1> DEFINE t == Tail(s)
<1>1. /\ t \in Seq(SUBSET FileNames)
      /\ Len(s) \in Nat \ {0}
      /\ Len(t) = Len(s) - 1
      /\ s[1] = {}
      /\ \A i \in 1..Len(t) : i + 1 \in 1..Len(s) /\ t[i] = s[i + 1]
  OBVIOUS
<1> HIDE DEF t
<1>2. ASSUME NEW x \in Members(t) PROVE x \in Members(s)
  <2>1. PICK i \in 1..Len(t) : x \in t[i]
    BY DEF Members
  <2> QED
    BY <1>1, <2>1 DEF Members
<1>3. ASSUME NEW x \in Members(s) PROVE x \in Members(t)
  <2>1. PICK i \in 1..Len(s) : x \in s[i]
    BY DEF Members
  <2>2. i # 1
    BY <1>1, <2>1
  <2>3. i - 1 \in 1..Len(t) /\ t[i - 1] = s[i]
    BY <1>1, <2>2
  <2> QED
    BY <2>1, <2>3 DEF Members
<1>4. ASSUME Disjoint(s), NEW i \in 1..Len(t), NEW j \in 1..Len(t), t[i] \cap t[j] # {}
      PROVE  i = j
  <2>1. s[i + 1] \cap s[j + 1] # {} /\ i + 1 \in 1..Len(s) /\ j + 1 \in 1..Len(s)
    BY <1>1, <1>4
  <2>2. i + 1 = j + 1
    BY <1>4, <2>1 DEF Disjoint
  <2> QED
    BY <2>2
<1> QED
  BY <1>1, <1>2, <1>3, <1>4 DEF t, Disjoint

\* One file less is to be written.
LEMMA HeadWithout ==
  ASSUME NEW s \in Seq(SUBSET FileNames), s # <<>>, NEW f
  PROVE  /\ [s EXCEPT ![1] = @ \ {f}] \in Seq(SUBSET FileNames)
         /\ Members([s EXCEPT ![1] = @ \ {f}]) \subseteq Members(s)
         /\ Members(s) \subseteq Members([s EXCEPT ![1] = @ \ {f}]) \cup {f}
         /\ Disjoint(s) => Disjoint([s EXCEPT ![1] = @ \ {f}])
<1> DEFINE t == [s EXCEPT ![1] = @ \ {f}]
<1>1. /\ t \in Seq(SUBSET FileNames)
      /\ Len(s) \in Nat \ {0}
      /\ Len(t) = Len(s)
      /\ t[1] = s[1] \ {f}
      /\ \A i \in 2..Len(s) : t[i] = s[i]
  OBVIOUS
<1> HIDE DEF t
<1>2. \A i \in 1..Len(s) : t[i] \subseteq s[i] /\ s[i] \subseteq t[i] \cup {f}
  BY <1>1
<1>3. /\ Members(t) \subseteq Members(s)
      /\ Members(s) \subseteq Members(t) \cup {f}
      /\ Disjoint(s) => Disjoint(t)
  BY <1>1, <1>2 DEF Members, Disjoint
<1> QED
  BY <1>1, <1>3 DEF t

LEMMA MembersFour ==
  ASSUME NEW A \in SUBSET FileNames, NEW B \in SUBSET FileNames, NEW C \in SUBSET FileNames, NEW D \in SUBSET FileNames,
         A \cap B = {}, A \cap C = {}, A \cap D = {}, B \cap C = {}, B \cap D = {}, C \cap D = {}
  PROVE  /\ <<A, B, C, D>> \in Seq(SUBSET FileNames)
         /\ Members(<<A, B, C, D>>) = A \cup B \cup C \cup D
         /\ Disjoint(<<A, B, C, D>>)
<1> DEFINE t == <<A, B, C, D>>
<1>1. /\ t \in Seq(SUBSET FileNames) /\ Len(t) = 4
      /\ t[1] = A /\ t[2] = B /\ t[3] = C /\ t[4] = D
  OBVIOUS
<1>2. 1..4 = {1, 2, 3, 4}
  OBVIOUS
<1> HIDE DEF t
<1>3. Members(t) = A \cup B \cup C \cup D
  BY <1>1, <1>2 DEF Members
<1>4. Disjoint(t)
  BY <1>1, <1>2 DEF Disjoint
<1> QED
  BY <1>1, <1>3, <1>4 DEF t

\* What BeginWrite puts on the list are the artifacts of the run, each once.
LEMMA FilesBegun ==
  ASSUME TypeOK, BeginWrite
  PROVE  /\ groups' \in SUBSET Pools
         /\ todo' \in Seq(SUBSET FileNames)
         /\ Members(todo') = Artifacts'
         /\ Disjoint(todo')
<1> DEFINE fmt    == opt.format
           gs     == groups'
           rules  == {fmt} \X gs
           policy == {<<"node-disruption-policy", "yaml">>}
           matrix == {<<"communication-matrix", fmt>>}
           tcp    == {<<"raw-ss-tcp", "">>}
           udp    == {<<"raw-ss-udp", "">>}
           ss     == {<<"ss-generated-matrix", fmt>>}
           diff   == {<<"matrix-diff-ss", "">>}
<1>1. /\ opt' = opt /\ opt.openPorts \in BOOLEAN
      /\ groups' \in SUBSET Pools
      /\ fmt \in Formats
      /\ fmt \in {"csv", "json", "yaml", "nft", "butane", "mc"}
  BY FormatsAssumption DEF TypeOK, BeginWrite, Options
<1>2. /\ fmt \in {"nft", "butane", "mc"} => todo' = MergedFiles(gs)
      /\ fmt \notin {"nft", "butane", "mc"} => todo' = MatrixFiles(opt.openPorts)
  BY DEF BeginWrite, formatRequiresMerge
<1>3. {<<fmt, g>> : g \in gs} = rules
  OBVIOUS
<1>4. /\ fmt = "nft" => Artifacts' = rules
      /\ fmt \in {"butane", "mc"} => Artifacts' = rules \cup policy
      /\ fmt \in {"csv", "json", "yaml"} =>
           Artifacts' = matrix \cup IF ~opt.openPorts THEN {} ELSE tcp \cup udp \cup ss \cup diff
  <2> DEFINE all == {<<"raw-ss-tcp", "">>, <<"raw-ss-udp", "">>,
                     <<"ss-generated-matrix", fmt>>, <<"matrix-diff-ss", "">>}
  <2>1. Artifacts' =
          CASE fmt = "nft" -> rules
            [] fmt \in {"butane", "mc"} -> rules \cup policy
            [] fmt \in {"csv", "json", "yaml"} ->
                 matrix \cup IF ~opt.openPorts THEN {} ELSE all
    BY <1>1 DEF Artifacts
  <2>2. all = tcp \cup udp \cup ss \cup diff
    OBVIOUS
  <2> HIDE DEF rules, policy, matrix, tcp, udp, ss, diff, all
  <2> QED
    BY <2>1, <2>2
<1>5. /\ rules \in SUBSET FileNames
      /\ matrix \in SUBSET FileNames /\ ss \in SUBSET FileNames
  BY <1>1 DEF FileNames
<1>6. /\ policy \in SUBSET FileNames /\ tcp \in SUBSET FileNames
      /\ udp \in SUBSET FileNames /\ diff \in SUBSET FileNames
  BY DEF FileNames, Fixed
<1>8. CASE fmt = "nft"
  <2>1. todo' = <<rules>>
    BY <1>2, <1>3, <1>8 DEF MergedFiles
  <2>2. Artifacts' = rules
    BY <1>4, <1>8
  <2> HIDE DEF rules, fmt, gs
  <2> QED
    BY <1>1, <1>5, <2>1, <2>2, MembersOne
<1>9. CASE fmt \in {"butane", "mc"}
  <2>1. todo' = <<rules>> \o <<policy>>
    BY <1>2, <1>3, <1>9 DEF MergedFiles
  <2>2. rules \cap policy = {}
    BY <1>9
  <2>3. Artifacts' = rules \cup policy
    BY <1>4, <1>9
  <2> HIDE DEF rules, policy, fmt, gs
  <2>4. <<policy>> \in Seq(SUBSET FileNames) /\ Members(<<policy>>) = policy /\ Disjoint(<<policy>>)
    BY <1>6, MembersOne
  <2>5. /\ <<rules>> \o <<policy>> \in Seq(SUBSET FileNames)
        /\ Members(<<rules>> \o <<policy>>) = rules \cup policy
        /\ Disjoint(<<rules>> \o <<policy>>)
    BY <1>5, <2>2, <2>4, MembersCons
  <2> QED
    BY <1>1, <2>1, <2>3, <2>5
<1>10. CASE fmt \in {"csv", "json", "yaml"} /\ ~opt.openPorts
  <2>1. todo' = <<matrix>>
    BY <1>2, <1>10 DEF MatrixFiles
  <2>2. Artifacts' = matrix
    BY <1>4, <1>10
  <2> HIDE DEF matrix, fmt, gs
  <2> QED
    BY <1>1, <1>5, <2>1, <2>2, MembersOne
<1>11. CASE fmt \in {"csv", "json", "yaml"} /\ opt.openPorts
  <2>1. todo' = <<matrix>> \o <<tcp, udp, ss, diff>>
    BY <1>2, <1>11 DEF MatrixFiles
  <2>2. /\ tcp \cap udp = {} /\ tcp \cap ss = {} /\ tcp \cap diff = {}
        /\ udp \cap ss = {} /\ udp \cap diff = {} /\ ss \cap diff = {}
        /\ matrix \cap (tcp \cup udp \cup ss \cup diff) = {}
    OBVIOUS
  <2>3. Artifacts' = matrix \cup (tcp \cup udp \cup ss \cup diff)
    BY <1>4, <1>11
  <2> HIDE DEF matrix, tcp, udp, ss, diff, fmt, gs
  <2>4. /\ <<tcp, udp, ss, diff>> \in Seq(SUBSET FileNames)
        /\ Members(<<tcp, udp, ss, diff>>) = tcp \cup udp \cup ss \cup diff
        /\ Disjoint(<<tcp, udp, ss, diff>>)
    BY <1>5, <1>6, <2>2, MembersFour
  <2> DEFINE rest == <<tcp, udp, ss, diff>>
             u    == tcp \cup udp \cup ss \cup diff
  <2> HIDE DEF rest, u
  <2>5. /\ <<matrix>> \o rest \in Seq(SUBSET FileNames)
        /\ Members(<<matrix>> \o rest) = matrix \cup u
        /\ Disjoint(<<matrix>> \o rest)
    <3>1. /\ rest \in Seq(SUBSET FileNames) /\ Members(rest) = u /\ Disjoint(rest)
          /\ matrix \cap u = {}
      BY <2>2, <2>4 DEF rest, u
    <3> QED
      BY <1>5, <3>1, MembersCons
  <2> QED
    BY <1>1, <2>1, <2>3, <2>5 DEF rest, u
<1> QED
  BY <1>1, <1>8, <1>9, <1>10, <1>11

-----------------------------------------------------------------------------
(* Type correctness, and the cluster                                       *)

\* Of the session, a step of the run makes one step, or none, or forgets what
\* came of the last one.
LEMMA SessionPart ==
  ASSUME [Next]_vars
  PROVE  \/ Begin \/ InSession \/ Crash
         \/ UNCHANGED sessionState
         \/ UNCHANGED nsVars /\ work' = "none"
  BY DEF Next, vars, Start, DetectFacts, GenerateMatrix, NewCheck, SessionStep, EndDHCP, SSFails,
         BeginWrite, WriteSome, Write, NextFile, Return, Kill

LEMMA SessionPartStep ==
  ASSUME TypeOK, ClusterInv, [Next]_vars
  PROVE  NsTypeOK' /\ work' \in {"none", "ok", "err"} /\ ClusterInv'
<1>1. CASE Begin \/ InSession \/ Crash
  BY <1>1, SessionTypes, SessionCluster DEF TypeOK
<1>2. CASE UNCHANGED nsVars /\ work' \in {work, "none"}
  BY <1>2 DEF TypeOK, NsTypeOK, ClusterInv, NoTerminatingRace, nsVars
<1> QED
  BY <1>1, <1>2, SessionPart DEF sessionState

LEMMA TypeInitially == Init => TypeOK
<1> SUFFICES ASSUME Init PROVE TypeOK
  OBVIOUS
<1>1. NsTypeOK
  BY DEF Init, SessionInit, NsInit, NsTypeOK, NsPhase, PodStatus, Over, Busy
<1>2. run \in 0..MaxRuns
  BY MaxRunsAssumption DEF Init
<1>3. DOMAIN files \subseteq FileNames /\ files \in [DOMAIN files -> Content]
  BY DEF Init
<1>4. <<>> \in Seq(SUBSET FileNames)
  OBVIOUS
<1> QED
  BY <1>1, <1>2, <1>3, <1>4 DEF Init, SessionInit, TypeOK, Ended

LEMMA PutTypes ==
  ASSUME TypeOK, run > 0, NEW f \in FileNames, NEW whole \in BOOLEAN, Put(f, whole)
  PROVE  /\ DOMAIN files' = DOMAIN files \cup {f}
         /\ files' \in [DOMAIN files' -> Content]
         /\ files'[f] = [run |-> run, whole |-> whole]
         /\ \A g \in DOMAIN files \ {f} : files'[g] = files[g]
<1>1. [run |-> run, whole |-> whole] \in Content
  BY MaxRunsAssumption DEF TypeOK, Content
<1> QED
  BY <1>1 DEF Put, TypeOK

LEMMA HeadTypes ==
  ASSUME TypeOK, todo # <<>>
  PROVE  Head(todo) \in SUBSET FileNames /\ Head(todo) = todo[1] /\ Len(todo) > 0
  BY DEF TypeOK

LEMMA TypeStep == TypeOK /\ ClusterInv /\ StageInv /\ [Next]_vars => TypeOK'
<1> SUFFICES ASSUME TypeOK, ClusterInv, StageInv, [Next]_vars PROVE TypeOK'
  OBVIOUS
<1>1. NsTypeOK' /\ work' \in {"none", "ok", "err"}
  BY SessionPartStep
<1> DEFINE T == /\ run \in 0..MaxRuns
                /\ opt \in Options
                /\ stage \in Ended \cup Running
                /\ groups \in SUBSET Pools
                /\ todo \in Seq(SUBSET FileNames)
                /\ DOMAIN files \subseteq FileNames
                /\ files \in [DOMAIN files -> Content]
                /\ succeeded \in SUBSET (1..run)
<1> SUFFICES T'
  BY <1>1 DEF TypeOK
<1>2. T
  BY DEF TypeOK
<1>3. <<>> \in Seq(SUBSET FileNames)
  OBVIOUS
<1> USE DEF Ended, Running
<1>4. CASE Start
  <2>1. run' \in 0..MaxRuns /\ 1..run \subseteq 1..run'
    BY <1>2, <1>4, MaxRunsAssumption DEF Start
  <2> QED
    BY <1>2, <1>3, <1>4, <2>1 DEF Start
<1>5. CASE DetectFacts \/ GenerateMatrix \/ NewCheck \/ EndDHCP \/ SSFails
  <2>1. \E s \in {"dhcp", "matrix", "newCheck", "ss", "failed"} : Goto(s)
    BY <1>5 DEF DetectFacts, GenerateMatrix, NewCheck, EndDHCP, SSFails
  <2> QED
    BY <1>2, <2>1 DEF Goto
<1>6. CASE SessionStep \/ UNCHANGED vars
  BY <1>2, <1>6 DEF SessionStep, vars, runVars
<1>7. CASE BeginWrite
  BY <1>2, <1>7, FilesBegun DEF BeginWrite
<1>8. ASSUME NEW f \in FileNames, Write(f) PROVE T'
  <2>1. run > 0 /\ todo # <<>> /\ UNCHANGED <<run, opt, groups, succeeded>>
        /\ stage' \in {"write", "failed"}
    BY <1>8 DEF Write, StageInv
  <2>2. todo' \in Seq(SUBSET FileNames)
    <3>1. \/ todo' = <<>>
          \/ todo # <<>> /\ todo' = [todo EXCEPT ![1] = @ \ {f}]
      BY <1>8 DEF Write
    <3>2. todo # <<>> => [todo EXCEPT ![1] = @ \ {f}] \in Seq(SUBSET FileNames)
      BY <1>2, HeadWithout
    <3> QED
      BY <1>3, <3>1, <3>2
  <2>3. DOMAIN files' \subseteq FileNames /\ files' \in [DOMAIN files' -> Content]
    BY <1>2, <1>8, <2>1, PutTypes DEF Write
  <2> QED
    BY <1>2, <2>1, <2>2, <2>3
<1>9. CASE NextFile
  BY <1>2, <1>9, MembersTail DEF NextFile
<1>10. CASE Return
  <2>1. run \in 1..run
    BY <1>2, <1>10 DEF Return, StageInv
  <2> QED
    BY <1>2, <1>10, <2>1 DEF Return
<1>11. CASE Kill
  <2>1. DOMAIN files' \subseteq FileNames /\ files' \in [DOMAIN files' -> Content]
    <3>1. CASE UNCHANGED files
      BY <1>2, <3>1
    <3>2. ASSUME stage = "write", todo # <<>>, NEW f \in Head(todo), Put(f, FALSE)
          PROVE  DOMAIN files' \subseteq FileNames /\ files' \in [DOMAIN files' -> Content]
      <4>1. f \in FileNames /\ run > 0
        BY <3>2, HeadTypes DEF StageInv
      <4> QED
        BY <1>2, <3>2, <4>1, PutTypes
    <3> QED
      BY <1>11, <3>1, <3>2 DEF Kill
  <2> QED
    BY <1>2, <1>3, <1>11, <2>1 DEF Kill
<1> QED
  BY <1>4, <1>5, <1>6, <1>7, <1>8, <1>9, <1>10, <1>11 DEF Next, WriteSome

-----------------------------------------------------------------------------
(* Where the sessions are                                                  *)

\* A session is open in its own stages only, its work has ended well before
\* the run goes on, and none is skipped that the flags and the platform ask for.
LEMMA StageStep == TypeOK /\ StageInv /\ [Next]_vars => StageInv'
<1> SUFFICES ASSUME TypeOK, StageInv, [Next]_vars PROVE StageInv'
  OBVIOUS
<1>1. /\ run \in Nat /\ run >= 0
      /\ opt.openPorts \in BOOLEAN /\ opt.metal \in BOOLEAN
      /\ pc \in Over \cup Busy
      /\ stage \in Ended \cup Running
      /\ work \in {"none", "ok", "err"}
      /\ NsTypeOK
  BY MaxRunsAssumption DEF TypeOK, Options, NsTypeOK
<1> DEFINE NoPods == pc = "creating" => \A n \in Nodes : pod[n] = "none"
<1>2. NoPods
  BY DEF StageInv
<1> USE DEF Ended, Running, Over, Busy
<1>3. CASE Start
  <2>1. stage \in Ended /\ run' = run + 1 /\ stage' = "facts" /\ UNCHANGED nsVars
    BY <1>3 DEF Start
  <2>2. pc' \in Over /\ run' > 0
    BY <1>1, <2>1 DEF StageInv, nsVars
  <2> QED
    BY <2>1, <2>2 DEF StageInv
<1>4. ASSUME Begin, opt' = opt, run' = run, run > 0,
             stage' = "dhcp" \/ (stage' = "ss" /\ opt.openPorts)
      PROVE  StageInv'
  <2>1. pc' \in {"creating", "aborted"} /\ \A n \in Nodes : pod'[n] = "none"
    BY <1>4, SessionBegins
  <2> QED
    BY <1>4, <2>1 DEF StageInv
<1>5. CASE DetectFacts
  <2>1. /\ stage = "facts" /\ run' = run /\ opt' = opt
        /\ \/ opt.metal /\ stage' = "dhcp" /\ Begin
           \/ ~opt.metal /\ stage' = "matrix" /\ UNCHANGED sessionState
           \/ stage' = "failed" /\ UNCHANGED sessionState
    BY <1>5 DEF DetectFacts, Goto
  <2>2. run > 0 /\ pc \in Over
    BY <2>1 DEF StageInv
  <2>3. CASE UNCHANGED sessionState /\ stage' # "dhcp"
    BY <2>1, <2>2, <2>3, <1>2 DEF StageInv, sessionState, nsVars
  <2> QED
    BY <1>4, <2>1, <2>2, <2>3
<1>6. CASE NewCheck
  BY <1>4, <1>6 DEF NewCheck, Goto, StageInv
<1>7. CASE SessionStep
  <2>1. /\ UNCHANGED <<run, opt, stage>>
        /\ pc \in Over => UNCHANGED <<pc, work>>
        /\ pc \in Busy => pc' \in Busy \cup {"aborted", "closed"}
        /\ pc' \in {"deleting", "draining", "closed"} =>
             work' # "none" \/ (pc \in {"deleting", "draining", "closed"} /\ work' = work)
        /\ NoPods'
    BY <1>1, <1>2, <1>7, SessionProgress DEF SessionStep, runVars
  <2>2. pc \in Over => StageInv'
    BY <1>1, <2>1 DEF StageInv
  <2>3. pc \in Busy => stage \in {"dhcp", "ss"}
    BY <1>1 DEF StageInv
  <2>4. pc \in Busy => StageInv'
    BY <1>1, <2>1, <2>3 DEF StageInv
  <2> QED
    BY <1>1, <2>2, <2>4
<1>8. ASSUME UNCHANGED <<sessionState, run, opt>>, stage' = stage
      PROVE  StageInv'
  BY <1>8 DEF StageInv, sessionState, nsVars
<1>9. CASE GenerateMatrix \/ Return
  BY <1>9, <1>2 DEF GenerateMatrix, Return, Goto, StageInv, sessionState, nsVars
<1>10. CASE EndDHCP
  <2>1. /\ stage = "dhcp" /\ pc \in {"aborted", "closed"}
        /\ UNCHANGED <<run, opt, pc, work, pod>>
        /\ stage' = IF pc = "aborted" \/ work = "err" THEN "failed" ELSE "matrix"
    BY <1>10 DEF EndDHCP, WorkFailed, Goto, sessionState, nsVars
  <2>2. pc = "closed" => work # "none"
    BY <2>1 DEF StageInv
  <2> QED
    BY <1>1, <1>2, <2>1, <2>2 DEF StageInv
<1>11. CASE SSFails
  BY <1>2, <1>11 DEF SSFails, Goto, StageInv, sessionState, nsVars
<1>12. CASE BeginWrite
  <2>1. /\ \/ stage = "newCheck" /\ ~opt.openPorts
           \/ stage = "ss" /\ pc \in {"aborted", "closed"} /\ ~(pc = "aborted" \/ work = "err")
        /\ stage' = "write"
        /\ UNCHANGED <<run, opt, pc, work, pod>>
    BY <1>12 DEF BeginWrite, WorkFailed, sessionState, nsVars
  <2>2. stage = "ss" => pc = "closed" /\ work = "ok"
    BY <1>1, <2>1 DEF StageInv
  <2>3. pc \in Over /\ run > 0
    BY <2>1, <2>2 DEF StageInv
  <2> QED
    BY <1>1, <1>2, <2>1, <2>2, <2>3 DEF StageInv
<1>13. ASSUME NEW f \in FileNames, Write(f) PROVE StageInv'
  <2>1. /\ stage = "write" /\ stage' \in {"write", "failed"}
        /\ UNCHANGED <<run, opt, pc, work, pod>>
    BY <1>13 DEF Write, sessionState, nsVars
  <2> QED
    BY <2>1 DEF StageInv
<1>14. CASE Kill
  <2>1. /\ stage \in Running /\ stage' = "killed" /\ UNCHANGED <<run, opt>>
        /\ pc' \in Over /\ pc' # "creating"
    BY <1>14 DEF Kill, Crash, CrashSession, sessionState, nsVars
  <2> QED
    BY <2>1 DEF StageInv
<1>15. CASE NextFile \/ UNCHANGED vars
  BY <1>8, <1>15 DEF NextFile, vars, runVars
<1> QED
  BY <1>3, <1>5, <1>6, <1>7, <1>9, <1>10, <1>11, <1>12, <1>13, <1>14, <1>15 DEF Next, WriteSome

-----------------------------------------------------------------------------
(* The files                                                               *)

\* WriteInv in parts.
Pending ==
  /\ ToWrite \subseteq Artifacts
  /\ \A f \in Artifacts \ ToWrite :
       f \in DOMAIN files /\ files[f] = [run |-> run, whole |-> TRUE]
  /\ Disjoint(todo)

FileInv(f) ==
  /\ files[f].run \in 1..run
  /\ files[f].run \in succeeded => files[f].whole
  /\ files[f].run = run /\ stage = "write" => files[f].whole
  /\ files[f].run = run => stage \in {"write", "ok", "failed", "killed"}

LEMMA WriteInvParts ==
  WriteInv <=> /\ stage = "write" => Pending
               /\ \A f \in DOMAIN files : FileInv(f)
               /\ stage \in Running => run \notin succeeded
  BY DEF WriteInv, Pending, FileInv, Disjoint

\* A file of this run is written, whole or not.
LEMMA PutKeeps ==
  ASSUME TypeOK, StageInv, stage = "write", run \notin succeeded,
         \A g \in DOMAIN files : FileInv(g),
         NEW f \in FileNames, NEW whole \in BOOLEAN, Put(f, whole),
         run' = run, succeeded' = succeeded,
         stage' \in {"write", "failed", "killed"}, stage' = "write" => whole
  PROVE  \A g \in DOMAIN files' : FileInv(g)'
<1>1. run \in 1..run
  BY DEF TypeOK, StageInv
<1>2. /\ DOMAIN files' = DOMAIN files \cup {f}
      /\ files'[f] = [run |-> run, whole |-> whole]
      /\ \A g \in DOMAIN files \ {f} : files'[g] = files[g]
  BY <1>1, PutTypes DEF StageInv
<1>3. FileInv(f)'
  BY <1>1, <1>2 DEF FileInv
<1>4. ASSUME NEW g \in DOMAIN files \ {f} PROVE FileInv(g)'
  BY <1>2 DEF FileInv
<1> QED
  BY <1>2, <1>3, <1>4

\* What is not on the list any more is in the directory, whole.
LEMMA PendingStep ==
  ASSUME TypeOK, ClusterInv, StageInv, WriteInv, [Next]_vars, stage' = "write"
  PROVE  Pending'
<1> USE DEF Ended, Running
<1>1. stage = "write" => Pending
  BY WriteInvParts
<1>2. CASE BeginWrite
  <2>1. Members(todo') = Artifacts' /\ Disjoint(todo')
    BY <1>2, FilesBegun
  <2>2. ToWrite' = Members(todo')
    BY DEF ToWrite, Members
  <2> QED
    BY <2>1, <2>2 DEF Pending, Disjoint
<1>3. ASSUME NEW f \in FileNames, Write(f) PROVE Pending'
  <2>1. /\ stage = "write" /\ todo # <<>> /\ f \in Head(todo)
        /\ todo' = [todo EXCEPT ![1] = @ \ {f}] /\ Put(f, TRUE)
        /\ UNCHANGED <<run, opt, groups>>
    BY <1>3 DEF Write
  <2>2. /\ ToWrite' \subseteq ToWrite /\ ToWrite \subseteq ToWrite' \cup {f}
        /\ Disjoint(todo) => Disjoint(todo')
    <3>1. ToWrite = Members(todo) /\ ToWrite' = Members(todo')
      BY DEF ToWrite, Members
    <3>2. todo \in Seq(SUBSET FileNames) /\ todo # <<>> /\ todo' = [todo EXCEPT ![1] = @ \ {f}]
      BY <2>1 DEF TypeOK
    <3> DEFINE t == [todo EXCEPT ![1] = @ \ {f}]
    <3>3. /\ Members(t) \subseteq Members(todo)
          /\ Members(todo) \subseteq Members(t) \cup {f}
          /\ Disjoint(todo) => Disjoint(t)
      BY <3>2, HeadWithout
    <3>4. todo' = t
      BY <3>2
    <3> HIDE DEF t
    <3> QED
      BY <3>1, <3>3, <3>4
  <2>3. /\ DOMAIN files' = DOMAIN files \cup {f}
        /\ files'[f] = [run |-> run, whole |-> TRUE]
        /\ \A g \in DOMAIN files \ {f} : files'[g] = files[g]
    BY <2>1, PutTypes DEF StageInv
  <2>4. Artifacts' = Artifacts /\ run' = run
    BY <2>1 DEF Artifacts
  <2>5. ToWrite' \subseteq Artifacts' /\ (Disjoint(todo))'
    BY <1>1, <2>1, <2>2, <2>4 DEF Pending, Disjoint
  <2>6. ASSUME NEW g \in Artifacts' \ ToWrite'
        PROVE  g \in DOMAIN files' /\ files'[g] = [run |-> run', whole |-> TRUE]
    <3>1. CASE g = f
      BY <2>3, <2>4, <3>1
    <3>2. CASE g # f
      <4>1. g \in DOMAIN files /\ files[g] = [run |-> run, whole |-> TRUE]
        BY <1>1, <2>1, <2>2, <2>4, <2>6, <3>2 DEF Pending
      <4> QED
        BY <2>3, <2>4, <3>2, <4>1
    <3> QED
      BY <3>1, <3>2
  <2> QED
    BY <2>5, <2>6 DEF Pending
<1>4. CASE NextFile
  <2>1. /\ stage = "write" /\ todo # <<>> /\ Head(todo) = {} /\ todo' = Tail(todo)
        /\ UNCHANGED <<run, opt, groups, files>>
    BY <1>4 DEF NextFile
  <2>2. ToWrite' = ToWrite /\ (Disjoint(todo) => Disjoint(todo'))
    <3>1. ToWrite = Members(todo) /\ ToWrite' = Members(todo')
      BY DEF ToWrite, Members
    <3>2. todo \in Seq(SUBSET FileNames)
      BY DEF TypeOK
    <3> QED
      BY <2>1, <3>1, <3>2, MembersTail
  <2>3. Artifacts' = Artifacts
    BY <2>1 DEF Artifacts
  <2> QED
    BY <1>1, <2>1, <2>2, <2>3 DEF Pending, Disjoint
<1>5. CASE SessionStep \/ UNCHANGED vars
  <2>1. stage = "write" /\ UNCHANGED <<run, opt, groups, todo, files>>
    BY <1>5 DEF SessionStep, vars, runVars
  <2> QED
    BY <1>1, <2>1 DEF Pending, Disjoint, ToWrite, Artifacts
<1>6. ~(Start \/ DetectFacts \/ GenerateMatrix \/ NewCheck \/ EndDHCP \/ SSFails \/ Return \/ Kill)
  BY DEF Start, DetectFacts, GenerateMatrix, NewCheck, EndDHCP, SSFails, Return, Kill, Goto
<1> QED
  BY <1>2, <1>3, <1>4, <1>5, <1>6 DEF Next, WriteSome

\* No file of a run that has returned nil is in part only, and no file is of
\* this run before it writes.
LEMMA FileStep ==
  ASSUME TypeOK, StageInv, WriteInv, [Next]_vars
  PROVE  \A f \in DOMAIN files' : FileInv(f)'
<1> USE DEF Ended, Running
<1>1. /\ \A f \in DOMAIN files : FileInv(f)
      /\ stage \in Running => run \notin succeeded
      /\ run \in 0..MaxRuns /\ succeeded \in SUBSET (1..run)
  BY WriteInvParts DEF TypeOK
<1>2. CASE Start
  <2>1. run' = run + 1 /\ UNCHANGED <<files, succeeded>>
    BY <1>2 DEF Start
  <2> QED
    BY <1>1, <2>1, MaxRunsAssumption DEF FileInv
<1>3. ASSUME UNCHANGED <<run, files, succeeded>>,
             \/ stage' = stage
             \/ stage \in {"facts", "dhcp", "matrix", "newCheck", "ss"}
             \/ stage = "write" /\ stage' \in {"failed", "killed", "ok"}
      PROVE  \A f \in DOMAIN files' : FileInv(f)'
  BY <1>1, <1>3 DEF FileInv
<1>4. CASE DetectFacts \/ GenerateMatrix \/ NewCheck \/ EndDHCP \/ SSFails \/ BeginWrite
  BY <1>3, <1>4 DEF DetectFacts, GenerateMatrix, NewCheck, EndDHCP, SSFails, BeginWrite, Goto
<1>5. CASE SessionStep \/ NextFile \/ UNCHANGED vars
  BY <1>3, <1>5 DEF SessionStep, NextFile, vars, runVars
<1>6. ASSUME NEW f \in FileNames, Write(f) PROVE \A g \in DOMAIN files' : FileInv(g)'
  <2>1. /\ stage = "write" /\ run' = run /\ succeeded' = succeeded
        /\ \/ Put(f, TRUE) /\ stage' = stage
           \/ Put(f, FALSE) /\ stage' = "failed"
           \/ UNCHANGED files /\ stage' = "failed"
    BY <1>6 DEF Write
  <2> QED
    BY <1>1, <1>3, <2>1, PutKeeps
<1>7. CASE Return
  <2>1. /\ stage = "write" /\ stage' = "ok" /\ UNCHANGED <<run, files>>
        /\ succeeded' = succeeded \cup {run}
    BY <1>7 DEF Return
  <2> QED
    BY <1>1, <2>1 DEF FileInv
<1>8. CASE Kill
  <2>1. /\ stage \in Running /\ stage' = "killed" /\ run' = run /\ succeeded' = succeeded
        /\ \/ UNCHANGED files
           \/ stage = "write" /\ todo # <<>> /\ \E f \in Head(todo) : Put(f, FALSE)
    BY <1>8 DEF Kill
  <2>2. CASE UNCHANGED files
    BY <1>3, <2>1, <2>2
  <2>3. ASSUME stage = "write", todo # <<>>, NEW f \in Head(todo), Put(f, FALSE)
        PROVE  \A g \in DOMAIN files' : FileInv(g)'
    <3>1. f \in FileNames
      BY <2>3, HeadTypes
    <3> QED
      BY <1>1, <2>1, <2>3, <3>1, PutKeeps
  <2> QED
    BY <2>1, <2>2, <2>3
<1> QED
  BY <1>2, <1>4, <1>5, <1>6, <1>7, <1>8 DEF Next, WriteSome

LEMMA WriteStep ==
  TypeOK /\ ClusterInv /\ StageInv /\ WriteInv /\ [Next]_vars => WriteInv'
<1> SUFFICES ASSUME TypeOK, ClusterInv, StageInv, WriteInv, [Next]_vars PROVE WriteInv'
  OBVIOUS
<1>1. stage' = "write" => Pending'
  BY PendingStep
<1>2. \A f \in DOMAIN files' : FileInv(f)'
  BY FileStep
<1>3. stage' \in Running => run' \notin succeeded'
  <2>1. /\ stage \in Running => run \notin succeeded
        /\ run \in 0..MaxRuns /\ succeeded \in SUBSET (1..run)
    BY DEF WriteInv, TypeOK
  <2>2. CASE Start
    BY <2>1, <2>2, MaxRunsAssumption DEF Start
  <2>3. Return => stage' \notin Running
    BY DEF Return, Running
  <2>4. CASE ~Start /\ ~Return
    <3>1. /\ UNCHANGED <<run, succeeded>>
          /\ stage' = stage \/ stage \in Running
      BY <2>4 DEF Next, vars, runVars, DetectFacts, GenerateMatrix, NewCheck, SessionStep, EndDHCP,
                  SSFails, BeginWrite, WriteSome, Write, NextFile, Kill, Goto, Running
    <3> QED
      BY <2>1, <3>1
  <2> QED
    BY <2>2, <2>3, <2>4
<1> QED
  BY <1>1, <1>2, <1>3 DEF WriteInv, Pending, FileInv, Disjoint

-----------------------------------------------------------------------------
(* The two properties                                                      *)

LEMMA FilesNeedWorkStep ==
  TypeOK /\ StageInv /\ WriteInv /\ FilesNeedWork /\ [Next]_vars => FilesNeedWork'
<1> SUFFICES ASSUME TypeOK, StageInv, WriteInv, FilesNeedWork, [Next]_vars,
                    NEW f \in DOMAIN files', files'[f].run = run'
             PROVE  /\ pc' \in Over
                    /\ opt'.metal \/ opt'.openPorts => pc' = "closed" /\ work' = "ok"
  BY DEF FilesNeedWork
<1> DEFINE Done == pc \in Over /\ (opt.metal \/ opt.openPorts => pc = "closed" /\ work = "ok")
<1>1. /\ \A g \in DOMAIN files : files[g].run \in 1..run
      /\ \A g \in DOMAIN files :
           files[g].run = run => stage \in {"write", "ok", "failed", "killed"}
      /\ NsTypeOK /\ work \in {"none", "ok", "err"} /\ run \in 0..MaxRuns
  BY DEF WriteInv, TypeOK
<1>2. stage = "write" => Done
  BY DEF StageInv
<1>3. ~Start
  BY <1>1, MaxRunsAssumption DEF Start
<1>4. run' = run
  BY <1>3 DEF Next, vars, runVars, DetectFacts, GenerateMatrix, NewCheck, SessionStep, EndDHCP,
              SSFails, BeginWrite, WriteSome, Write, NextFile, Return, Kill, Goto
<1>5. stage = "write" \/ UNCHANGED files
  BY <1>3 DEF Next, vars, runVars, DetectFacts, GenerateMatrix, NewCheck, SessionStep, EndDHCP,
              SSFails, BeginWrite, WriteSome, Write, NextFile, Return, Kill, Goto
<1>6. Done /\ stage \in {"write", "ok", "failed", "killed"}
  <2>1. CASE UNCHANGED files
    BY <1>1, <1>4, <2>1 DEF FilesNeedWork
  <2>2. CASE stage = "write"
    BY <1>2, <2>2
  <2> QED
    BY <1>5, <2>1, <2>2
<1>7. UNCHANGED <<opt, pc, work>>
  <2>1. CASE SessionStep
    BY <1>1, <1>6, <2>1, SessionProgress DEF SessionStep, runVars
  <2>2. ~Crash
    BY <1>6 DEF Crash, CrashSession, Over, Busy
  <2>3. CASE Kill
    BY <2>2, <2>3 DEF Kill, sessionState, nsVars
  <2>4. CASE ~SessionStep /\ ~Kill
    BY <1>3, <1>6, <2>4 DEF Next, vars, sessionState, nsVars, runVars, DetectFacts, GenerateMatrix,
                            NewCheck, EndDHCP, SSFails, BeginWrite, WriteSome, Write, NextFile, Return
  <2> QED
    BY <2>1, <2>3, <2>4
<1> QED
  BY <1>6, <1>7

LEMMA SuccessIsCompleteStep ==
  WriteInv /\ SuccessIsComplete /\ [Next]_vars => SuccessIsComplete'
<1> SUFFICES ASSUME WriteInv, SuccessIsComplete, [Next]_vars, stage' = "ok"
             PROVE  /\ UNCHANGED <<run, opt, groups, files>>
                    /\ \A f \in Artifacts : f \in DOMAIN files
                                            /\ files[f] = [run |-> run, whole |-> TRUE]
  BY DEF SuccessIsComplete, Artifacts
<1>1. CASE Return
  <2>1. stage = "write" /\ todo = <<>> /\ UNCHANGED <<run, opt, groups, files>>
    BY <1>1 DEF Return
  <2>2. ToWrite = {}
    BY <2>1 DEF ToWrite
  <2> QED
    BY <2>1, <2>2 DEF WriteInv
<1>2. CASE ~Return
  <2>1. stage = "ok" /\ UNCHANGED <<run, opt, groups, files>>
    BY <1>2 DEF Next, vars, runVars, Start, DetectFacts, GenerateMatrix, NewCheck, SessionStep,
                EndDHCP, SSFails, BeginWrite, WriteSome, Write, NextFile, Kill, Goto
  <2> QED
    BY <2>1 DEF SuccessIsComplete
<1> QED
  BY <1>1, <1>2

-----------------------------------------------------------------------------
(* The theorems                                                            *)

LEMMA IInvInitially == Init => IInv
<1> SUFFICES ASSUME Init PROVE IInv
  OBVIOUS
<1>1. ClusterInv
  BY DEF Init, SessionInit, NsInit, ClusterInv, NoTerminatingRace, Over
<1>2. StageInv
  BY DEF Init, SessionInit, NsInit, StageInv, Over
<1>3. stage = "idle" /\ files = [f \in {} |-> {}]
  BY DEF Init
<1>4. DOMAIN files = {}
  BY <1>3
<1>5. WriteInv /\ FilesNeedWork /\ SuccessIsComplete
  BY <1>3, <1>4 DEF WriteInv, FilesNeedWork, SuccessIsComplete, Running
<1> QED
  BY <1>1, <1>2, <1>5, TypeInitially DEF IInv

LEMMA IInvStep == IInv /\ [Next]_vars => IInv'
  BY TypeStep, SessionPartStep, StageStep, WriteStep, FilesNeedWorkStep, SuccessIsCompleteStep
     DEF IInv

\* The invariant of the command, run after run: types, the cluster between the
\* sessions, the stages of the run and the state of every file.
THEOREM Invariance == Spec => []IInv
<1>1. Init => IInv
  BY IInvInitially
<1>2. IInv /\ [Next]_vars => IInv'
  BY IInvStep
<1> QED
  BY <1>1, <1>2, PTL DEF Spec

\* A run of generate that returns nil has written every artifact of its flags,
\* whole, whatever was in the directory, failed or was killed before.
THEOREM SuccessMeansComplete == Spec => []SuccessIsComplete
<1>1. IInv => SuccessIsComplete
  BY DEF IInv
<1> QED
  BY <1>1, Invariance, PTL

\* A run that has touched a file is done with its sessions, and those that its
\* flags and the platform ask for went well.
THEOREM WorkBeforeFiles == Spec => []FilesNeedWork
<1>1. IInv => FilesNeedWork
  BY DEF IInv
<1> QED
  BY <1>1, Invariance, PTL

=============================================================================
