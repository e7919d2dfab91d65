--------------------------- MODULE DHCPProbeProofs ---------------------------
(***************************************************************************)
(* Theorems about DHCPProbe, for every set of nodes: its inductive         *)
(* invariant IInv, what it says of the answer and of the debug pods, and   *)
(* that IsDHCPEnabled is a session as DebugSession has it.                 *)
(***************************************************************************)
EXTENDS DHCPProbe, TLAPS

\* A step of isDHCPEnabledOnNode leaves the session and the lists alone, is made
\* while the work is going on, and creates a pod only in an active namespace.
LEMMA AskFrame ==
  ASSUME TypeOK, ProbeInv, NEW n \in Nodes, Ask(n)
  PROVE  /\ UNCHANGED <<ns, annotated, stale, pc, expired, dirty, fresh, alone,
                        targets, auto, answer>>
         /\ pc = "working" /\ n \in targets
         /\ pod' # pod => ns # "absent" \/ pod[n] # "none"
         /\ \A m \in Nodes \ {n} : pod'[m] = pod[m] /\ verdict'[m] = verdict[m]
  BY DEF TypeOK, NsTypeOK, ProbeInv, Ask, CreatePod, WaitForPod, Exec, DeletePod,
         nsVars, sessionVars

-----------------------------------------------------------------------------
(* Type correctness                                                        *)

LEMMA TypeInitially == Init => TypeOK
  BY DEF Init, NsInit, TypeOK, NsTypeOK, NsPhase, PodStatus, Over, Busy, Verdict

LEMMA TypeStep == TypeOK /\ [Next]_vars => TypeOK'
<1> SUFFICES ASSUME TypeOK, [Next]_vars PROVE TypeOK'
  OBVIOUS
<1> USE DEF NsTypeOK, NsPhase, PodStatus, Over, Busy, Verdict
<1>1. CASE List
  <2>1. /\ UNCHANGED <<ns, annotated, expired, dirty, auto>>
        /\ pod' \in [Nodes -> PodStatus]
        /\ stale' \in SUBSET Nodes
        /\ pc' \in {"creating", "aborted"}
        /\ fresh' \in BOOLEAN
        /\ alone' \in BOOLEAN
    BY <1>1 DEF TypeOK, List, BeginSession, SkipSession, DisownPods
  <2>2. /\ targets' \in SUBSET Nodes
        /\ asked' = {} /\ at' = "loop"
        /\ verdict' \in [Nodes -> Verdict]
        /\ answer' \in {"none", "err"}
        /\ missed' \in SUBSET Nodes
    BY <1>1 DEF TypeOK, List
  <2> QED
    BY <2>1, <2>2 DEF TypeOK
<1>2. CASE Create
  BY <1>2 DEF TypeOK, Create, CreateNamespace
<1>3. CASE Ready
  BY <1>3 DEF TypeOK, Ready, WaitForAnnotation
<1>4. CASE Decide
  BY <1>4 DEF TypeOK, Decide, clusterVars
<1>5. CASE Delete
  BY <1>5, ZenonT(30) DEF TypeOK, Delete, DeleteNamespace, probeVars
<1>6. CASE Drain
  BY <1>6, ZenonT(30) DEF TypeOK, Drain, WaitForRemoval, probeVars
<1>7. CASE Deadline
  BY <1>7 DEF TypeOK, Deadline, DeadlinePasses, probeVars
<1>8. CASE Crash
  BY <1>8 DEF TypeOK, Crash, CrashSession
<1>9. CASE Environment
  <2>1. UNCHANGED probeVars /\ UNCHANGED <<pc, expired, fresh>>
    BY <1>9 DEF Environment, Cluster, Annotate, StartPod, RemovePod, RemoveStale,
                FinalizeNamespace, Rival, sessionVars
  <2>2. /\ ns' \in NsPhase
        /\ annotated' \in BOOLEAN
        /\ pod' \in [Nodes -> PodStatus]
        /\ stale' \in SUBSET Nodes
        /\ dirty' \in BOOLEAN
        /\ alone' \in BOOLEAN
    BY <1>9 DEF TypeOK, Environment, Cluster, Annotate, StartPod, RemovePod, RemoveStale,
                FinalizeNamespace, Rival, RivalCreate, RivalDelete, RivalPod, sessionVars
  <2> QED
    BY <2>1, <2>2 DEF TypeOK, probeVars
<1>10. ASSUME NEW n \in Nodes, Ask(n) PROVE TypeOK'
  <2>1. CASE CreatePod(n)
    BY <2>1 DEF TypeOK, CreatePod, sessionVars
  <2>2. CASE WaitForPod(n) \/ Exec(n)
    BY <2>2 DEF TypeOK, WaitForPod, Exec, nsVars
  <2>3. CASE DeletePod(n)
    BY <2>3 DEF TypeOK, DeletePod, sessionVars
  <2> QED
    BY <1>10, <2>1, <2>2, <2>3 DEF Ask
<1>11. CASE UNCHANGED vars
  BY <1>11 DEF TypeOK, vars, nsVars, probeVars
<1> QED
  BY <1>1, <1>2, <1>3, <1>4, <1>5, <1>6, <1>7, <1>8, <1>9, <1>10, <1>11 DEF Next

-----------------------------------------------------------------------------
(* The cluster                                                             *)

LEMMA ClusterStep ==
  TypeOK /\ ClusterInv /\ ProbeInv /\ [Next]_vars => ClusterInv'
<1> SUFFICES ASSUME TypeOK, ClusterInv, ProbeInv, [Next]_vars PROVE ClusterInv'
  OBVIOUS
<1> USE DEF Over, Busy
<1>1. CASE List
  <2> USE DEF ClusterInv, NoTerminatingRace, DisownPods, TypeOK, NsTypeOK
  <2>1. CASE BeginSession
    BY <2>1 DEF BeginSession
  <2>2. CASE SkipSession
    BY <2>2 DEF SkipSession
  <2> QED
    BY <1>1, <2>1, <2>2 DEF List
<1>2. CASE Create
  BY <1>2 DEF ClusterInv, NoTerminatingRace, Create, CreateNamespace, TypeOK, NsTypeOK
<1>3. CASE Ready
  BY <1>3 DEF ClusterInv, NoTerminatingRace, Ready, WaitForAnnotation, TypeOK, NsTypeOK
<1>4. CASE Decide
  BY <1>4 DEF ClusterInv, NoTerminatingRace, Decide, clusterVars, TypeOK, NsTypeOK
<1>5. CASE Delete
  BY <1>5 DEF ClusterInv, NoTerminatingRace, Delete, DeleteNamespace, TypeOK, NsTypeOK
<1>6. CASE Drain
  BY <1>6 DEF ClusterInv, NoTerminatingRace, Drain, WaitForRemoval, TypeOK, NsTypeOK
<1>7. CASE Deadline
  BY <1>7 DEF ClusterInv, NoTerminatingRace, Deadline, DeadlinePasses, TypeOK, NsTypeOK
<1>8. CASE Crash
  BY <1>8 DEF ClusterInv, NoTerminatingRace, Crash, CrashSession, TypeOK, NsTypeOK
<1>9. CASE Environment
  <2> SUFFICES ASSUME Cluster PROVE ClusterInv'
    BY <1>9 DEF Environment
  <2> USE DEF ClusterInv, NoTerminatingRace, sessionVars, TypeOK, NsTypeOK
  <2>1. CASE Annotate
    BY <2>1 DEF Annotate
  <2>2. ASSUME NEW n \in Nodes, StartPod(n) PROVE ClusterInv'
    BY <2>2 DEF StartPod
  <2>3. ASSUME NEW n \in Nodes, RemovePod(n) PROVE ClusterInv'
    BY <2>3 DEF RemovePod
  <2>4. ASSUME NEW n \in Nodes, RemoveStale(n) PROVE ClusterInv'
    BY <2>4 DEF RemoveStale
  <2>5. CASE FinalizeNamespace
    BY <2>5 DEF FinalizeNamespace
  <2>6. CASE Rival
    BY <2>6 DEF Rival, RivalCreate, RivalDelete, RivalPod
  <2> QED
    BY <2>1, <2>2, <2>3, <2>4, <2>5, <2>6 DEF Cluster
<1>10. ASSUME NEW n \in Nodes, Ask(n) PROVE ClusterInv'
  <2>1. UNCHANGED <<ns, annotated, stale, pc, dirty, fresh, alone>>
    BY <1>10, AskFrame
  <2>2. pod' # pod => ns # "absent"
    BY <1>10, AskFrame DEF ClusterInv
  <2> QED
    BY <2>1, <2>2 DEF ClusterInv, NoTerminatingRace
<1>11. CASE UNCHANGED vars
  BY <1>11 DEF ClusterInv, NoTerminatingRace, vars, nsVars
<1> QED
  BY <1>1, <1>2, <1>3, <1>4, <1>5, <1>6, <1>7, <1>8, <1>9, <1>10, <1>11 DEF Next

-----------------------------------------------------------------------------
(* The loop over the nodes                                                 *)

\* A step of the node that is asked keeps what is known of the others.
LEMMA ProbeAsk ==
  ASSUME TypeOK, ProbeInv, NEW n \in Nodes, Ask(n)
  PROVE  ProbeInv'
<1> USE DEF TypeOK, NsTypeOK, Over, Busy, Verdict
<1>1. CASE CreatePod(n)
  BY <1>1 DEF CreatePod, ProbeInv, sessionVars
<1>2. CASE WaitForPod(n)
  BY <1>2 DEF WaitForPod, ProbeInv, nsVars
<1>3. CASE Exec(n)
  BY <1>3 DEF Exec, ProbeInv, nsVars
<1>4. CASE DeletePod(n)
  BY <1>4 DEF DeletePod, ProbeInv, sessionVars
<1> QED
  BY <1>1, <1>2, <1>3, <1>4 DEF Ask

LEMMA ProbeStep == TypeOK /\ ProbeInv /\ [Next]_vars => ProbeInv'
<1> SUFFICES ASSUME TypeOK, ProbeInv, [Next]_vars PROVE ProbeInv'
  OBVIOUS
<1> USE DEF TypeOK, NsTypeOK, Over, Busy
<1>1. CASE List
  <2>1. asked' = {} /\ at' = "loop" /\ answer' \in {"none", "err"} /\ auto' = auto
    BY <1>1 DEF List
  <2>2. \A n \in Nodes : verdict'[n] = "none" /\ pod'[n] = "none"
    BY <1>1 DEF List, BeginSession, SkipSession, DisownPods
  <2>3. pc' \in Busy => pc' = "creating" /\ targets' # {}
    BY <1>1 DEF List, BeginSession, SkipSession
  <2> QED
    BY <2>1, <2>2, <2>3 DEF ProbeInv
<1>2. CASE Create
  BY <1>2 DEF ProbeInv, Create, CreateNamespace
<1>3. CASE Ready
  BY <1>3 DEF ProbeInv, Ready, WaitForAnnotation
<1>4. CASE Decide
  BY <1>4 DEF ProbeInv, Decide, clusterVars
<1>5. CASE Delete
  BY <1>5 DEF ProbeInv, Delete, DeleteNamespace, probeVars
<1>6. CASE Drain
  BY <1>6 DEF ProbeInv, Drain, WaitForRemoval, probeVars
<1>7. CASE Deadline
  BY <1>7 DEF ProbeInv, Deadline, DeadlinePasses, probeVars
<1>8. CASE Crash
  BY <1>8 DEF ProbeInv, Crash, CrashSession
<1>9. CASE Environment
  <2>1. UNCHANGED <<pc, probeVars>> /\ \A n \in Nodes : pod[n] = "none" => pod'[n] = "none"
    BY <1>9 DEF Environment, Cluster, Annotate, StartPod, RemovePod, RemoveStale,
                FinalizeNamespace, Rival, sessionVars
  <2> QED
    BY <2>1 DEF ProbeInv, probeVars
<1>10. ASSUME NEW n \in Nodes, Ask(n) PROVE ProbeInv'
  BY <1>10, ProbeAsk
<1>11. CASE UNCHANGED vars
  BY <1>11 DEF ProbeInv, vars, nsVars, probeVars
<1> QED
  BY <1>1, <1>2, <1>3, <1>4, <1>5, <1>6, <1>7, <1>8, <1>9, <1>10, <1>11 DEF Next

\* A pod that lives is that of the node being asked, or a request for it went
\* wrong: the deferred DeletePod comes before the next CreatePod.
LEMMA OnePodStep ==
  TypeOK /\ ProbeInv /\ OnePodAtATime /\ [Next]_vars => OnePodAtATime'
<1> SUFFICES ASSUME TypeOK, ProbeInv, OnePodAtATime, [Next]_vars PROVE OnePodAtATime'
  OBVIOUS
<1> USE DEF TypeOK, NsTypeOK, Over, Busy
<1>1. CASE List
  BY <1>1 DEF OnePodAtATime, List, BeginSession, SkipSession, DisownPods
<1>2. CASE Create \/ Ready
  BY <1>2 DEF OnePodAtATime, Create, CreateNamespace, Ready, WaitForAnnotation
<1>3. CASE Decide
  BY <1>3 DEF OnePodAtATime, Decide, clusterVars
<1>4. CASE Delete \/ Drain \/ Deadline
  BY <1>4 DEF OnePodAtATime, Delete, DeleteNamespace, Drain, WaitForRemoval, Deadline,
              DeadlinePasses, probeVars
<1>5. CASE Crash
  BY <1>5 DEF OnePodAtATime, Crash, CrashSession
<1>6. CASE Environment
  <2>1. /\ UNCHANGED <<pc, asked, missed>>
        /\ \A n \in Nodes : pod'[n] \in {"pending", "running"} => pod[n] \in {"pending", "running"}
    BY <1>6 DEF Environment, Cluster, Annotate, StartPod, RemovePod, RemoveStale,
                FinalizeNamespace, Rival, sessionVars, probeVars
  <2> QED
    BY <2>1 DEF OnePodAtATime
<1>7. ASSUME NEW n \in Nodes, Ask(n) PROVE OnePodAtATime'
  <2>1. CASE CreatePod(n)
    BY <2>1 DEF OnePodAtATime, ProbeInv, CreatePod
  <2>2. CASE WaitForPod(n) \/ Exec(n)
    BY <2>2 DEF OnePodAtATime, WaitForPod, Exec, nsVars
  <2>3. CASE DeletePod(n)
    <3>1. asked = {n}
      BY <2>3 DEF ProbeInv, DeletePod
    <3> QED
      BY <2>3, <3>1 DEF OnePodAtATime, DeletePod, sessionVars
  <2> QED
    BY <1>7, <2>1, <2>2, <2>3 DEF Ask
<1>8. CASE UNCHANGED vars
  BY <1>8 DEF OnePodAtATime, vars, nsVars, probeVars
<1> QED
  BY <1>1, <1>2, <1>3, <1>4, <1>5, <1>6, <1>7, <1>8 DEF Next

\* The answer is given once, in Decide, and nothing it rests on changes after.
LEMMA AnswerStep ==
  TypeOK /\ ProbeInv /\ AnswerJustified /\ [Next]_vars => AnswerJustified'
<1> SUFFICES ASSUME TypeOK, ProbeInv, AnswerJustified, [Next]_vars PROVE AnswerJustified'
  OBVIOUS
<1> USE DEF TypeOK, NsTypeOK, Over, Busy
<1>1. CASE List
  BY <1>1 DEF AnswerJustified, List
<1>2. CASE Create \/ Ready
  BY <1>2 DEF AnswerJustified, Create, Ready
<1>3. CASE Decide
  BY <1>3 DEF AnswerJustified, ProbeInv, Decide
<1>4. CASE Delete \/ Drain \/ Deadline \/ Environment
  BY <1>4 DEF AnswerJustified, Delete, Drain, Deadline, Environment, probeVars
<1>5. CASE Crash
  BY <1>5 DEF AnswerJustified, Crash
<1>6. ASSUME NEW n \in Nodes, Ask(n) PROVE AnswerJustified'
  <2>1. pc = "working" /\ answer' = answer
    BY <1>6, AskFrame
  <2>2. answer \notin {"yes", "no"}
    BY <2>1 DEF ProbeInv
  <2> QED
    BY <2>1, <2>2 DEF AnswerJustified
<1>7. CASE UNCHANGED vars
  BY <1>7 DEF AnswerJustified, vars, probeVars
<1> QED
  BY <1>1, <1>2, <1>3, <1>4, <1>5, <1>6, <1>7 DEF Next

-----------------------------------------------------------------------------
(* The theorems                                                            *)

LEMMA IInvInitially == Init => IInv
<1> SUFFICES ASSUME Init PROVE IInv
  OBVIOUS
<1>1. ClusterInv
  BY DEF Init, NsInit, ClusterInv, NoTerminatingRace, Over
<1>2. ProbeInv /\ OnePodAtATime /\ AnswerJustified
  BY DEF Init, NsInit, ProbeInv, OnePodAtATime, AnswerJustified, Busy
<1> QED
  BY <1>1, <1>2, TypeInitially DEF IInv

LEMMA IInvStep == IInv /\ [Next]_vars => IInv'
  BY TypeStep, ClusterStep, ProbeStep, OnePodStep, AnswerStep DEF IInv

\* IInv is an invariant of DHCPProbe.
THEOREM Invariance == Spec => []IInv
  BY IInvInitially, IInvStep, PTL DEF Spec

\* IsDHCPEnabled says no only after every listed node was asked and said no,
\* and yes only with a node that uses DHCP to show for it.
THEOREM AnswerIsJustified == Spec => []AnswerJustified
<1>1. IInv => AnswerJustified
  BY DEF IInv
<1> QED
  BY <1>1, Invariance, PTL

\* However the turn of a node ends, its debug pod is asked to go before the pod
\* of the next one is made.
THEOREM PodsComeSingly == Spec => []OnePodAtATime
<1>1. IInv => OnePodAtATime
  BY DEF IInv
<1> QED
  BY <1>1, Invariance, PTL

-----------------------------------------------------------------------------
(* Refinement                                                              *)

\* The calls of the namespace are those of the session, Decide is the end of
\* its work, and of asking a node only CreatePod and DeletePod show.
LEMMA SessionStep ==
  IInv /\ [Next]_vars => [Session!SessionNext]_(Session!sessionState)
<1> DEFINE over == {"deleting", "draining", "closed"}
<1> SUFFICES ASSUME IInv, [Next]_vars PROVE [Session!SessionNext]_(Session!sessionState)
  OBVIOUS
<1> USE DEF Session!SessionNext, Session!InSession, Session!Call
<1>1. CASE List
  <2>1. Session!BeginSession \/ Session!SkipSession
    BY <1>1 DEF List, BeginSession, SkipSession, DisownPods, Over,
         Session!BeginSession, Session!SkipSession, Session!DisownPods, Session!Over
  <2>2. pc' \in {"creating", "aborted"}
    BY <1>1 DEF List, BeginSession, SkipSession
  <2> QED
    BY <2>1, <2>2 DEF Session!Begin
<1>2. CASE Create
  <2>1. pc \notin over /\ pc' \notin over
    BY <1>2 DEF Create, CreateNamespace
  <2> QED
    BY <1>2, <2>1 DEF Create, CreateNamespace, Session!Create, Session!CreateNamespace
<1>3. CASE Ready
  <2>1. pc \notin over /\ pc' \notin over
    BY <1>3 DEF Ready, WaitForAnnotation
  <2> QED
    BY <1>3, <2>1 DEF Ready, WaitForAnnotation, Session!Ready, Session!WaitForAnnotation
<1>4. CASE Decide
  BY <1>4 DEF Decide, clusterVars, Session!EndWork, Session!clusterVars
<1>5. CASE Delete
  <2>1. pc \in over /\ pc' \in over /\ answer' = answer
    BY <1>5 DEF Delete, DeleteNamespace, probeVars
  <2> QED
    BY <1>5, <2>1 DEF Delete, DeleteNamespace, Session!Delete, Session!DeleteNamespace
<1>6. CASE Drain
  <2>1. pc \in over /\ pc' \in over /\ answer' = answer
    BY <1>6 DEF Drain, WaitForRemoval, probeVars
  <2> QED
    BY <1>6, <2>1 DEF Drain, WaitForRemoval, Session!Drain, Session!WaitForRemoval
<1>7. CASE Deadline
  <2>1. UNCHANGED <<pc, answer>>
    BY <1>7 DEF Deadline, DeadlinePasses, probeVars
  <2> QED
    BY <1>7, <2>1 DEF Deadline, DeadlinePasses, Session!Deadline, Session!DeadlinePasses
<1>8. CASE Crash
  BY <1>8 DEF Crash, CrashSession, Busy, Session!Crash, Session!CrashSession, Session!Busy
<1>9. CASE Environment
  <2>1. UNCHANGED <<pc, answer>>
    BY <1>9 DEF Environment, Cluster, Annotate, StartPod, RemovePod, RemoveStale,
         FinalizeNamespace, Rival, sessionVars, probeVars
  <2>2. Session!Cluster
    BY <1>9 DEF Environment, Cluster, Annotate, StartPod, RemovePod, RemoveStale,
         FinalizeNamespace, Rival, RivalCreate, RivalDelete, RivalPod, sessionVars,
         Session!Cluster, Session!Annotate, Session!StartPod, Session!RemovePod,
         Session!RemoveStale, Session!FinalizeNamespace, Session!Rival,
         Session!RivalCreate, Session!RivalDelete, Session!RivalPod, Session!sessionVars
  <2> QED
    BY <2>1, <2>2 DEF Session!Environment
<1>10. ASSUME NEW n \in Nodes, Ask(n)
       PROVE  [Session!SessionNext]_(Session!sessionState)
  <2>1. pc = "working" /\ UNCHANGED <<ns, annotated, stale, pc, expired, dirty, fresh, alone, answer>>
    BY <1>10, AskFrame DEF IInv
  <2>2. CASE pod' = pod
    BY <2>1, <2>2 DEF Session!sessionState, Session!nsVars
  <2>3. CASE pod' = [pod EXCEPT ![n] = "pending"] /\ ns = "active"
    BY <2>1, <2>3 DEF Session!CreatePod, Session!sessionVars
  <2>4. CASE pod' = [pod EXCEPT ![n] = "deleting"] /\ pod[n] # "none"
    BY <2>1, <2>4 DEF Session!DeletePod, Session!sessionVars
  <2> QED
    BY <1>10, <2>2, <2>3, <2>4 DEF Ask, CreatePod, WaitForPod, Exec, DeletePod, nsVars
<1>11. CASE UNCHANGED vars
  BY <1>11 DEF vars, nsVars, probeVars, Session!sessionState, Session!nsVars
<1> QED
  BY <1>1, <1>2, <1>3, <1>4, <1>5, <1>6, <1>7, <1>8, <1>9, <1>10, <1>11 DEF Next

\* IsDHCPEnabled is a session in the debug namespace as the rest of the program
\* knows it, whose work ends well when there is an answer.
THEOREM SessionRefinement == Spec => ImplementsSession
<1>1. Init => Session!SessionInit
  BY DEF Init, NsInit, Session!SessionInit, Session!NsInit
<1> QED
  BY <1>1, SessionStep, Invariance, PTL DEF Spec, ImplementsSession, Session!Session

=============================================================================
