------------------------- MODULE SSCollectorProofs --------------------------
(***************************************************************************)
(* Theorems about SSCollector, for every set of nodes: its inductive       *)
(* invariant IInv, the safety properties that follow from it, and that it  *)
(* implements NodeCollection and DebugSession.                             *)
(***************************************************************************)
EXTENDS SSCollector, TLAPS

\* Appending a node that is not there yet: the set grows by it and no node is
\* there twice.
LEMMA AppendNew ==
  ASSUME NEW s \in Seq(Nodes), NEW n \in Nodes
  PROVE  /\ Append(s, n) \in Seq(Nodes)
         /\ Committed(Append(s, n)) = Committed(s) \cup {n}
         /\ n \notin Committed(s) /\ Distinct(s) => Distinct(Append(s, n))
<1> DEFINE t == Append(s, n)
<1>1. /\ t \in Seq(Nodes)
      /\ Len(t) = Len(s) + 1
      /\ Len(s) \in Nat
      /\ \A i \in 1..Len(s) : t[i] = s[i]
      /\ t[Len(s) + 1] = n
  OBVIOUS
<1>2. Committed(t) = Committed(s) \cup {n}
  <2>1. ASSUME NEW x \in Committed(t) PROVE x \in Committed(s) \cup {n}
    BY <1>1 DEF Committed
  <2>2. ASSUME NEW x \in Committed(s) PROVE x \in Committed(t)
    BY <1>1 DEF Committed
  <2>3. n \in Committed(t)
    BY <1>1 DEF Committed
  <2> QED
    BY <2>1, <2>2, <2>3
<1>3. ASSUME n \notin Committed(s), Distinct(s) PROVE Distinct(t)
  BY <1>1, <1>3 DEF Committed, Distinct
<1> QED
  BY <1>1, <1>2, <1>3

LEMMA CommittedEmpty == Committed(<<>>) = {} /\ Distinct(<<>>)
  BY DEF Committed, Distinct

-----------------------------------------------------------------------------
(* Type correctness                                                        *)

\* Every variable keeps its type.
LEMMA TypeInitially == Init => TypeOK
<1> SUFFICES ASSUME Init PROVE TypeOK
  OBVIOUS
<1>1. NsTypeOK
  BY DEF Init, NsInit, NsTypeOK, NsPhase, PodStatus, Over, Busy
<1>2. wpc \in [Nodes -> WorkerPoint] /\ werr \in [Nodes -> BOOLEAN]
  BY DEF Init, WorkerPoint, Working, InLock
<1>3. <<>> \in Seq(Nodes)
  OBVIOUS
<1> QED
  BY <1>1, <1>2, <1>3 DEF Init, TypeOK

LEMMA TypeStep == TypeOK /\ [Next]_vars => TypeOK'
<1> SUFFICES ASSUME TypeOK, [Next]_vars PROVE TypeOK'
  OBVIOUS
<1> USE DEF NsTypeOK, NsPhase, PodStatus, Over, Busy, WorkerPoint, Working, InLock
<1>1. CASE NewCheck
  <2>1. /\ UNCHANGED <<ns, annotated, expired, dirty>>
        /\ pod' \in [Nodes -> PodStatus]
        /\ stale' \in SUBSET Nodes
        /\ pc' \in {"creating", "aborted"}
        /\ fresh' \in BOOLEAN
        /\ alone' \in BOOLEAN
    BY <1>1 DEF TypeOK, NewCheck, BeginSession, SkipSession, DisownPods
  <2>2. /\ targets' \in SUBSET Nodes
        /\ result' \in {"none", "err"}
        /\ wpc' \in [Nodes -> WorkerPoint]
        /\ werr' \in [Nodes -> BOOLEAN]
        /\ holder' = {} /\ details' = <<>> /\ ssTCP' = <<>> /\ ssUDP' = <<>>
    BY <1>1 DEF NewCheck
  <2> QED
    BY <2>1, <2>2 DEF TypeOK
<1>2. CASE Create
  BY <1>2 DEF TypeOK, Create, CreateNamespace
<1>3. CASE Ready
  BY <1>3 DEF TypeOK, Ready, WaitForAnnotation
<1>4. CASE Wait
  BY <1>4 DEF TypeOK, Wait, clusterVars
<1>5. CASE Delete
  BY <1>5 DEF TypeOK, Delete, DeleteNamespace, workVars
<1>6. CASE Drain
  BY <1>6 DEF TypeOK, Drain, WaitForRemoval, workVars
<1>7. CASE Deadline
  BY <1>7 DEF TypeOK, Deadline, DeadlinePasses, workVars
<1>8. CASE Crash
  BY <1>8 DEF TypeOK, Crash, CrashSession
<1>9. CASE Environment
  <2>1. UNCHANGED workVars /\ UNCHANGED <<pc, expired, fresh>>
    BY <1>9 DEF Environment, Cluster, Annotate, StartPod, RemovePod, RemoveStale,
                FinalizeNamespace, Rival, sessionVars
  <2>2. /\ ns' \in NsPhase
        /\ annotated' \in BOOLEAN
        /\ pod' \in [Nodes -> PodStatus]
        /\ stale' \in SUBSET Nodes
        /\ dirty' \in BOOLEAN
        /\ alone' \in BOOLEAN
    BY <1>9 DEF TypeOK, Environment, Cluster, Annotate, StartPod, RemovePod, RemoveStale,
                FinalizeNamespace, Rival, RivalCreate, RivalDelete, RivalPod, sessionVars
  <2> QED
    BY <2>1, <2>2 DEF TypeOK, workVars
<1>10. ASSUME NEW n \in Nodes, Worker(n) PROVE TypeOK'
  <2>1. /\ UNCHANGED <<ns, annotated, stale, pc, expired, dirty, fresh, alone, targets, result>>
        /\ pod' \in [Nodes -> PodStatus]
        /\ wpc' \in [Nodes -> WorkerPoint]
        /\ werr' \in [Nodes -> BOOLEAN]
        /\ holder' \in SUBSET Nodes
    BY <1>10 DEF TypeOK, Worker, CreatePod, WaitForPod, Exec, Lock, AppendDetails,
                 AppendTCP, AppendUDP, Unlock, DeletePod, Goto, Fail, nsVars, sessionVars
  <2>2. details' = details \/ details' = Append(details, n)
    BY <1>10 DEF Worker, CreatePod, WaitForPod, Exec, Lock, AppendDetails,
                 AppendTCP, AppendUDP, Unlock, DeletePod
  <2>3. ssTCP' = ssTCP \/ ssTCP' = Append(ssTCP, n)
    BY <1>10 DEF Worker, CreatePod, WaitForPod, Exec, Lock, AppendDetails,
                 AppendTCP, AppendUDP, Unlock, DeletePod
  <2>4. ssUDP' = ssUDP \/ ssUDP' = Append(ssUDP, n)
    BY <1>10 DEF Worker, CreatePod, WaitForPod, Exec, Lock, AppendDetails,
                 AppendTCP, AppendUDP, Unlock, DeletePod
  <2>5. ASSUME NEW s \in Seq(Nodes) PROVE Append(s, n) \in Seq(Nodes)
    OBVIOUS
  <2>6. details' \in Seq(Nodes) /\ ssTCP' \in Seq(Nodes) /\ ssUDP' \in Seq(Nodes)
    BY <2>2, <2>3, <2>4, <2>5 DEF TypeOK
  <2> QED
    BY <2>1, <2>6 DEF TypeOK
<1>11. CASE UNCHANGED vars
  BY <1>11 DEF TypeOK, vars, nsVars, workVars
<1> QED
  BY <1>1, <1>2, <1>3, <1>4, <1>5, <1>6, <1>7, <1>8, <1>9, <1>10, <1>11
     DEF Next, Caller

\* Spec keeps every variable in its type.
THEOREM TypeCorrect == Spec => []TypeOK
  BY TypeInitially, TypeStep, PTL DEF Spec

-----------------------------------------------------------------------------
(* The cluster                                                             *)

\* A step of a goroutine leaves the caller alone, and creates a pod only in
\* an active namespace.
LEMMA WorkerFrame ==
  ASSUME TypeOK, NEW n \in Nodes, Worker(n)
  PROVE  /\ UNCHANGED <<ns, annotated, stale, pc, expired, dirty, fresh, alone, targets, result>>
         /\ pod' # pod => ns # "absent" \/ pod[n] # "none"
         /\ wpc[n] \in Working
         /\ \A m \in Nodes \ {n} : wpc'[m] = wpc[m] /\ werr'[m] = werr[m]
         /\ wpc'[n] \in Working \cup {"returned"}
         /\ wpc'[n] \in Working \ {"deletePod"} /\ ~werr[n] => ~werr'[n]
  BY DEF TypeOK, Worker, CreatePod, WaitForPod, Exec, Lock, AppendDetails,
         AppendTCP, AppendUDP, Unlock, DeletePod, Goto, Fail, nsVars, sessionVars,
         Working, InLock

LEMMA ClusterStep ==
  TypeOK /\ ClusterInv /\ PointsInv /\ [Next]_vars => ClusterInv'
<1> SUFFICES ASSUME TypeOK, ClusterInv, PointsInv, [Next]_vars PROVE ClusterInv'
  OBVIOUS
<1> USE DEF Over, Busy
<1>1. CASE NewCheck
  <2> USE DEF ClusterInv, NoTerminatingRace, DisownPods, TypeOK, NsTypeOK
  <2>1. CASE BeginSession
    BY <2>1 DEF BeginSession
  <2>2. CASE SkipSession
    BY <2>2 DEF SkipSession
  <2> QED
    BY <1>1, <2>1, <2>2 DEF NewCheck
<1>2. CASE Create
  BY <1>2 DEF ClusterInv, NoTerminatingRace, Create, CreateNamespace, TypeOK, NsTypeOK
<1>3. CASE Ready
  BY <1>3 DEF ClusterInv, NoTerminatingRace, Ready, WaitForAnnotation, TypeOK, NsTypeOK
<1>4. CASE Wait
  BY <1>4 DEF ClusterInv, NoTerminatingRace, Wait, clusterVars, TypeOK, NsTypeOK
<1>5. CASE Delete
  BY <1>5 DEF ClusterInv, NoTerminatingRace, Delete, DeleteNamespace, TypeOK, NsTypeOK
<1>6. CASE Drain
  BY <1>6 DEF ClusterInv, NoTerminatingRace, Drain, WaitForRemoval, TypeOK, NsTypeOK
<1>7. CASE Deadline
  BY <1>7 DEF ClusterInv, NoTerminatingRace, Deadline, DeadlinePasses, TypeOK, NsTypeOK
<1>8. CASE Crash
  BY <1>8 DEF ClusterInv, NoTerminatingRace, Crash, CrashSession, TypeOK, NsTypeOK
<1>9. CASE Environment
  <2> SUFFICES ASSUME Cluster PROVE ClusterInv'
    BY <1>9 DEF Environment
  <2> USE DEF ClusterInv, NoTerminatingRace, sessionVars, TypeOK, NsTypeOK
  <2>1. CASE Annotate
    BY <2>1 DEF Annotate
  <2>2. ASSUME NEW n \in Nodes, StartPod(n) PROVE ClusterInv'
    BY <2>2 DEF StartPod
  <2>3. ASSUME NEW n \in Nodes, RemovePod(n) PROVE ClusterInv'
    BY <2>3 DEF RemovePod
  <2>4. ASSUME NEW n \in Nodes, RemoveStale(n) PROVE ClusterInv'
    BY <2>4 DEF RemoveStale
  <2>5. CASE FinalizeNamespace
    BY <2>5 DEF FinalizeNamespace
  <2>6. CASE Rival
    BY <2>6 DEF Rival, RivalCreate, RivalDelete, RivalPod
  <2> QED
    BY <2>1, <2>2, <2>3, <2>4, <2>5, <2>6 DEF Cluster
<1>10. ASSUME NEW n \in Nodes, Worker(n) PROVE ClusterInv'
  <2>1. UNCHANGED <<ns, annotated, stale, pc, dirty, fresh, alone>>
    BY <1>10, WorkerFrame
  <2>2. pod' # pod => ns # "absent"
    BY <1>10, WorkerFrame DEF ClusterInv
  <2> QED
    BY <2>1, <2>2 DEF ClusterInv, NoTerminatingRace
<1>11. CASE UNCHANGED vars
  BY <1>11 DEF ClusterInv, NoTerminatingRace, vars, nsVars
<1> QED
  BY <1>1, <1>2, <1>3, <1>4, <1>5, <1>6, <1>7, <1>8, <1>9, <1>10, <1>11
     DEF Next, Caller

-----------------------------------------------------------------------------
(* The goroutines and the caller                                           *)

LEMMA PointsStep ==
  TypeOK /\ PointsInv /\ [Next]_vars => PointsInv'
<1> SUFFICES ASSUME TypeOK, PointsInv, [Next]_vars PROVE PointsInv'
  OBVIOUS
<1> USE DEF Over, Busy, TypeOK, NsTypeOK, Working, InLock
<1>1. CASE NewCheck
  BY <1>1 DEF PointsInv, NewCheck, BeginSession, SkipSession, DisownPods
<1>2. CASE Create
  BY <1>2 DEF PointsInv, Create, CreateNamespace
<1>3. CASE Ready
  BY <1>3 DEF PointsInv, Ready, WaitForAnnotation
<1>4. CASE Wait
  BY <1>4 DEF PointsInv, Wait, clusterVars
<1>5. CASE Delete
  BY <1>5 DEF PointsInv, Delete, DeleteNamespace, workVars
<1>6. CASE Drain
  BY <1>6 DEF PointsInv, Drain, WaitForRemoval, workVars
<1>7. CASE Deadline
  BY <1>7 DEF PointsInv, Deadline, DeadlinePasses, workVars
<1>8. CASE Crash
  BY <1>8 DEF PointsInv, Crash, CrashSession
<1>9. CASE Environment
  <2>1. UNCHANGED <<pc, targets, wpc, werr, result>>
    BY <1>9 DEF Environment, Cluster, Annotate, StartPod, RemovePod, RemoveStale,
                FinalizeNamespace, Rival, sessionVars, workVars
  <2> QED
    BY <2>1 DEF PointsInv
<1>10. ASSUME NEW n \in Nodes, Worker(n) PROVE PointsInv'
  <2>1. pc = "working" /\ n \in targets /\ result = "none"
    BY <1>10, WorkerFrame DEF PointsInv
  <2>2. wpc[n] \in Working \ {"deletePod"} => ~werr[n]
    BY DEF PointsInv
  <2>3. wpc'[n] \in Working \ {"deletePod"} => ~werr'[n]
    BY <1>10, <2>2 DEF Worker, CreatePod, WaitForPod, Exec, Lock, AppendDetails,
         AppendTCP, AppendUDP, Unlock, DeletePod, Goto, Fail
  <2> QED
    BY <1>10, <2>1, <2>3, WorkerFrame DEF PointsInv
<1>11. CASE UNCHANGED vars
  BY <1>11 DEF PointsInv, vars, nsVars, workVars
<1> QED
  BY <1>1, <1>2, <1>3, <1>4, <1>5, <1>6, <1>7, <1>8, <1>9, <1>10, <1>11
     DEF Next, Caller

-----------------------------------------------------------------------------
(* The mutex                                                               *)

LEMMA LockStep ==
  TypeOK /\ PointsInv /\ LockInv /\ [Next]_vars => LockInv'
<1> SUFFICES ASSUME TypeOK, PointsInv, LockInv, [Next]_vars PROVE LockInv'
  OBVIOUS
<1> USE DEF TypeOK
<1>1. CASE NewCheck
  BY <1>1 DEF LockInv, NewCheck, InLock
<1>2. CASE Ready
  <2>1. CASE UNCHANGED wpc
    BY <1>2, <2>1 DEF LockInv, Ready
  <2>2. CASE wpc' = [n \in Nodes |-> IF n \in targets THEN "create" ELSE "idle"]
    <3>1. holder = {}
      BY <1>2 DEF Ready, WaitForAnnotation, PointsInv, LockInv, InLock
    <3> QED
      BY <1>2, <2>2, <3>1 DEF LockInv, Ready, InLock
  <2> QED
    BY <1>2, <2>1, <2>2 DEF Ready
<1>3. CASE Crash
  BY <1>3 DEF LockInv, Crash, InLock
<1>4. CASE UNCHANGED <<wpc, holder>>
  BY <1>4 DEF LockInv
<1>5. ASSUME NEW n \in Nodes, Worker(n) PROVE LockInv'
  <2>1. CASE Lock(n)
    BY <2>1 DEF LockInv, Lock, Goto, InLock
  <2>2. CASE Unlock(n)
    BY <2>2 DEF LockInv, Unlock, Goto, InLock
  <2>3. CASE ~Lock(n) /\ ~Unlock(n)
    <3>1. holder' = holder
      BY <1>5, <2>3 DEF Worker, CreatePod, WaitForPod, Exec, AppendDetails, AppendTCP,
                        AppendUDP, DeletePod
    <3>2. wpc'[n] \in InLock <=> wpc[n] \in InLock
      BY <1>5, <2>3 DEF Worker, CreatePod, WaitForPod, Exec, AppendDetails, AppendTCP,
                        AppendUDP, DeletePod, Goto, Fail, InLock
    <3>3. \A m \in Nodes \ {n} : wpc'[m] = wpc[m]
      BY <1>5, WorkerFrame
    <3> QED
      BY <3>1, <3>2, <3>3 DEF LockInv
  <2> QED
    BY <2>1, <2>2, <2>3
<1> QED
  <2>1. ASSUME Create \/ Wait \/ Delete \/ Drain \/ Deadline \/ Environment \/ UNCHANGED vars
        PROVE  UNCHANGED <<wpc, holder>>
    BY <2>1 DEF Create, Wait, Delete, Drain, Deadline, Environment, vars, workVars
  <2> QED
    BY <1>1, <1>2, <1>3, <1>4, <1>5, <2>1 DEF Next, Caller

-----------------------------------------------------------------------------
(* The three slices                                                        *)

\* A step of goroutine n that appends nothing and changes neither whether n
\* has reported nor where it is between Lock and Unlock.
LEMMA OrderKept ==
  ASSUME OrderInv, NEW n \in Nodes, pc' = pc,
         UNCHANGED <<details, ssTCP, ssUDP>>,
         \A m \in Nodes \ {n} : wpc'[m] = wpc[m] /\ werr'[m] = werr[m],
         HasReported(n)' <=> HasReported(n),
         wpc[n] \notin {"tcp", "udp"}, wpc'[n] \notin {"tcp", "udp"}
  PROVE  OrderInv'
<1>1. \A m \in Nodes : HasReported(m)' <=> HasReported(m)
  BY DEF HasReported
<1>2. {m \in Nodes : HasReported(m)}' = {m \in Nodes : HasReported(m)}
  BY <1>1
<1>3. Committed(details)' = Committed(details) /\ Distinct(details)' = Distinct(details)
  BY DEF Committed, Distinct
<1> QED
  BY <1>2, <1>3 DEF OrderInv

LEMMA OrderStep ==
  TypeOK /\ PointsInv /\ LockInv /\ OrderInv /\ [Next]_vars => OrderInv'
<1> SUFFICES ASSUME TypeOK, PointsInv, LockInv, OrderInv, [Next]_vars PROVE OrderInv'
  OBVIOUS
<1> USE DEF TypeOK, NsTypeOK
<1>1. CASE NewCheck
  <2>1. details' = <<>> /\ ssTCP' = <<>> /\ ssUDP' = <<>> /\ wpc' = [n \in Nodes |-> "idle"]
    BY <1>1 DEF NewCheck
  <2>2. {n \in Nodes : HasReported(n)}' = {}
    BY <2>1 DEF HasReported
  <2> QED
    BY <2>1, <2>2, CommittedEmpty DEF OrderInv
<1>2. CASE Ready
  <2>1. /\ pc = "annotating" /\ \A n \in Nodes : wpc[n] = "idle"
        /\ UNCHANGED <<details, ssTCP, ssUDP>>
    BY <1>2 DEF Ready, WaitForAnnotation, PointsInv
  <2>2. \A n \in Nodes : wpc'[n] \in {"idle", "create"}
    BY <1>2, <2>1 DEF Ready
  <2>3. \A n \in Nodes : ~HasReported(n) /\ ~HasReported(n)'
    BY <2>1, <2>2 DEF HasReported
  <2>4. Committed(details) = {} /\ details = ssTCP /\ ssTCP = ssUDP
    BY <2>1, <2>3 DEF OrderInv
  <2>5. {n \in Nodes : HasReported(n)}' = {}
    BY <2>2 DEF HasReported
  <2>6. Committed(details)' = {}
    <3>1. details' = details
      BY <2>1
    <3>2. Committed(details') = Committed(details)
      BY <3>1
    <3> QED
      BY <2>4, <3>2
  <2>7. Distinct(details)'
    BY <2>1 DEF OrderInv, Distinct
  <2> QED
    BY <2>1, <2>2, <2>4, <2>5, <2>6, <2>7 DEF OrderInv
<1>3. CASE Crash
  <2>1. details' = details /\ pc' = "crashed"
    BY <1>3 DEF Crash, CrashSession
  <2>2. Distinct(details)'
    BY <2>1 DEF OrderInv, Distinct
  <2> QED
    BY <2>1, <2>2 DEF OrderInv
<1>4. ASSUME UNCHANGED <<details, ssTCP, ssUDP, wpc, werr>>, pc' = "crashed" => pc = "crashed",
             pc = "crashed" => pc' = "crashed"
      PROVE  OrderInv'
  BY <1>4 DEF OrderInv, Distinct, Committed, HasReported
<1>5. ASSUME NEW n \in Nodes, Worker(n) PROVE OrderInv'
  <2> DEFINE others == \A m \in Nodes \ {n} : wpc'[m] = wpc[m] /\ werr'[m] = werr[m]
  <2>1. others /\ pc' = pc /\ pc # "crashed"
    BY <1>5, WorkerFrame DEF PointsInv, Working, InLock
  <2>2. wpc[n] \in Working \ {"deletePod"} => ~werr[n]
    BY DEF PointsInv
  <2>3. \A m \in Nodes \ {n} : wpc[n] \in InLock => wpc[m] \notin InLock
    BY DEF LockInv
  <2>4. CASE AppendDetails(n)
    <3>1. /\ wpc[n] = "details" /\ wpc'[n] = "tcp" /\ details' = Append(details, n)
          /\ UNCHANGED <<ssTCP, ssUDP, werr>>
      BY <2>4 DEF AppendDetails, Goto
    <3>2. \A m \in Nodes : wpc[m] \notin {"tcp", "udp"}
      BY <2>3, <3>1 DEF InLock
    <3>3. details = ssTCP /\ ssTCP = ssUDP
      BY <2>1, <3>2 DEF OrderInv
    <3>4. ~HasReported(n) /\ HasReported(n)'
      BY <3>1 DEF HasReported
    <3>5. {m \in Nodes : HasReported(m)}' = {m \in Nodes : HasReported(m)} \cup {n}
      BY <2>1, <3>4 DEF HasReported
    <3>6. n \notin Committed(details) /\ Distinct(details)
      BY <2>1, <3>4 DEF OrderInv
    <3>7. Distinct(details)' /\ Committed(details)' = Committed(details) \cup {n}
      <4>1. Distinct(details') /\ Committed(details') = Committed(details) \cup {n}
        BY <3>1, <3>6, AppendNew
      <4> QED
        BY <4>1 DEF Distinct, Committed
    <3>8. \A m \in Nodes \ {n} : wpc'[m] \notin {"tcp", "udp"}
      BY <2>1, <3>2
    <3> QED
      BY <2>1, <3>1, <3>3, <3>5, <3>7, <3>8 DEF OrderInv
  <2>5. CASE AppendTCP(n)
    <3>1. /\ wpc[n] = "tcp" /\ wpc'[n] = "udp" /\ ssTCP' = Append(ssTCP, n)
          /\ UNCHANGED <<details, ssUDP, werr>>
      BY <2>5 DEF AppendTCP, Goto
    <3>2. details = ssTCP' /\ ssTCP = ssUDP
      BY <2>1, <3>1 DEF OrderInv
    <3>3. {m \in Nodes : HasReported(m)}' = {m \in Nodes : HasReported(m)}
      BY <2>1, <3>1 DEF HasReported
    <3>4. Committed(details)' = Committed(details) /\ Distinct(details)' = Distinct(details)
      BY <3>1 DEF Committed, Distinct
    <3>5. \A m \in Nodes \ {n} : wpc'[m] \notin {"tcp", "udp"}
      BY <2>1, <2>3, <3>1 DEF InLock
    <3> QED
      BY <2>1, <3>1, <3>2, <3>3, <3>4, <3>5 DEF OrderInv
  <2>6. CASE AppendUDP(n)
    <3>1. /\ wpc[n] = "udp" /\ wpc'[n] = "unlock" /\ ssUDP' = Append(ssUDP, n)
          /\ UNCHANGED <<details, ssTCP, werr>>
      BY <2>6 DEF AppendUDP, Goto
    <3>2. details = ssTCP /\ ssTCP = ssUDP'
      BY <2>1, <3>1 DEF OrderInv
    <3>3. {m \in Nodes : HasReported(m)}' = {m \in Nodes : HasReported(m)}
      BY <2>1, <3>1 DEF HasReported
    <3>4. Committed(details)' = Committed(details) /\ Distinct(details)' = Distinct(details)
      BY <3>1 DEF Committed, Distinct
    <3>5. \A m \in Nodes \ {n} : wpc'[m] \notin {"tcp", "udp"}
      BY <2>1, <2>3, <3>1 DEF InLock
    <3> QED
      BY <2>1, <3>1, <3>2, <3>3, <3>4, <3>5 DEF OrderInv
  <2>7. CASE ~AppendDetails(n) /\ ~AppendTCP(n) /\ ~AppendUDP(n)
    <3>1. /\ UNCHANGED <<details, ssTCP, ssUDP>>
          /\ wpc[n] \notin {"tcp", "udp"}
          /\ wpc'[n] \notin {"tcp", "udp"}
          /\ HasReported(n)' <=> HasReported(n)
      BY <1>5, <2>2, <2>7 DEF Worker, CreatePod, WaitForPod, Exec, Lock, Unlock, DeletePod,
           Goto, Fail, HasReported, Working, InLock
    <3> QED
      BY <2>1, <3>1, OrderKept
  <2> QED
    BY <2>4, <2>5, <2>6, <2>7
<1> QED
  <2>1. ASSUME Create \/ Wait \/ Delete \/ Drain \/ Deadline \/ Environment \/ UNCHANGED vars
        PROVE  UNCHANGED <<details, ssTCP, ssUDP, wpc, werr>>
    BY <2>1 DEF Create, Wait, Delete, Drain, Deadline, Environment, vars, workVars
  <2>2. ASSUME Create \/ Wait \/ Delete \/ Drain \/ Deadline \/ Environment \/ UNCHANGED vars
        PROVE  pc' = "crashed" <=> pc = "crashed"
    <3>1. CASE Create \/ Wait \/ Delete \/ Drain \/ Deadline
      BY <3>1 DEF Create, CreateNamespace, Wait, Delete, DeleteNamespace, Drain,
                  WaitForRemoval, Deadline, DeadlinePasses
    <3>2. CASE Environment \/ UNCHANGED vars
      BY <3>2 DEF Environment, Cluster, Annotate, StartPod, RemovePod, RemoveStale,
                  FinalizeNamespace, Rival, sessionVars, vars, nsVars
    <3> QED
      BY <2>2, <3>1, <3>2
  <2> QED
    BY <1>1, <1>2, <1>3, <1>4, <1>5, <2>1, <2>2 DEF Next, Caller

-----------------------------------------------------------------------------
(* The theorems                                                            *)

LEMMA IInvInitially == Init => IInv
<1> SUFFICES ASSUME Init PROVE IInv
  OBVIOUS
<1> USE DEF Init, NsInit
<1>1. ClusterInv /\ LockInv
  BY DEF ClusterInv, NoTerminatingRace, LockInv, Over, InLock
<1>2. PointsInv
  BY DEF PointsInv, Working, InLock
<1>3. OrderInv
  <2>1. {n \in Nodes : HasReported(n)} = {}
    BY DEF HasReported
  <2> QED
    BY <2>1, CommittedEmpty DEF OrderInv
<1> QED
  BY <1>1, <1>2, <1>3, TypeInitially DEF IInv

LEMMA IInvStep == IInv /\ [Next]_vars => IInv'
  BY TypeStep, ClusterStep, PointsStep, LockStep, OrderStep DEF IInv

\* IInv is an invariant of SSCollector.
THEOREM Invariance == Spec => []IInv
  BY IInvInitially, IInvStep, PTL DEF Spec

\* What DeleteNamespace returning nil promises is true of the cluster until
\* the next Create, through crashes, failed sessions and reruns.
THEOREM RemovalIsKnown == Spec => []KnownClean
<1>1. IInv => KnownClean
  BY DEF IInv, ClusterInv, KnownClean
<1> QED
  BY <1>1, Invariance, PTL

\* A session that begins after a removal the tool saw finish never works in a
\* terminating namespace nor beside the pods of another session, as long as no
\* other process interferes.
THEOREM RaceAvoided == Spec => []NoTerminatingRace
<1>1. IInv => NoTerminatingRace
  BY DEF IInv, ClusterInv
<1> QED
  BY <1>1, Invariance, PTL

\* GenerateSS returns every listed node once and in one order in all of its
\* outputs, or an error.
THEOREM ResultIsWhole == Spec => []ResultWhole
<1>1. IInv => ResultWhole
  <2> SUFFICES ASSUME IInv, result = "ok" PROVE ResultWhole
    BY DEF ResultWhole
  <2>1. pc \in {"deleting", "draining", "closed"}
    BY DEF IInv, TypeOK, NsTypeOK, Over, Busy, PointsInv
  <2>2. /\ \A n \in targets : wpc[n] = "returned" /\ ~werr[n]
        /\ \A n \in Nodes \ targets : wpc[n] = "idle"
    BY <2>1 DEF IInv, PointsInv
  <2>3. \A n \in Nodes : wpc[n] \notin {"tcp", "udp"}
    BY <2>2
  <2>4. {n \in Nodes : HasReported(n)} = targets
    BY <2>2 DEF HasReported, IInv, TypeOK
  <2> QED
    BY <2>1, <2>3, <2>4 DEF IInv, OrderInv, ResultWhole
<1> QED
  BY <1>1, Invariance, PTL

\* No goroutine is at work once the caller is past g.Wait.
THEOREM NamespaceOutlivesWorkers == Spec => []NoUseAfterDelete
<1>1. IInv => NoUseAfterDelete
  <2> SUFFICES ASSUME IInv, pc # "working", NEW n \in Nodes PROVE wpc[n] \notin Working
    BY DEF NoUseAfterDelete
  <2>1. wpc[n] \in {"idle", "returned"}
    BY DEF IInv, TypeOK, NsTypeOK, Over, Busy, PointsInv
  <2> QED
    BY <2>1 DEF Working, InLock
<1> QED
  BY <1>1, Invariance, PTL

\* A pod is created only in a namespace that has its annotation, unless another
\* process put that namespace in the place of the one this session waited for.
THEOREM PodsNeedAnnotation == Spec => PodsOnlyWhenAnnotated
<1>1. ASSUME IInv, [Next]_vars, NEW n \in Nodes, pod[n] = "none", pod'[n] = "pending", alone
      PROVE  annotated
  <2>1. PICK m \in Nodes : Worker(m)
    <3>1. pod' # pod /\ ~NewCheck
      BY <1>1 DEF NewCheck, BeginSession, SkipSession, DisownPods
    <3>2. ~Environment
      BY <1>1 DEF Environment, Cluster, Annotate, StartPod, RemovePod, RemoveStale,
                  FinalizeNamespace, Rival, IInv, TypeOK, NsTypeOK
    <3> QED
      BY <1>1, <3>1, <3>2 DEF Next, Caller, Create, CreateNamespace, Ready, WaitForAnnotation,
           Wait, Delete, DeleteNamespace, Drain, WaitForRemoval, Deadline, DeadlinePasses,
           Crash, CrashSession, clusterVars, vars, nsVars
  <2>2. CreatePod(m) /\ ns = "active"
    BY <1>1, <2>1 DEF Worker, CreatePod, WaitForPod, Exec, Lock, AppendDetails, AppendTCP,
         AppendUDP, Unlock, DeletePod, nsVars, IInv, TypeOK, NsTypeOK
  <2>3. pc = "working"
    <3>1. wpc[m] = "create"
      BY <2>2 DEF CreatePod, Goto, Fail
    <3> QED
      BY <1>1, <3>1 DEF IInv, TypeOK, NsTypeOK, Over, Busy, PointsInv
  <2> QED
    BY <1>1, <2>2, <2>3 DEF IInv, ClusterInv
<1>2. IInv /\ [Next]_vars =>
        [\A n \in Nodes : pod[n] = "none" /\ pod'[n] = "pending" /\ alone => annotated]_vars
  BY <1>1
<1> QED
  BY <1>2, Invariance, PTL DEF Spec, PodsOnlyWhenAnnotated

-----------------------------------------------------------------------------
(* Refinement                                                              *)

LEMMA RefinesInitially == Init => Collection!Init
  BY DEF Init, Collection!Init

\* The append to ssOutUDP is the report; g.Wait decides between success and
\* error; every other step of the code is a stutter, a new start or a loss.
LEMMA RefinesStep == IInv /\ [Next]_vars => [Collection!Next]_(Collection!vars)
<1> SUFFICES ASSUME IInv, [Next]_vars PROVE [Collection!Next]_(Collection!vars)
  OBVIOUS
<1> USE DEF Collection!Next, Collection!vars
<1>1. CASE NewCheck
  BY <1>1 DEF NewCheck, Collection!Begin
<1>2. CASE Create \/ Ready
  <2>1. result = "none" /\ result' \in {"none", "err"} /\ UNCHANGED <<targets, ssUDP>>
    BY <1>2 DEF Create, CreateNamespace, Ready, WaitForAnnotation, IInv, PointsInv
  <2> QED
    BY <2>1 DEF Collection!GiveUp
<1>3. CASE Wait
  <2>1. result = "none" /\ UNCHANGED <<targets, ssUDP>>
    BY <1>3 DEF Wait, IInv, PointsInv
  <2>2. CASE \E n \in targets : werr[n]
    BY <1>3, <2>1, <2>2 DEF Wait, Collection!GiveUp
  <2>3. CASE \A n \in targets : ~werr[n]
    <3>1. pc = "working" /\ result' = "ok" /\ \A n \in targets : wpc[n] = "returned"
      BY <1>3, <2>3 DEF Wait
    <3>2. \A n \in Nodes \ targets : wpc[n] = "idle"
      BY DEF IInv, PointsInv
    <3>3. /\ {n \in Nodes : HasReported(n)} = targets
          /\ \A n \in Nodes : wpc[n] \notin {"tcp", "udp"}
      BY <2>3, <3>1, <3>2 DEF HasReported, IInv, TypeOK
    <3>4. Committed(ssUDP) = targets
      BY <3>1, <3>3 DEF IInv, OrderInv
    <3> QED
      BY <2>1, <3>1, <3>4 DEF Committed, Collection!Succeed, Collection!Reported
  <2> QED
    BY <2>2, <2>3
<1>4. CASE Crash
  BY <1>4 DEF Crash, Collection!Lose
<1>5. CASE Delete \/ Drain \/ Deadline \/ Environment \/ UNCHANGED vars
  BY <1>5 DEF Delete, Drain, Deadline, Environment, vars, workVars
<1>6. ASSUME NEW n \in Nodes, Worker(n) PROVE [Collection!Next]_(Collection!vars)
  <2>1. UNCHANGED <<targets, result>>
    BY <1>6, WorkerFrame DEF IInv
  <2>2. CASE UNCHANGED ssUDP
    BY <2>1, <2>2
  <2>3. CASE AppendUDP(n)
    <3>1. wpc[n] = "udp" /\ ssUDP' = Append(ssUDP, n)
      BY <2>3 DEF AppendUDP, Goto
    <3>2. pc = "working" /\ result = "none" /\ n \in targets
      BY <3>1 DEF IInv, PointsInv, TypeOK, NsTypeOK, Over, Busy
    <3>3. Distinct(Append(ssUDP, n))
      BY <3>1, <3>2 DEF IInv, OrderInv
    <3>4. n \notin Committed(ssUDP)
      <4> DEFINE t == Append(ssUDP, n)
      <4>1. /\ Len(t) = Len(ssUDP) + 1
            /\ Len(ssUDP) \in Nat
            /\ \A i \in 1..Len(ssUDP) : t[i] = ssUDP[i]
            /\ t[Len(ssUDP) + 1] = n
        BY DEF IInv, TypeOK
      <4> HIDE DEF t
      <4>2. Distinct(t)
        BY <3>3 DEF t
      <4> QED
        BY <4>1, <4>2 DEF Committed, Distinct
    <3>5. Collection!Report(n)
      BY <2>1, <3>1, <3>2, <3>4 DEF Collection!Report, Collection!Reported, Committed
    <3> QED
      BY <3>5
  <2> QED
    BY <1>6, <2>2, <2>3 DEF Worker, CreatePod, WaitForPod, Exec, Lock, AppendDetails,
       AppendTCP, Unlock, DeletePod
<1> QED
  BY <1>1, <1>2, <1>3, <1>4, <1>5, <1>6 DEF Next, Caller

\* GenerateSS with its callers and goroutines implements NodeCollection.
THEOREM Refinement == Spec => ImplementsCollection
  BY RefinesInitially, RefinesStep, Invariance, PTL
     DEF Spec, ImplementsCollection, Collection!Spec

\* The caller's steps are the calls of the session, those of the goroutines its
\* work: only a CreatePod and a DeletePod show, and the end of g.Wait.
LEMMA SessionStep ==
  IInv /\ [Next]_vars => [Session!SessionNext]_(Session!sessionState)
<1> DEFINE over == {"deleting", "draining", "closed"}
           work == IF pc \in over THEN result ELSE "none"
<1> SUFFICES ASSUME IInv, [Next]_vars PROVE [Session!SessionNext]_(Session!sessionState)
  OBVIOUS
<1> USE DEF Session!SessionNext, Session!InSession, Session!Call
<1>1. CASE NewCheck
  <2>1. Session!BeginSession \/ Session!SkipSession
    BY <1>1 DEF NewCheck, BeginSession, SkipSession, DisownPods, Over,
         Session!BeginSession, Session!SkipSession, Session!DisownPods, Session!Over
  <2>2. pc' \in {"creating", "aborted"}
    BY <1>1 DEF NewCheck, BeginSession, SkipSession
  <2> QED
    BY <2>1, <2>2 DEF Session!Begin
<1>2. CASE Create
  <2>1. pc \notin over /\ pc' \notin over
    BY <1>2 DEF Create, CreateNamespace
  <2> QED
    BY <1>2, <2>1 DEF Create, CreateNamespace, Session!Create, Session!CreateNamespace
<1>3. CASE Ready
  <2>1. pc \notin over /\ pc' \notin over
    BY <1>3 DEF Ready, WaitForAnnotation
  <2> QED
    BY <1>3, <2>1 DEF Ready, WaitForAnnotation, Session!Ready, Session!WaitForAnnotation
<1>4. CASE Wait
  BY <1>4 DEF Wait, clusterVars, Session!EndWork, Session!clusterVars
<1>5. CASE Delete
  <2>1. pc \in over /\ pc' \in over /\ result' = result
    BY <1>5 DEF Delete, DeleteNamespace, workVars
  <2> QED
    BY <1>5, <2>1 DEF Delete, DeleteNamespace, Session!Delete, Session!DeleteNamespace
<1>6. CASE Drain
  <2>1. pc \in over /\ pc' \in over /\ result' = result
    BY <1>6 DEF Drain, WaitForRemoval, workVars
  <2> QED
    BY <1>6, <2>1 DEF Drain, WaitForRemoval, Session!Drain, Session!WaitForRemoval
<1>7. CASE Deadline
  <2>1. UNCHANGED <<pc, result>>
    BY <1>7 DEF Deadline, DeadlinePasses, workVars
  <2> QED
    BY <1>7, <2>1 DEF Deadline, DeadlinePasses, Session!Deadline, Session!DeadlinePasses
<1>8. CASE Crash
  BY <1>8 DEF Crash, CrashSession, Busy, Session!Crash, Session!CrashSession, Session!Busy
<1>9. CASE Environment
  <2>1. UNCHANGED <<pc, result>>
    BY <1>9 DEF Environment, Cluster, Annotate, StartPod, RemovePod, RemoveStale,
         FinalizeNamespace, Rival, sessionVars, workVars
  <2>2. Session!Cluster
    BY <1>9 DEF Environment, Cluster, Annotate, StartPod, RemovePod, RemoveStale,
         FinalizeNamespace, Rival, RivalCreate, RivalDelete, RivalPod, sessionVars,
         Session!Cluster, Session!Annotate, Session!StartPod, Session!RemovePod,
         Session!RemoveStale, Session!FinalizeNamespace, Session!Rival,
         Session!RivalCreate, Session!RivalDelete, Session!RivalPod, Session!sessionVars
  <2> QED
    BY <2>1, <2>2 DEF Session!Environment
<1>10. ASSUME NEW n \in Nodes, Worker(n)
       PROVE  [Session!SessionNext]_(Session!sessionState)
  <2>1. pc = "working" /\ UNCHANGED <<ns, annotated, stale, pc, expired, dirty, fresh, alone, result>>
    <3>1. wpc[n] \in Working
      BY <1>10, WorkerFrame DEF IInv
    <3>2. pc = "working"
      BY <3>1 DEF IInv, TypeOK, NsTypeOK, Over, Busy, PointsInv, Working, InLock
    <3> QED
      BY <1>10, <3>2, WorkerFrame DEF IInv
  <2>2. CASE pod' = pod
    BY <2>1, <2>2 DEF Session!sessionState, Session!nsVars
  <2>3. CASE pod' = [pod EXCEPT ![n] = "pending"] /\ ns = "active"
    BY <2>1, <2>3 DEF Session!CreatePod, Session!sessionVars
  <2>4. CASE pod' = [pod EXCEPT ![n] = "deleting"] /\ pod[n] # "none"
    BY <2>1, <2>4 DEF Session!DeletePod, Session!sessionVars
  <2> QED
    BY <1>10, <2>2, <2>3, <2>4 DEF Worker, CreatePod, WaitForPod, Exec, Lock, AppendDetails,
       AppendTCP, AppendUDP, Unlock, DeletePod, nsVars
<1>11. CASE UNCHANGED vars
  BY <1>11 DEF vars, nsVars, workVars, Session!sessionState, Session!nsVars
<1> QED
  BY <1>1, <1>2, <1>3, <1>4, <1>5, <1>6, <1>7, <1>8, <1>9, <1>10, <1>11
     DEF Next, Caller

\* GenerateSS is a session in the debug namespace as the rest of the program
\* knows it, from CreateNamespace to the end of the deferred DeleteNamespace.
THEOREM SessionRefinement == Spec => ImplementsSession
<1>1. Init => Session!SessionInit
  BY DEF Init, NsInit, Session!SessionInit, Session!NsInit
<1> QED
  BY <1>1, SessionStep, Invariance, PTL DEF Spec, ImplementsSession, Session!Session

=============================================================================
