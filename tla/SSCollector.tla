---------------------------- MODULE SSCollector -----------------------------
(***************************************************************************)
(* generateSS (cmd/generate/generate.go) with NewCheck and GenerateSS      *)
(* (pkg/listening-sockets/listening-sockets.go): one goroutine per node    *)
(* creates a debug pod, waits for it, runs ss in it and, under a mutex,    *)
(* appends what it read to three shared slices; an errgroup waits for all  *)
(* of them and keeps the first error; the namespace is deleted last.       *)
(***************************************************************************)
EXTENDS DebugNamespace, Sequences

VARIABLES
  targets,  \* the keys of nodeToGroup: the nodes NewCheck listed
  wpc,      \* where the goroutine of each node is
  werr,     \* the goroutine returns, or has returned, an error
  holder,   \* the goroutines that hold nLock
  details,  \* nodesComDetails, as the order of the nodes appended
  ssTCP,    \* ssOutTCP, likewise
  ssUDP,    \* ssOutUDP, likewise
  result    \* what generateSS returns

workVars == <<targets, wpc, werr, holder, details, ssTCP, ssUDP, result>>
vars     == <<nsVars, workVars>>

\* Program points of the function passed to g.Go.  "idle": not running;
\* "returned": the function has returned and g.wg.Done was called.
InLock  == {"details", "tcp", "udp", "unlock"}
Working == {"create", "wait", "execTCP", "execUDP", "lock", "deletePod"} \cup InLock
WorkerPoint == {"idle", "returned"} \cup Working

TypeOK ==
  /\ NsTypeOK
  /\ targets \in SUBSET Nodes
  /\ wpc \in [Nodes -> WorkerPoint]
  /\ werr \in [Nodes -> BOOLEAN]
  /\ holder \in SUBSET Nodes
  /\ details \in Seq(Nodes)
  /\ ssTCP \in Seq(Nodes)
  /\ ssUDP \in Seq(Nodes)
  /\ result \in {"none", "ok", "err"}

Init ==
  /\ NsInit
  /\ targets = {}
  /\ wpc = [n \in Nodes |-> "idle"]
  /\ werr = [n \in Nodes |-> FALSE]
  /\ holder = {}
  /\ details = <<>>
  /\ ssTCP = <<>>
  /\ ssUDP = <<>>
  /\ result = "none"

-----------------------------------------------------------------------------
(* The caller, generateSS                                                  *)

\* NewCheck lists the nodes; what it lists is what GenerateSS ranges over.
NewCheck ==
  /\ \/ BeginSession /\ targets' \in SUBSET Nodes /\ result' = "none"
     \/ SkipSession /\ targets' = {} /\ result' = "err"
  /\ wpc' = [n \in Nodes |-> "idle"]
  /\ werr' = [n \in Nodes |-> FALSE]
  /\ holder' = {}
  /\ details' = <<>>
  /\ ssTCP' = <<>>
  /\ ssUDP' = <<>>

\* CreateNamespace, and the return with its error.
Create ==
  /\ CreateNamespace
  /\ result' = IF pc' = "aborted" THEN "err" ELSE result
  /\ UNCHANGED <<targets, wpc, werr, holder, details, ssTCP, ssUDP>>

\* The namespace is ready: its deletion is deferred and every node of
\* nodeToGroup gets its goroutine; the errgroup has no limit.
Ready ==
  /\ WaitForAnnotation
  /\ \/ /\ pc' = "working"
        /\ wpc' = [n \in Nodes |-> IF n \in targets THEN "create" ELSE "idle"]
        /\ UNCHANGED result
     \/ /\ pc' = "aborted"
        /\ result' = "err"
        /\ UNCHANGED wpc
  /\ UNCHANGED <<targets, werr, holder, details, ssTCP, ssUDP>>

\* Variant: the errgroup is left at its first error.
WaitForFirstError ==
  /\ pc = "working"
  /\ \/ /\ \E n \in targets : wpc[n] = "returned" /\ werr[n]
        /\ result' = "err"
     \/ /\ \A n \in targets : wpc[n] = "returned" /\ ~werr[n]
        /\ result' = "ok"
  /\ pc' = "deleting"
  /\ UNCHANGED <<clusterVars, expired, dirty, fresh, alone,
                 targets, wpc, werr, holder, details, ssTCP, ssUDP>>

\* g.Wait returns when every goroutine has returned, with the first error.
Wait ==
  /\ pc = "working"
  /\ \A n \in targets : wpc[n] = "returned"
  /\ pc' = "deleting"
  /\ result' = IF \E n \in targets : werr[n] THEN "err" ELSE "ok"
  /\ UNCHANGED <<clusterVars, expired, dirty, fresh, alone,
                 targets, wpc, werr, holder, details, ssTCP, ssUDP>>

Delete == DeleteNamespace /\ UNCHANGED workVars

Drain == WaitForRemoval /\ UNCHANGED workVars

Deadline == DeadlinePasses /\ UNCHANGED workVars

\* The goroutines die with the process; nobody sees a result.
Crash ==
  /\ CrashSession
  /\ wpc' = [n \in Nodes |-> "idle"]
  /\ holder' = {}
  /\ result' = "none"
  /\ UNCHANGED <<targets, werr, details, ssTCP, ssUDP>>

-----------------------------------------------------------------------------
(* The goroutine of node n                                                 *)

Goto(n, from, to) == wpc[n] = from /\ wpc' = [wpc EXCEPT ![n] = to]

\* Variant: the error is logged and dropped.
FailSilently(n, from, to) == Goto(n, from, to) /\ UNCHANGED werr

\* The goroutine gives up at point from: it runs what it has deferred, which
\* begins at point to, and will return an error.
Fail(n, from, to) ==
  /\ Goto(n, from, to)
  /\ werr' = [werr EXCEPT ![n] = TRUE]

\* CreatePodOnNode.  An error leaves a pod behind when only the answer of
\* the Create was lost.  A terminating namespace refuses new pods.
CreatePod(n) ==
  /\ \/ /\ ns = "active"
        /\ pod' = [pod EXCEPT ![n] = "pending"]
        /\ \/ Goto(n, "create", "wait") /\ UNCHANGED werr
           \/ Fail(n, "create", "returned")
     \/ /\ Fail(n, "create", "returned")
        /\ UNCHANGED pod
  /\ UNCHANGED <<ns, annotated, stale, sessionVars,
                 targets, holder, details, ssTCP, ssUDP, result>>

\* WaitForPodStatus ends: the pod runs; or it is gone, a Get failed or the
\* deadline passed.  DeletePod is deferred only after it succeeded.
WaitForPod(n) ==
  /\ \/ /\ pod[n] = "running"
        /\ Goto(n, "wait", "execTCP")
        /\ UNCHANGED werr
     \/ Fail(n, "wait", "returned")
  /\ UNCHANGED <<nsVars, targets, holder, details, ssTCP, ssUDP, result>>

\* RunCommandOnPod, once for each protocol.
Exec(n, from, to) ==
  /\ \/ /\ pod[n] = "running"
        /\ Goto(n, from, to)
        /\ UNCHANGED werr
     \/ Fail(n, from, "deletePod")
  /\ UNCHANGED <<nsVars, targets, holder, details, ssTCP, ssUDP, result>>

\* Variant: the append is not protected.
NoLock(n) ==
  /\ Goto(n, "lock", "details")
  /\ holder' = holder \cup {n}
  /\ UNCHANGED <<nsVars, targets, werr, details, ssTCP, ssUDP, result>>

Lock(n) ==
  /\ holder = {}
  /\ Goto(n, "lock", "details")
  /\ holder' = {n}
  /\ UNCHANGED <<nsVars, targets, werr, details, ssTCP, ssUDP, result>>

AppendDetails(n) ==
  /\ Goto(n, "details", "tcp")
  /\ details' = Append(details, n)
  /\ UNCHANGED <<nsVars, targets, werr, holder, ssTCP, ssUDP, result>>

AppendTCP(n) ==
  /\ Goto(n, "tcp", "udp")
  /\ ssTCP' = Append(ssTCP, n)
  /\ UNCHANGED <<nsVars, targets, werr, holder, details, ssUDP, result>>

AppendUDP(n) ==
  /\ Goto(n, "udp", "unlock")
  /\ ssUDP' = Append(ssUDP, n)
  /\ UNCHANGED <<nsVars, targets, werr, holder, details, ssTCP, result>>

\* Variant: the mutex stays locked.
NoUnlock(n) ==
  /\ Goto(n, "unlock", "deletePod")
  /\ UNCHANGED <<nsVars, targets, werr, holder, details, ssTCP, ssUDP, result>>

\* The deferred calls run last in, first out: Unlock, then DeletePod.
Unlock(n) ==
  /\ Goto(n, "unlock", "deletePod")
  /\ holder' = holder \ {n}
  /\ UNCHANGED <<nsVars, targets, werr, details, ssTCP, ssUDP, result>>

\* The deferred DeletePod: an error is only logged.
DeletePod(n) ==
  /\ Goto(n, "deletePod", "returned")
  /\ \/ /\ pod[n] # "none"
        /\ pod' = [pod EXCEPT ![n] = "deleting"]
     \/ UNCHANGED pod
  /\ UNCHANGED <<ns, annotated, stale, sessionVars,
                 targets, werr, holder, details, ssTCP, ssUDP, result>>

Worker(n) ==
  \/ CreatePod(n)
  \/ WaitForPod(n)
  \/ Exec(n, "execTCP", "execUDP")
  \/ Exec(n, "execUDP", "lock")
  \/ Lock(n)
  \/ AppendDetails(n)
  \/ AppendTCP(n)
  \/ AppendUDP(n)
  \/ Unlock(n)
  \/ DeletePod(n)

Environment == Cluster /\ UNCHANGED workVars

-----------------------------------------------------------------------------

Caller == NewCheck \/ Create \/ Ready \/ Wait \/ Delete \/ Drain \/ Deadline

Next ==
  \/ Caller
  \/ Crash
  \/ \E n \in Nodes : Worker(n)
  \/ Environment

Spec == Init /\ [][Next]_vars

\* Every call of a session returns: the polls have deadlines, requests to the
\* API server answer, and so does exec, which the code gives no deadline.
\* Nobody has to start a session and nothing has to crash.
Fairness ==
  /\ WF_vars(Create)
  /\ WF_vars(Ready)
  /\ WF_vars(Wait)
  /\ WF_vars(Delete)
  /\ WF_vars(Drain)
  /\ \A n \in Nodes : WF_vars(Worker(n))

FairSpec == Spec /\ Fairness

-----------------------------------------------------------------------------
(* The inductive invariant                                                 *)

Committed(s) == {s[i] : i \in 1..Len(s)}

Distinct(s) == \A i, j \in 1..Len(s) : s[i] = s[j] => i = j

\* The goroutine of n has appended to nodesComDetails.
HasReported(n) ==
  \/ wpc[n] \in {"tcp", "udp", "unlock"}
  \/ wpc[n] \in {"deletePod", "returned"} /\ ~werr[n]

\* Where the goroutines can be at each point of the caller.
PointsInv ==
  /\ pc \in {"idle", "creating", "annotating", "aborted", "crashed"}
       => result # "ok" /\ \A n \in Nodes : wpc[n] = "idle"
  /\ pc \in {"creating", "annotating", "working", "crashed"} => result = "none"
  /\ pc \in {"deleting", "draining", "closed"}
       => \A n \in targets : wpc[n] = "returned"
  /\ pc \in {"creating", "annotating"} => \A n \in Nodes : ~werr[n]
  /\ \A n \in Nodes \ targets : wpc[n] = "idle"
  /\ \A n \in Nodes : wpc[n] \in Working \ {"deletePod"} => ~werr[n]
  /\ result = "ok" => \A n \in targets : ~werr[n]

\* nLock: its holder is the one goroutine between Lock and Unlock.
LockInv ==
  /\ holder = {n \in Nodes : wpc[n] \in InLock}
  /\ \A m, n \in holder : m = n

\* The three slices agree but for what the holder of the lock has yet to add.
OrderInv ==
  /\ Distinct(details)
  /\ pc # "crashed" =>
       /\ Committed(details) = {n \in Nodes : HasReported(n)}
       /\ (\A n \in Nodes : wpc[n] \notin {"tcp", "udp"})
            => details = ssTCP /\ ssTCP = ssUDP
       /\ \A n \in Nodes : wpc[n] = "tcp" => details = Append(ssTCP, n) /\ ssTCP = ssUDP
       /\ \A n \in Nodes : wpc[n] = "udp" => details = ssTCP /\ ssTCP = Append(ssUDP, n)

IInv == TypeOK /\ ClusterInv /\ PointsInv /\ LockInv /\ OrderInv

-----------------------------------------------------------------------------
(* Properties                                                              *)

\* generateSS returns a result only if it is whole: every node it listed is
\* in the details, in the raw TCP and in the raw UDP output, once, and in
\* the same order; one failed node and there is no result.
ResultWhole ==
  result = "ok" =>
    /\ details = ssTCP
    /\ ssTCP = ssUDP
    /\ Committed(details) = targets
    /\ Distinct(details)

\* The deferred DeleteNamespace never overtakes a goroutine: once generateSS
\* is past g.Wait, none of them creates a pod, runs ss in one or appends.
NoUseAfterDelete ==
  pc # "working" => \A n \in Nodes : wpc[n] \notin Working

\* A pod is created only after the namespace has the annotation the security
\* context admission needs, also when Create met an existing namespace: another
\* process alone can replace it, after the wait, by one that has not.
PodsOnlyWhenAnnotated ==
  [][\A n \in Nodes : pod[n] = "none" /\ pod'[n] = "pending" /\ alone => annotated]_vars

\* Every session that begins comes to an end: no goroutine waits for the
\* mutex forever, and g.Wait returns.
SessionEnds == pc = "creating" ~> pc \in Over

\* generateSS implements the abstract collection of NodeCollection: seen from
\* its last append and its result, each node reports at most once and success
\* means that all did, whatever the goroutines interleave.
Collection == INSTANCE NodeCollection
                WITH expected <- targets, order <- ssUDP, outcome <- result

ImplementsCollection == Collection!Spec

\* To the rest of the program the collection is one session in the debug
\* namespace, whatever its goroutines do there.
Session == INSTANCE DebugSession
             WITH work <- IF pc \in {"deleting", "draining", "closed"} THEN result ELSE "none"

ImplementsSession == Session!Session

=============================================================================
