--------------------------- MODULE DebugNamespace ---------------------------
(***************************************************************************)
(* The life of the one fixed debug namespace, openshift-commatrix-debug.   *)
(* A session is one "CreateNamespace; defer DeleteNamespace; work" of the  *)
(* tool: generateSS has one, IsDHCPEnabled has another, and a rerun of the *)
(* tool starts them again.  This module has the cluster (API server,       *)
(* kubelet, namespace controller: external) and the two calls of           *)
(* pkg/utils/utils.go; what is done between them is a body supplied by the *)
(* modules that extend this one.                                           *)
(***************************************************************************)
EXTENDS Naturals

CONSTANTS
  Nodes,  \* names of the nodes of the cluster
  Rivals  \* whether other processes of the tool may be at work on it

ASSUME RivalsAssumption == Rivals \in BOOLEAN

VARIABLES
  ns,         \* the namespace object at the API server
  annotated,  \* it carries the annotation openshift.io/sa.scc.uid-range
  pod,        \* the debug pod of this session on each node
  stale,      \* nodes that still hold debug pods of earlier sessions
  pc,         \* where the session is
  expired,    \* the context deadline of the running poll has passed
  dirty,      \* a Create was sent since the last removal the tool saw finish
  fresh,      \* ~dirty when this session began
  alone       \* no other process has changed the namespace since then

clusterVars == <<ns, annotated, pod, stale>>
sessionVars == <<pc, expired, dirty, fresh, alone>>
nsVars      == <<ns, annotated, pod, stale, pc, expired, dirty, fresh, alone>>

NsPhase   == {"absent", "active", "terminating"}
PodStatus == {"none", "pending", "running", "deleting"}

\* A session is over when the enclosing function has returned (aborted before
\* the defer statement, closed after the deferred call) or the process died.
Over == {"idle", "aborted", "closed", "crashed"}
Busy == {"creating", "annotating", "working", "deleting", "draining"}

NsTypeOK ==
  /\ ns \in NsPhase
  /\ annotated \in BOOLEAN
  /\ pod \in [Nodes -> PodStatus]
  /\ stale \in SUBSET Nodes
  /\ pc \in Over \cup Busy
  /\ expired \in BOOLEAN
  /\ dirty \in BOOLEAN
  /\ fresh \in BOOLEAN
  /\ alone \in BOOLEAN

NsInit ==
  /\ ns = "absent"
  /\ annotated = FALSE
  /\ pod = [n \in Nodes |-> "none"]
  /\ stale = {}
  /\ pc = "idle"
  /\ expired = FALSE
  /\ dirty = FALSE
  /\ fresh = TRUE
  /\ alone = TRUE

-----------------------------------------------------------------------------
(* The tool                                                                *)

\* Pods are created with GenerateName, so those of an earlier session are
\* never taken for its own by a later one.
DisownPods ==
  /\ pc \in Over
  /\ stale' = stale \cup {n \in Nodes : pod[n] # "none"}
  /\ pod' = [n \in Nodes |-> "none"]
  /\ UNCHANGED <<ns, annotated, expired, dirty>>

\* A rerun, or the next session of the same run.
BeginSession ==
  /\ DisownPods
  /\ pc' = "creating"
  /\ fresh' = ~dirty
  /\ alone' = TRUE

\* The nodes cannot be listed: there is no session.
SkipSession ==
  /\ DisownPods
  /\ pc' = "aborted"
  /\ UNCHANGED <<fresh, alone>>

\* The Create of CreateNamespace.  AlreadyExists is tolerated, whatever the
\* phase of the existing object; any other error is returned before the
\* caller's defer statement, also when only the answer was lost.
CreateNamespace ==
  /\ pc = "creating"
  /\ \/ /\ ns = "absent"
        /\ ns' = "active"
        /\ pc' \in {"annotating", "aborted"}
     \/ /\ ns # "absent"
        /\ pc' = "annotating"
        /\ UNCHANGED ns
     \/ /\ pc' = "aborted"
        /\ UNCHANGED ns
  /\ dirty' = TRUE
  /\ expired' = FALSE
  /\ UNCHANGED <<annotated, pod, stale, fresh, alone>>

\* Variant: an existing namespace is taken as ready.
WaitForExistence ==
  /\ pc = "annotating"
  /\ \/ ns # "absent" /\ pc' = "working"
     \/ pc' = "aborted"
  /\ UNCHANGED <<ns, annotated, pod, stale, expired, dirty, fresh, alone>>

\* One Get of the poll of waitForNamespaceSCCUAnnotation that ends it: the
\* annotation is there, the Get failed (NotFound included) or the 10 minutes
\* are over.  A Get that ends nothing changes nothing.
WaitForAnnotation ==
  /\ pc = "annotating"
  /\ \/ /\ ns # "absent"
        /\ annotated
        /\ pc' = "working"
     \/ pc' = "aborted"
  /\ UNCHANGED <<ns, annotated, pod, stale, expired, dirty, fresh, alone>>

\* Variant: an accepted Delete counts as the removal.
DeleteWithoutWaiting ==
  /\ pc = "deleting"
  /\ pc' = "closed"
  /\ \/ ns # "absent" /\ ns' = "terminating" /\ dirty' = FALSE
     \/ UNCHANGED <<ns, dirty>>
  /\ expired' = FALSE
  /\ UNCHANGED <<annotated, pod, stale, fresh, alone>>

\* The deferred DeleteNamespace sends its Delete.  An error, NotFound
\* included, ends the call; the deferred function only logs it.
DeleteNamespace ==
  /\ pc = "deleting"
  /\ \/ /\ ns # "absent"
        /\ ns' = "terminating"
        /\ pc' \in {"draining", "closed"}
     \/ /\ pc' = "closed"
        /\ UNCHANGED ns
  /\ expired' = FALSE
  /\ UNCHANGED <<annotated, pod, stale, dirty, fresh, alone>>

\* Variant: the end of the poll is a success, also at its deadline.
WaitForRemovalOrDeadline ==
  /\ pc = "draining"
  /\ pc' = "closed"
  /\ ns = "absent" \/ expired
  /\ dirty' = FALSE
  /\ UNCHANGED <<ns, annotated, pod, stale, expired, fresh, alone>>

\* Variant: the poll has no deadline, and errors of its Get are retried.
WaitForNotFound ==
  /\ pc = "draining"
  /\ ns = "absent"
  /\ pc' = "closed"
  /\ dirty' = FALSE
  /\ UNCHANGED <<ns, annotated, pod, stale, expired, fresh, alone>>

\* The poll of DeleteNamespace ends: NotFound is success; any other error of
\* the Get, and the deadline of 2 minutes, end it with a logged error.
WaitForRemoval ==
  /\ pc = "draining"
  /\ pc' = "closed"
  /\ \/ /\ ns = "absent"
        /\ dirty' = FALSE
     \/ UNCHANGED dirty
  /\ UNCHANGED <<ns, annotated, pod, stale, expired, fresh, alone>>

\* The context of the poll times out.
DeadlinePasses ==
  /\ pc \in {"annotating", "draining"}
  /\ expired' = TRUE
  /\ UNCHANGED <<ns, annotated, pod, stale, pc, dirty, fresh, alone>>

\* The process is killed or panics.  main.go recovers nothing of a panic in
\* a goroutine and handles no signal, so no deferred call runs.
CrashSession ==
  /\ pc \in Busy
  /\ pc' = "crashed"
  /\ UNCHANGED <<ns, annotated, pod, stale, expired, dirty, fresh, alone>>

-----------------------------------------------------------------------------
(* The cluster (external)                                                  *)

Annotate ==
  /\ ns = "active"
  /\ annotated' = TRUE
  /\ UNCHANGED <<ns, pod, stale, sessionVars>>

StartPod(n) ==
  /\ pod[n] = "pending"
  /\ pod' = [pod EXCEPT ![n] = "running"]
  /\ UNCHANGED <<ns, annotated, stale, sessionVars>>

\* A pod that is being deleted, or whose namespace is, goes away.
RemovePod(n) ==
  /\ pod[n] # "none"
  /\ ns = "terminating" \/ pod[n] = "deleting"
  /\ pod' = [pod EXCEPT ![n] = "none"]
  /\ UNCHANGED <<ns, annotated, stale, sessionVars>>

\* Pods of earlier sessions: those being deleted may go at any time, so this
\* does not tell them from those that wait for the namespace's deletion.
RemoveStale(n) ==
  /\ n \in stale
  /\ stale' = stale \ {n}
  /\ UNCHANGED <<ns, annotated, pod, sessionVars>>

\* The namespace controller removes the object once its content is gone.
FinalizeNamespace ==
  /\ ns = "terminating"
  /\ stale = {}
  /\ \A n \in Nodes : pod[n] = "none"
  /\ ns' = "absent"
  /\ annotated' = FALSE
  /\ UNCHANGED <<pod, stale, sessionVars>>

-----------------------------------------------------------------------------
(* Another process of the tool, wherever it is in a session of its own: the *)
(* name of the namespace is a constant, so all processes share the one.     *)

RivalCreate ==
  /\ ns = "absent"
  /\ ns' = "active"
  /\ dirty' = TRUE
  /\ UNCHANGED <<annotated, stale>>

RivalDelete ==
  /\ ns = "active"
  /\ ns' = "terminating"
  /\ UNCHANGED <<annotated, stale, dirty>>

RivalPod(n) ==
  /\ ns = "active"
  /\ stale' = stale \cup {n}
  /\ UNCHANGED <<ns, annotated, dirty>>

Rival ==
  /\ Rivals
  /\ RivalCreate \/ RivalDelete \/ \E n \in Nodes : RivalPod(n)
  /\ alone' = FALSE
  /\ UNCHANGED <<pod, pc, expired, fresh>>

Cluster ==
  \/ Annotate
  \/ \E n \in Nodes : StartPod(n) \/ RemovePod(n) \/ RemoveStale(n)
  \/ FinalizeNamespace
  \/ Rival

-----------------------------------------------------------------------------
(* Properties                                                              *)

\* What the tool concludes from DeleteNamespace returning nil is true of the
\* cluster: as long as no process sent a Create after a removal it saw finish,
\* there is no namespace and no debug pod, of this session or of any earlier
\* one, however those ended (crash, error, failed deletion).
KnownClean ==
  ~dirty => /\ ns = "absent"
            /\ stale = {}
            /\ \A n \in Nodes : pod[n] = "none"

\* The comment above the defer of generateSS: waiting for the full removal
\* avoids Terminating races on reruns.  A session that begins after a removal
\* the tool saw finish runs in a namespace that is active, and shares it with
\* no pod of another session, unless another process interferes.
NoTerminatingRace ==
  fresh /\ alone /\ pc \in {"annotating", "working"} => ns = "active" /\ stale = {}

\* The comment "keep retrying" on the error branch of the poll in
\* DeleteNamespace: the wait ends only when the namespace is gone or its
\* deadline has passed.
KeepRetrying ==
  [][pc = "draining" /\ pc' = "closed" => ns = "absent" \/ expired]_nsVars

-----------------------------------------------------------------------------
(* The part of the inductive invariants that speaks of the cluster         *)

\* An absent namespace holds nothing; a session that touches the cluster is
\* dirty; only an annotated namespace is worked in, unless another process
\* has put a new one in its place.
ClusterInv ==
  /\ ns = "absent" => stale = {} /\ \A n \in Nodes : pod[n] = "none"
  /\ ~dirty => ns = "absent" /\ pc \in Over \cup {"creating"}
  /\ fresh /\ alone /\ pc = "creating" => ~dirty
  /\ NoTerminatingRace
  /\ alone /\ pc = "working" /\ ns = "active" => annotated

=============================================================================
