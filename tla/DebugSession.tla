---------------------------- MODULE DebugSession ----------------------------
(***************************************************************************)
(* What a session in the debug namespace is to the rest of the program:    *)
(* debug pods come and go, and the work that uses them ends well or not,   *)
(* between the two calls of DebugNamespace.  SSCollector and DHCPProbe are *)
(* shown to implement this specification, and CommatrixRun is built on it. *)
(***************************************************************************)
EXTENDS DebugNamespace

VARIABLE work  \* how the work of the session went: "none" unless it ended

sessionState == <<nsVars, work>>

SessionInit == NsInit /\ work = "none"

Begin ==
  /\ BeginSession \/ SkipSession
  /\ work' = "none"

Create == CreateNamespace /\ UNCHANGED work

Ready == WaitForAnnotation /\ UNCHANGED work

CreatePod(n) ==
  /\ pc = "working" /\ ns = "active"
  /\ pod' = [pod EXCEPT ![n] = "pending"]
  /\ UNCHANGED <<ns, annotated, stale, sessionVars, work>>

DeletePod(n) ==
  /\ pc = "working"
  /\ pod[n] # "none"
  /\ pod' = [pod EXCEPT ![n] = "deleting"]
  /\ UNCHANGED <<ns, annotated, stale, sessionVars, work>>

\* The work returns, and with it what the deferred deletion does not change.
EndWork ==
  /\ pc = "working"
  /\ pc' = "deleting"
  /\ work' \in {"ok", "err"}
  /\ UNCHANGED <<clusterVars, expired, dirty, fresh, alone>>

Delete == DeleteNamespace /\ UNCHANGED work

Drain == WaitForRemoval /\ UNCHANGED work

Deadline == DeadlinePasses /\ UNCHANGED work

Crash == CrashSession /\ work' = "none"

Environment == Cluster /\ UNCHANGED work

\* The calls of a session; each of them returns.
Call == Create \/ Ready \/ EndWork \/ Delete \/ Drain

InSession ==
  \/ Call
  \/ Deadline
  \/ \E n \in Nodes : CreatePod(n) \/ DeletePod(n)
  \/ Environment

SessionNext == Begin \/ InSession \/ Crash

Session == SessionInit /\ [][SessionNext]_sessionState

=============================================================================
