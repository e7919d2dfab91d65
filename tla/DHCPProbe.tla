----------------------------- MODULE DHCPProbe ------------------------------
(***************************************************************************)
(* IsDHCPEnabled and isDHCPEnabledOnNode (pkg/utils/utils.go): the second  *)
(* session the tool holds in the debug namespace.  The nodes are asked one *)
(* after the other, each through a debug pod of its own, until one says    *)
(* that a connection of it uses DHCP, or one cannot be asked.              *)
(***************************************************************************)
EXTENDS DebugNamespace

VARIABLES
  targets,  \* nodes.Items
  auto,     \* nodes with an active connection whose ipv4.method is auto
  asked,    \* the node isDHCPEnabledOnNode runs for: none or one
  at,       \* where it is
  verdict,  \* what it returns, or has returned, for each node
  answer,   \* what IsDHCPEnabled returns
  missed    \* nodes where a request went wrong that could leave a pod behind

probeVars == <<targets, auto, asked, at, verdict, answer, missed>>
vars      == <<nsVars, probeVars>>

Verdict == {"none", "quiet", "auto", "err"}

TypeOK ==
  /\ NsTypeOK
  /\ targets \in SUBSET Nodes
  /\ auto \in SUBSET Nodes
  /\ asked \in SUBSET Nodes
  /\ at \in {"loop", "wait", "exec", "deletePod"}
  /\ verdict \in [Nodes -> Verdict]
  /\ answer \in {"none", "yes", "no", "err"}
  /\ missed \in SUBSET Nodes

Init ==
  /\ NsInit
  /\ targets = {}
  /\ auto \in SUBSET Nodes
  /\ asked = {}
  /\ at = "loop"
  /\ verdict = [n \in Nodes |-> "none"]
  /\ answer = "none"
  /\ missed = {}

-----------------------------------------------------------------------------
(* IsDHCPEnabled                                                           *)

\* The node list is read; without it, or without a node, there is no session.
List ==
  /\ verdict' = [n \in Nodes |-> "none"]
  /\ asked' = {}
  /\ at' = "loop"
  /\ \/ /\ BeginSession
        /\ targets' \in (SUBSET Nodes) \ {{}}
        /\ answer' = "none"
        /\ missed' = {}
     \/ /\ SkipSession
        /\ targets' = {}
        /\ answer' = "err"
        /\ UNCHANGED missed
  /\ UNCHANGED auto

Create ==
  /\ CreateNamespace
  /\ answer' = IF pc' = "aborted" THEN "err" ELSE answer
  /\ UNCHANGED <<targets, auto, asked, at, verdict, missed>>

\* Variant: pods are made whatever the wait for the annotation says.
ReadyUnchecked ==
  /\ pc = "annotating"
  /\ pc' = "working"
  /\ UNCHANGED <<clusterVars, expired, dirty, fresh, alone, probeVars>>

Ready ==
  /\ WaitForAnnotation
  /\ answer' = IF pc' = "aborted" THEN "err" ELSE answer
  /\ UNCHANGED <<targets, auto, asked, at, verdict, missed>>

\* Some call has returned what ends the loop.
Decided == \E n \in targets : verdict[n] \in {"auto", "err"}

\* Variant: the first node that answers decides.
FirstDecides ==
  /\ pc = "working" /\ at = "loop"
  /\ \/ \E n \in targets : verdict[n] = "err" /\ answer' = "err"
     \/ \E n \in targets : verdict[n] = "auto" /\ answer' = "yes"
     \/ \E n \in targets : verdict[n] = "quiet" /\ answer' = "no"
  /\ pc' = "deleting"
  /\ UNCHANGED <<clusterVars, expired, dirty, fresh, alone,
                 targets, auto, asked, at, verdict, missed>>

\* The loop is left: by an error, by the first node with DHCP, at its end.
Decide ==
  /\ pc = "working" /\ at = "loop"
  /\ \/ \E n \in targets : verdict[n] = "err" /\ answer' = "err"
     \/ \E n \in targets : verdict[n] = "auto" /\ answer' = "yes"
     \/ (\A n \in targets : verdict[n] = "quiet") /\ answer' = "no"
  /\ pc' = "deleting"
  /\ UNCHANGED <<clusterVars, expired, dirty, fresh, alone,
                 targets, auto, asked, at, verdict, missed>>

Delete == DeleteNamespace /\ UNCHANGED probeVars

Drain == WaitForRemoval /\ UNCHANGED probeVars

Deadline == DeadlinePasses /\ UNCHANGED probeVars

Crash ==
  /\ CrashSession
  /\ asked' = {}
  /\ at' = "loop"
  /\ answer' = "none"
  /\ UNCHANGED <<targets, auto, verdict, missed>>

-----------------------------------------------------------------------------
(* isDHCPEnabledOnNode                                                     *)

\* CreatePodOnNode for the next node.  No pod is known, and none will be
\* deleted, when it fails, also when only its answer was lost.
CreatePod(n) ==
  /\ pc = "working" /\ at = "loop"
  /\ ~Decided
  /\ n \in targets /\ verdict[n] = "none"
  /\ \/ /\ ns = "active"
        /\ pod' = [pod EXCEPT ![n] = "pending"]
        /\ \/ at' = "wait" /\ asked' = {n} /\ UNCHANGED <<verdict, missed>>
           \/ /\ verdict' = [verdict EXCEPT ![n] = "err"]
              /\ missed' = missed \cup {n}
              /\ UNCHANGED <<at, asked>>
     \/ /\ verdict' = [verdict EXCEPT ![n] = "err"]
        /\ UNCHANGED <<pod, at, asked, missed>>
  /\ UNCHANGED <<ns, annotated, stale, sessionVars, targets, auto, answer>>

\* Variant: the deletion of the pod is deferred after the wait for it.
WaitForPodOrLeave(n) ==
  /\ at = "wait" /\ n \in asked
  /\ \/ pod[n] = "running" /\ at' = "exec" /\ UNCHANGED <<asked, verdict>>
     \/ /\ verdict' = [verdict EXCEPT ![n] = "err"]
        /\ at' = "loop"
        /\ asked' = {}
  /\ UNCHANGED <<nsVars, targets, auto, answer, missed>>

\* Variant: the wait has no deadline and no error ends it.
WaitForRunning(n) ==
  /\ at = "wait" /\ n \in asked
  /\ pod[n] = "running"
  /\ at' = "exec"
  /\ UNCHANGED <<nsVars, targets, auto, asked, verdict, answer, missed>>

WaitForPod(n) ==
  /\ at = "wait" /\ n \in asked
  /\ \/ pod[n] = "running" /\ at' = "exec" /\ UNCHANGED verdict
     \/ at' = "deletePod" /\ verdict' = [verdict EXCEPT ![n] = "err"]
  /\ UNCHANGED <<nsVars, targets, auto, asked, answer, missed>>

\* The nmcli pipeline: its exit status is that of the while loop, so that a
\* failing "connection show" yields no line and no error.
Exec(n) ==
  /\ at = "exec" /\ n \in asked
  /\ \/ /\ pod[n] = "running"
        /\ \/ n \in auto /\ verdict' = [verdict EXCEPT ![n] = "auto"]
           \/ verdict' = [verdict EXCEPT ![n] = "quiet"]
     \/ verdict' = [verdict EXCEPT ![n] = "err"]
  /\ at' = "deletePod"
  /\ UNCHANGED <<nsVars, targets, auto, asked, answer, missed>>

\* The deferred DeletePod; an error is only printed.
DeletePod(n) ==
  /\ at = "deletePod" /\ n \in asked
  /\ \/ /\ pod[n] # "none"
        /\ pod' = [pod EXCEPT ![n] = "deleting"]
        /\ UNCHANGED missed
     \/ missed' = missed \cup {n} /\ UNCHANGED pod
  /\ at' = "loop"
  /\ asked' = {}
  /\ UNCHANGED <<ns, annotated, stale, sessionVars, targets, auto, verdict, answer>>

Ask(n) == CreatePod(n) \/ WaitForPod(n) \/ Exec(n) \/ DeletePod(n)

Environment == Cluster /\ UNCHANGED probeVars

-----------------------------------------------------------------------------

Next ==
  \/ List \/ Create \/ Ready \/ Decide \/ Delete \/ Drain \/ Deadline
  \/ Crash
  \/ \E n \in Nodes : Ask(n)
  \/ Environment

Spec == Init /\ [][Next]_vars

\* As in SSCollector: every call of a session returns.
Fairness ==
  /\ WF_vars(Create)
  /\ WF_vars(Ready)
  /\ WF_vars(Decide)
  /\ WF_vars(Delete)
  /\ WF_vars(Drain)
  /\ \A n \in Nodes : WF_vars(Ask(n))

FairSpec == Spec /\ Fairness

-----------------------------------------------------------------------------
(* Properties                                                              *)

\* "No" is the answer of the whole cluster: every node of the list was asked,
\* in a pod that ran, and none reported DHCP.  "Yes" has a witness.
AnswerJustified ==
  /\ answer = "no" => targets # {} /\ \A n \in targets : verdict[n] = "quiet"
  /\ answer = "yes" => \E n \in targets \cap auto : verdict[n] = "auto"

\* However a node's turn ends, its pod is asked to go before the next node's
\* is created: the only pods that live are that of the node being asked and
\* those whose own Create or Delete went wrong.  (GenerateSS leaves the pod it
\* could not wait for to the deletion of the namespace.)
OnePodAtATime ==
  \A n \in Nodes : pod[n] \in {"pending", "running"} /\ pc # "crashed"
    => n \in asked \cup missed

\* Every session that begins comes to an end with an answer, or is aborted
\* or killed.
ProbeEnds == pc = "creating" ~> pc \in Over

\* To the rest of the program the probe is one session in the debug namespace,
\* whose work ends well when there is an answer.
Session == INSTANCE DebugSession
             WITH work <- IF pc \in {"deleting", "draining", "closed"}
                          THEN IF answer = "err" THEN "err" ELSE "ok"
                          ELSE "none"

ImplementsSession == Session!Session

\* The comment above IsDHCPEnabled: it "detects whether any active network
\* connection on any node uses DHCP".
DHCPDetected == answer = "no" => targets \cap auto = {}

-----------------------------------------------------------------------------
(* The inductive invariant                                                 *)

ProbeInv ==
  /\ \A m, n \in asked : m = n
  /\ asked = {} <=> at = "loop"
  /\ asked # {} => pc = "working" /\ asked \subseteq targets
  /\ pc \in Busy => targets # {}
  /\ \A n \in asked : verdict[n] = "none" <=> at \in {"wait", "exec"}
  /\ \A n \in Nodes : verdict[n] # "none" /\ pc # "crashed" => n \in targets
  /\ \A n \in Nodes : verdict[n] = "auto" => n \in auto
  /\ answer \in {"yes", "no"} => pc \in {"deleting", "draining", "closed"}
  /\ pc = "creating" => \A n \in Nodes : pod[n] = "none"

IInv == TypeOK /\ ClusterInv /\ ProbeInv /\ OnePodAtATime /\ AnswerJustified

=============================================================================
