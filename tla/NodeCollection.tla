--------------------------- MODULE NodeCollection ---------------------------
(***************************************************************************)
(* What the collection of listening sockets promises its caller: a report  *)
(* from every expected node, in some order and each once, or an error.     *)
(* SSCollector is shown to implement this specification.                   *)
(***************************************************************************)
EXTENDS Naturals, Sequences

CONSTANT Nodes

VARIABLES
  expected,  \* the nodes that have to report
  order,     \* those that have, in the order of their reports
  outcome    \* what the caller is told

vars == <<expected, order, outcome>>

Reported == {order[i] : i \in 1..Len(order)}

Init ==
  /\ expected = {}
  /\ order = <<>>
  /\ outcome = "none"

\* The caller starts over, for whatever nodes there are by then, if it can
\* tell which there are.
Begin ==
  /\ expected' \in SUBSET Nodes
  /\ order' = <<>>
  /\ outcome' \in {"none", "err"}

Report(n) ==
  /\ outcome = "none"
  /\ n \in expected \ Reported
  /\ order' = Append(order, n)
  /\ UNCHANGED <<expected, outcome>>

Succeed ==
  /\ outcome = "none"
  /\ Reported = expected
  /\ outcome' = "ok"
  /\ UNCHANGED <<expected, order>>

GiveUp ==
  /\ outcome = "none"
  /\ outcome' = "err"
  /\ UNCHANGED <<expected, order>>

\* The process dies and its outcome with it.
Lose ==
  /\ outcome' = "none"
  /\ UNCHANGED <<expected, order>>

Next ==
  \/ Begin
  \/ \E n \in Nodes : Report(n)
  \/ Succeed
  \/ GiveUp
  \/ Lose

Spec == Init /\ [][Next]_vars

=============================================================================
