----------------------------- MODULE MatrixDiff -----------------------------
(***************************************************************************)
(* matrixdiff.Generate (pkg/matrix-diff/matrix-diff.go) and what is read   *)
(* off its result: every entry of the matrix of the endpoint slices        *)
(* (primary) and of the listening sockets (secondary) gets a status, kept  *)
(* in a map under the whole text of the entry; the combined list then      *)
(* loses its repeated keys, and what is left is printed by status.         *)
(***************************************************************************)
EXTENDS ComMatrix

CONSTANT Matrices   \* the matrices there may be

\* Both matrices of a run have been through SortAndRemoveDuplicates.
ASSUME MatricesAssumption == \A m \in Matrices : m \in Seq(Entry) /\ Ascending(m)

VARIABLES
  primary,
  secondary,
  ports,   \* the combined list so far
  kept,    \* what SortAndRemoveDuplicates leaves of it
  status,  \* epsStatus: a function on the entries met so far
  next,    \* index of the next entry of the loop
  pc

vars == <<primary, secondary, ports, kept, status, next, pc>>

Status == {"both", "uniquePrimary", "uniqueSecondary"}

TypeOK ==
  /\ primary \in Matrices
  /\ secondary \in Matrices
  /\ ports \in Seq(Entry)
  /\ kept \in SUBSET Entry
  /\ status \in UNION {[E -> Status] : E \in SUBSET Entry}
  /\ next \in Nat
  /\ pc \in {"primary", "secondary", "dedup", "done"}

Init ==
  /\ primary \in Matrices
  /\ secondary \in Matrices
  /\ ports = <<>>
  /\ kept = {}
  /\ status = [e \in {} |-> "both"]
  /\ next = 1
  /\ pc = "primary"

SetStatus(e, st) ==
  status' = [x \in DOMAIN status \cup {e} |-> IF x = e THEN st ELSE status[x]]

\* Variant: an entry is shared only if it is literally in both.
VisitLiterally(list, others, unique, then) ==
  /\ IF next <= Len(list)
     THEN /\ ports' = Append(ports, list[next])
          /\ SetStatus(list[next],
                       IF \E i \in 1..Len(others) : others[i] = list[next] THEN "both" ELSE unique)
          /\ next' = next + 1
          /\ UNCHANGED pc
     ELSE next' = 1 /\ pc' = then /\ UNCHANGED <<ports, status>>
  /\ UNCHANGED <<primary, secondary, kept>>

\* One round of one of the two loops, over list, or its end.
Visit(list, others, unique, then) ==
  /\ IF next <= Len(list)
     THEN /\ ports' = Append(ports, list[next])
          /\ SetStatus(list[next], IF Contains(others, list[next]) THEN "both" ELSE unique)
          /\ next' = next + 1
          /\ UNCHANGED pc
     ELSE next' = 1 /\ pc' = then /\ UNCHANGED <<ports, status>>
  /\ UNCHANGED <<primary, secondary, kept>>

VisitPrimary ==
  pc = "primary" /\ Visit(primary, secondary, "uniquePrimary", "secondary")

VisitSecondary ==
  pc = "secondary" /\ Visit(secondary, primary, "uniqueSecondary", "dedup")

\* matrix.SortAndRemoveDuplicates, whose order is left out here.
Deduplicate ==
  /\ pc = "dedup"
  /\ kept' = Firsts(ports)
  /\ pc' = "done"
  /\ UNCHANGED <<primary, secondary, ports, status, next>>

Next == VisitPrimary \/ VisitSecondary \/ Deduplicate

Spec == Init /\ [][Next]_vars

\* GetUniquePrimary, GetUniqueSecondary, GetSharedEntries, and the lines
\* String prefixes with "+", "-" and nothing.  An entry that is not in the
\* map has the zero value of its type, which is both.
StatusOf(e) == IF e \in DOMAIN status THEN status[e] ELSE "both"

GetUniquePrimary   == {e \in kept : StatusOf(e) = "uniquePrimary"}
GetUniqueSecondary == {e \in kept : StatusOf(e) = "uniqueSecondary"}
GetSharedEntries   == {e \in kept : StatusOf(e) = "both"}

-----------------------------------------------------------------------------
(* Properties                                                              *)

KeysIn(S) == {e.key : e \in S}

\* "uniquePrimary = cd's present in primary mat but not in secondary mat",
\* "uniqueSecondary" and "both" likewise: the three parts of the diff have
\* the keys of the difference, of the other difference and of the common part,
\* also for flows the two matrices describe in different words.
DiffPartitions ==
  pc = "done" =>
    /\ KeysIn(GetUniquePrimary) = KeysOf(primary) \ KeysOf(secondary)
    /\ KeysIn(GetUniqueSecondary) = KeysOf(secondary) \ KeysOf(primary)
    /\ KeysIn(GetSharedEntries) = KeysOf(primary) \cap KeysOf(secondary)

\* The diff can be read backwards: its unprefixed and "+" lines are the
\* primary matrix, word for word.
PrimaryRecoverable ==
  pc = "done" =>
    GetSharedEntries \cup GetUniquePrimary = {primary[i] : i \in 1..Len(primary)}

-----------------------------------------------------------------------------
(* The inductive invariant                                                 *)

ExpectedStatus(e) ==
  IF ~Contains(secondary, e) THEN "uniquePrimary"
  ELSE IF ~Contains(primary, e) THEN "uniqueSecondary" ELSE "both"

ProgressInv ==
  /\ pc = "primary" =>
       next \in 1..Len(primary) + 1 /\ ports = SubSeq(primary, 1, next - 1)
  /\ pc = "secondary" =>
       next \in 1..Len(secondary) + 1 /\ ports = primary \o SubSeq(secondary, 1, next - 1)
  /\ pc \in {"dedup", "done"} => ports = primary \o secondary
  /\ pc = "done" => kept = Firsts(ports)

StatusInv ==
  /\ DOMAIN status = {ports[i] : i \in 1..Len(ports)}
  /\ \A e \in DOMAIN status : status[e] = ExpectedStatus(e)

\* No key of the combined list is without its first entry.
FirstsInv == KeysIn(Firsts(ports)) = KeysOf(ports)

IInv == TypeOK /\ ProgressInv /\ StatusInv /\ FirstsInv

=============================================================================
