-------------------------- MODULE ComMatrixMerge ----------------------------
(***************************************************************************)
(* ComMatrix.Merge and ComMatrix.SortAndRemoveDuplicates                   *)
(* (pkg/types/types.go): the matrix of the listening sockets is appended   *)
(* to a copy of the matrix of the endpoint slices; a loop with a set of    *)
(* keys keeps the first entry of each; an unstable sort orders them.       *)
(* CreateEndpointMatrix and GenerateSS use the second half on one list.    *)
(***************************************************************************)
EXTENDS ComMatrix, Functions

CONSTANTS
  Lists,  \* the lists of entries a matrix may hold
  Nil     \* no matrix

ASSUME ListsAssumption == Lists \subseteq Seq(Entry)
ASSUME NilAssumption   == Nil \notin Seq(Entry)

VARIABLES
  m,      \* the receiver of Merge
  other,  \* its argument
  ports,  \* the list SortAndRemoveDuplicates works on
  seen,   \* allKeys
  res,    \* the entries kept, then the result
  next,   \* index of the next entry of the loop
  pc

vars == <<m, other, ports, seen, res, next, pc>>

TypeOK ==
  /\ m \in Seq(Entry) \cup {Nil}
  /\ other \in Seq(Entry) \cup {Nil}
  /\ ports \in Seq(Entry)
  /\ seen \in SUBSET Keys
  /\ res \in Seq(Entry)
  /\ next \in Nat
  /\ pc \in {"start", "loop", "done"}

Init ==
  /\ m \in Lists \cup {Nil}
  /\ other \in Lists \cup {Nil}
  /\ ports = <<>>
  /\ seen = {}
  /\ res = <<>>
  /\ next = 1
  /\ pc = "start"

\* With fewer than two matrices Merge returns what it has, as it is.
ReturnGiven ==
  /\ pc = "start"
  /\ Nil \in {m, other}
  /\ res' = IF m # Nil THEN m ELSE IF other # Nil THEN other ELSE <<>>
  /\ pc' = "done"
  /\ UNCHANGED <<m, other, ports, seen, next>>

Concatenate ==
  /\ pc = "start"
  /\ Nil \notin {m, other}
  /\ ports' = m \o other
  /\ pc' = "loop"
  /\ UNCHANGED <<m, other, seen, res, next>>

\* Variant: the key is not remembered.
KeepAndForget ==
  /\ pc = "loop"
  /\ next <= Len(ports)
  /\ ports[next].key \notin seen
  /\ res' = Append(res, ports[next])
  /\ next' = next + 1
  /\ UNCHANGED <<m, other, ports, seen, pc>>

KeepFirst ==
  /\ pc = "loop"
  /\ next <= Len(ports)
  /\ ports[next].key \notin seen
  /\ seen' = seen \cup {ports[next].key}
  /\ res' = Append(res, ports[next])
  /\ next' = next + 1
  /\ UNCHANGED <<m, other, ports, pc>>

DropRepeated ==
  /\ pc = "loop"
  /\ next <= Len(ports)
  /\ ports[next].key \in seen
  /\ next' = next + 1
  /\ UNCHANGED <<m, other, ports, seen, res, pc>>

\* SortFunc, which may exchange entries it finds equal, and the return.
Sort ==
  /\ pc = "loop"
  /\ next > Len(ports)
  /\ \E f \in Bijection(1..Len(res), 1..Len(res)) :
       /\ \A i, j \in 1..Len(res) : i < j => res[f[i]].key <= res[f[j]].key
       /\ res' = [i \in 1..Len(res) |-> res[f[i]]]
  /\ pc' = "done"
  /\ UNCHANGED <<m, other, ports, seen, next>>

Next == ReturnGiven \/ Concatenate \/ KeepFirst \/ DropRepeated \/ Sort

Spec == Init /\ [][Next]_vars

-----------------------------------------------------------------------------
(* Properties                                                              *)

\* SortAndRemoveDuplicates keeps the first entry of every key and nothing
\* else, in ascending order: the result does not depend on what the unstable
\* sort does, and is the same whatever lists the entries came in.
DedupKept == pc = "done" /\ Nil \notin {m, other} => IsDedup(m \o other, res)

-----------------------------------------------------------------------------
(* The inductive invariant                                                 *)

\* The entries of s before its n-th that are the first of their key.
FirstsBefore(s, n) ==
  {s[i] : i \in {j \in 1..n - 1 : \A k \in 1..j - 1 : ~Equals(s[k], s[j])}}

LoopInv ==
  /\ ports = m \o other
  /\ Nil \notin {m, other}
  /\ next \in 1..Len(ports) + 1
  /\ seen = {ports[i].key : i \in 1..next - 1}
  /\ {res[i] : i \in 1..Len(res)} = FirstsBefore(ports, next)
  /\ KeysOf(res) = seen
  /\ \A i, j \in 1..Len(res) : i < j => res[i].key # res[j].key

IInv ==
  /\ TypeOK
  /\ pc = "start" => res = <<>> /\ seen = {} /\ next = 1
  /\ pc = "loop" => LoopInv
  /\ pc = "done" /\ Nil \notin {m, other} =>
       ports = m \o other /\ IsDedup(ports, res) /\ KeysOf(res) = KeysOf(ports)

=============================================================================
