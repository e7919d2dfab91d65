----------------------------- MODULE Selection ------------------------------
(***************************************************************************)
(* Parts of sequences by their indices.  What the loops of the code that   *)
(* keep some of the entries they go through compute: those at the indices  *)
(* of a set, in their order.                                               *)
(***************************************************************************)
EXTENDS Integers, Sequences, FiniteSets

\* f counts the numbers of I in ascending order.
Counts(f, I) ==
  /\ \A i, j \in DOMAIN f : i < j => f[i] < f[j]
  /\ \A k \in I : \E i \in DOMAIN f : f[i] = k

InOrder(I) == CHOOSE f \in [1..Cardinality(I) -> I] : Counts(f, I)

Select(s, I) == [i \in 1..Cardinality(I) |-> s[InOrder(I)[i]]]

=============================================================================
