--------------------------- MODULE MCMatrixDiff -----------------------------
(* Every pair of matrices as SortAndRemoveDuplicates leaves them: sorted   *)
(* lists without a repeated key.                                           *)
EXTENDS MatrixDiff, FiniteSets

Sorted == {s \in UNION {[1..n -> Entry] : n \in 0..Cardinality(Keys)} : Ascending(s)}

=============================================================================
