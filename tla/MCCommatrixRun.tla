-------------------------- MODULE MCCommatrixRun ----------------------------
(* One node, two groups, two runs with any flags of two formats.         *)
EXTENDS CommatrixRun

CONSTANT n1

OneNode == {n1}

=============================================================================
