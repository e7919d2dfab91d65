--------------------------- MODULE MCSSCollector ----------------------------
(* Two nodes: as many goroutines as it takes to meet in the lock, and as   *)
(* it takes for one to fail and the other not.                             *)
EXTENDS SSCollector

CONSTANTS n1, n2

TwoNodes == {n1, n2}

=============================================================================
