---------------------------- MODULE MCDHCPProbe -----------------------------
(* Two nodes: one that ends the loop, before or after another.             *)
EXTENDS DHCPProbe

CONSTANTS n1, n2

TwoNodes == {n1, n2}

=============================================================================
