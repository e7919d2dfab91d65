--------------------------- MODULE MCRangeSquash ----------------------------
(* Every list of at most MaxLen ranges within 1..MaxPort, inverted ones    *)
(* included.                                                               *)
EXTENDS RangeSquash

CONSTANTS MaxPort, MaxLen

ASSUME BoundsAssumption == MaxPort \in Nat /\ MaxLen \in Nat

\* The ports of the ranges and one to each side.
PortSpan == 0..MaxPort + 1

SmallRange ==
  [class : Classes, minPort : 1..MaxPort, maxPort : 1..MaxPort, optional : BOOLEAN]

SmallInputs == UNION {[1..n -> SmallRange] : n \in 0..MaxLen}

=============================================================================
