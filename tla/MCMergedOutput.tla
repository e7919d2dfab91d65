-------------------------- MODULE MCMergedOutput ----------------------------
(* Every pair of matrices of at most two entries over four keys: four make *)
(* up a list in which a key comes twice in one matrix and again in the     *)
(* other.  To the ranges of the node ports, which are always there, come   *)
(* up to two more, inverted ones, touching ones and one of a third         *)
(* protocol among them.                                                    *)
EXTENDS MergedOutput

CONSTANT MaxLen

ASSUME MaxLenAssumption == MaxLen \in Nat

SmallLists == UNION {[1..n -> Entry] : n \in 0..MaxLen}

\* The keys in the order of (NodeGroup, Protocol, Port).
MCGroup    == <<NoGroup, "master", "master", "worker">>
MCProtocol == <<"TCP", "SCTP", "TCP", "UDP">>
MCPort     == <<1, 1, 1, 2>>

\* The classes in the order of (Direction, Protocol).
MCRangeProtocol == <<"SCTP", "TCP", "UDP">>

DR(c, lo, hi, opt) == [class |-> c, minPort |-> lo, maxPort |-> hi, optional |-> opt]

NodePorts == <<DR(2, 6, 6, FALSE), DR(3, 6, 6, FALSE)>>

Others == {DR(1, 2, 1, TRUE), DR(2, 1, 2, TRUE), DR(2, 3, 1, TRUE), DR(2, 3, 4, FALSE),
           DR(2, 4, 3, TRUE), DR(3, 7, 5, TRUE)}

MCInputs == {NodePorts \o s : s \in {<<>>} \cup {<<r>> : r \in Others}
                                  \cup {<<DR(2, 3, 1, TRUE), r>> : r \in Others}
                                  \cup {<<DR(2, 4, 3, TRUE), DR(2, 3, 4, FALSE)>>}}

PortSpan == 0..7

=============================================================================
