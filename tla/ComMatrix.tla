----------------------------- MODULE ComMatrix ------------------------------
(***************************************************************************)
(* Communication matrices (pkg/types/types.go) as lists of entries, and    *)
(* what SortAndRemoveDuplicates promises of them.                          *)
(*                                                                         *)
(* The key of an entry stands for its (NodeGroup, Protocol, Port), numbered*)
(* in the order SortFunc compares them in; its info for everything else:   *)
(* direction, namespace, service, pod, container and the optional flag.    *)
(***************************************************************************)
EXTENDS Integers, Sequences

CONSTANTS
  Keys,   \* the (NodeGroup, Protocol, Port) triples
  Infos   \* what else there is to say of an entry

ASSUME KeysAssumption == Keys \subseteq Int

Entry == [key : Keys, info : Infos]

\* The two entries are the same flow, whatever else is said of it.
Equals(a, b) == a.key = b.key

KeysOf(s) == {s[i].key : i \in 1..Len(s)}

\* m.Contains(cd)
Contains(s, e) == \E i \in 1..Len(s) : Equals(s[i], e)

\* Variant: a later entry takes the place of an earlier one.
Lasts(s) == {s[i] : i \in {j \in 1..Len(s) : \A k \in j + 1..Len(s) : ~Equals(s[k], s[j])}}

\* The entries that are the first of their key.
Firsts(s) == {s[i] : i \in {j \in 1..Len(s) : \A k \in 1..j - 1 : ~Equals(s[k], s[j])}}

Ascending(s) == \A i, j \in 1..Len(s) : i < j => s[i].key < s[j].key

\* t is what is to become of s: its first entry of each key, in order.  There
\* is exactly one such list.
IsDedup(s, t) ==
  /\ {t[i] : i \in 1..Len(t)} = Firsts(s)
  /\ Ascending(t)

=============================================================================
