---------------------------- MODULE RangeSquash -----------------------------
(***************************************************************************)
(* DynamicRangeList.Squash (pkg/types/types.go): the port ranges of a      *)
(* merged matrix are sorted and folded, from left to right, into the last  *)
(* range of the result whenever they touch it.  It runs on what the        *)
(* cluster and the user's file say, and neither parser orders the bounds   *)
(* of a range, so a range may be inverted (minPort > maxPort).             *)
(*                                                                         *)
(* A class stands for a (Direction, Protocol) pair, numbered in the order  *)
(* the two are compared in; descriptions are left out.                     *)
(***************************************************************************)
EXTENDS Integers, Sequences, Functions

CONSTANTS
  Classes,  \* the (Direction, Protocol) pairs
  Inputs,   \* the lists Squash may be given
  Ports     \* the port numbers the properties speak of

DynamicRange == [class : Classes, minPort : Int, maxPort : Int, optional : BOOLEAN]

ASSUME ClassesAssumption == Classes \subseteq Int
ASSUME InputsAssumption  == Inputs \subseteq Seq(DynamicRange)
ASSUME PortsAssumption   == Ports \subseteq Int

VARIABLES
  input,      \* the list as Squash finds it
  sorted,     \* the list after SortFunc
  merged,     \* the result so far
  nextRange,  \* index in sorted of the next range of the loop
  squashPc

squashVars == <<input, sorted, merged, nextRange, squashPc>>

SquashTypeOK ==
  /\ input \in Seq(DynamicRange)
  /\ sorted \in Seq(DynamicRange)
  /\ merged \in Seq(DynamicRange)
  /\ nextRange \in Nat
  /\ squashPc \in {"start", "loop", "done"}

SquashInit ==
  /\ input \in Inputs
  /\ sorted = input
  /\ merged = input
  /\ nextRange = 2
  /\ squashPc = "start"

\* Fewer than two ranges are returned as they are.
ReturnEarly ==
  /\ squashPc = "start"
  /\ Len(input) < 2
  /\ squashPc' = "done"
  /\ UNCHANGED <<input, sorted, merged, nextRange>>

\* Variant: the bounds are not looked at.
BeforeByClass(a, b) == a.class <= b.class

\* The comparison of SortFunc: not greater.
Before(a, b) ==
  \/ a.class < b.class
  \/ a.class = b.class /\ a.minPort <= b.minPort

IsSorted(s) == \A i, j \in 1..Len(s) : i < j => Before(s[i], s[j])

\* SortFunc is not stable: equal ranges may end up in any order.
SortRanges ==
  /\ squashPc = "start"
  /\ Len(input) >= 2
  /\ \E f \in Bijection(1..Len(input), 1..Len(input)) :
       /\ IsSorted([i \in 1..Len(input) |-> input[f[i]]])
       /\ sorted' = [i \in 1..Len(input) |-> input[f[i]]]
  /\ merged' = <<sorted'[1]>>
  /\ nextRange' = 2
  /\ squashPc' = "loop"
  /\ UNCHANGED input

\* Variant: ranges that only touch are left apart.
CanMergeOverlapping(dr, nx) ==
  /\ dr.class = nx.class
  /\ nx.minPort >= dr.minPort
  /\ nx.minPort <= dr.maxPort

CanMerge(dr, nx) ==
  /\ dr.class = nx.class
  /\ nx.minPort >= dr.minPort
  /\ nx.minPort <= dr.maxPort + 1

\* Variant: the later range decides where the merged one ends.
MergeToNext(dr, nx) ==
  [dr EXCEPT !.maxPort = nx.maxPort, !.optional = @ /\ nx.optional]

\* Variant: one optional range makes the whole optional.
MergeOptional(dr, nx) ==
  [dr EXCEPT !.maxPort = IF nx.maxPort > @ THEN nx.maxPort ELSE @,
             !.optional = @ \/ nx.optional]

\* The merged range: mandatory as soon as one of the two is.
Merge(dr, nx) ==
  [dr EXCEPT !.maxPort = IF nx.maxPort > @ THEN nx.maxPort ELSE @,
             !.optional = @ /\ nx.optional]

MergeIntoLast ==
  /\ squashPc = "loop"
  /\ nextRange <= Len(sorted)
  /\ CanMerge(merged[Len(merged)], sorted[nextRange])
  /\ merged' = [merged EXCEPT ![Len(merged)] = Merge(@, sorted[nextRange])]
  /\ nextRange' = nextRange + 1
  /\ UNCHANGED <<input, sorted, squashPc>>

AppendNext ==
  /\ squashPc = "loop"
  /\ nextRange <= Len(sorted)
  /\ ~CanMerge(merged[Len(merged)], sorted[nextRange])
  /\ merged' = Append(merged, sorted[nextRange])
  /\ nextRange' = nextRange + 1
  /\ UNCHANGED <<input, sorted, squashPc>>

ReturnSquashed ==
  /\ squashPc = "loop"
  /\ nextRange > Len(sorted)
  /\ squashPc' = "done"
  /\ UNCHANGED <<input, sorted, merged, nextRange>>

SquashNext == ReturnEarly \/ SortRanges \/ MergeIntoLast \/ AppendNext \/ ReturnSquashed

SquashSpec == SquashInit /\ [][SquashNext]_squashVars /\ WF_squashVars(SquashNext)

-----------------------------------------------------------------------------
(* Properties                                                              *)

Covers(r, c, p) == r.class = c /\ r.minPort <= p /\ p <= r.maxPort

Covered(s, c, p) == \E i \in 1..Len(s) : Covers(s[i], c, p)

CoveredMandatory(s, c, p) ==
  \E i \in 1..Len(s) : Covers(s[i], c, p) /\ ~s[i].optional

\* Squash opens no port and closes none: the ranges it returns cover the
\* ports the given ranges cover, in each class, inverted ranges included.
CoverageKept ==
  squashPc = "done" =>
    \A c \in Classes, p \in Ports : Covered(merged, c, p) <=> Covered(input, c, p)

\* "If either element into the Merge is mandatory, the entire result of the
\* Merge will be marked as mandatory": a port some mandatory range covers is
\* covered by a mandatory range afterwards.
MandatoryKept ==
  squashPc = "done" =>
    \A c \in Classes, p \in Ports :
      CoveredMandatory(input, c, p) => CoveredMandatory(merged, c, p)

\* Two ranges of one class that Squash returns neither overlap nor touch.
\* (Of fewer than two ranges there is nothing to say.)
Separated ==
  squashPc = "done" =>
    \A i, j \in 1..Len(merged) :
      i < j /\ merged[i].class = merged[j].class
        => merged[i].maxPort + 1 < merged[j].minPort

WellFormed(s) == \A i \in 1..Len(s) : s[i].minPort <= s[i].maxPort

\* A maximal run of the ports s covers, optional if nothing mandatory is in it.
IsRun(r, s) ==
  /\ r.minPort <= r.maxPort
  /\ \A p \in r.minPort..r.maxPort : Covered(s, r.class, p)
  /\ ~Covered(s, r.class, r.minPort - 1)
  /\ ~Covered(s, r.class, r.maxPort + 1)
  /\ r.optional <=>
       \A i \in 1..Len(s) :
         s[i].class = r.class /\ s[i].minPort \in r.minPort..r.maxPort => s[i].optional

\* The ranges between ports the properties speak of.
PortRange == [class : Classes, minPort : Ports, maxPort : Ports, optional : BOOLEAN]

\* For ranges whose bounds are in order Squash computes the maximal runs, in
\* order: its result does not depend on what the unstable sort does with
\* equal ranges, nor on the order of the list it was given.
SquashIsCanonical ==
  squashPc = "done" /\ WellFormed(input) =>
    /\ \A i \in 1..Len(merged) : IsRun(merged[i], input)
    /\ \A r \in PortRange : IsRun(r, input) => \E i \in 1..Len(merged) : merged[i] = r
    /\ \A i, j \in 1..Len(merged) : i < j => merged[i] # merged[j] /\ Before(merged[i], merged[j])

-----------------------------------------------------------------------------
(* The inductive invariant                                                 *)

SameCoverage(s, t) ==
  \A c \in Classes, p \in Ports :
    /\ Covered(s, c, p) <=> Covered(t, c, p)
    /\ CoveredMandatory(t, c, p) => CoveredMandatory(s, c, p)

Apart(s) ==
  \A i, j \in 1..Len(s) :
    i < j /\ s[i].class = s[j].class => s[i].maxPort + 1 < s[j].minPort

\* The result covers what was folded so far, is made of ranges that lie
\* apart, and its last range comes before everything that is to follow.
FoldInv ==
  /\ IsSorted(sorted)
  /\ SameCoverage(sorted, input)
  /\ nextRange \in 2..Len(sorted) + 1
  /\ Len(merged) >= 1
  /\ \A c \in Classes, p \in Ports :
       /\ Covered(merged, c, p) <=> \E i \in 1..nextRange - 1 : Covers(sorted[i], c, p)
       /\ (\E i \in 1..nextRange - 1 : Covers(sorted[i], c, p) /\ ~sorted[i].optional)
            => CoveredMandatory(merged, c, p)
  /\ \A i \in 1..Len(merged) : merged[i].class <= merged[Len(merged)].class
  /\ \A i \in nextRange..Len(sorted) : Before(merged[Len(merged)], sorted[i])
  /\ Apart(merged)

SquashInv ==
  /\ SquashTypeOK
  /\ squashPc = "start" => merged = input
  /\ squashPc = "loop" => FoldInv
  /\ squashPc = "done" => SameCoverage(merged, input) /\ Apart(merged)

\* r lies within t.  (An inverted range may: its lower bound and its upper.)
Inside(r, t) == r.class = t.class /\ t.minPort <= r.minPort /\ r.maxPort <= t.maxPort

\* The ranges of t are made of those of S, none is left out, and one is
\* mandatory only because of a mandatory part.
FoldsInto(S, t) ==
  /\ \A i \in 1..Len(t) :
       /\ t[i].minPort <= t[i].maxPort
       /\ \A p \in t[i].minPort..t[i].maxPort : \E r \in S : Covers(r, t[i].class, p)
       /\ t[i].optional \/ \E r \in S : Inside(r, t[i]) /\ ~r.optional
  /\ \A r \in S : \E i \in 1..Len(t) : Inside(r, t[i]) /\ (t[i].optional => r.optional)

\* With SquashInv: what SquashIsCanonical needs of a list without inverted ranges.
RunsInv ==
  WellFormed(input) =>
    /\ squashPc = "loop" =>
         /\ Range(sorted) = Range(input)
         /\ FoldsInto({sorted[k] : k \in 1..nextRange - 1}, merged)
         /\ IsSorted(merged)
    /\ squashPc = "done" => FoldsInto(Range(input), merged) /\ IsSorted(merged)

\* Each range of t begins with one of S and ends no earlier; each range of S,
\* inverted or not, went into one that begins with it or reaches up to it.
Places(S, t) ==
  /\ \A i \in 1..Len(t) : \E r \in S :
       r.class = t[i].class /\ r.minPort = t[i].minPort /\ r.maxPort <= t[i].maxPort
  /\ \A r \in S : \E i \in 1..Len(t) :
       Inside(r, t[i]) /\ (t[i].minPort = r.minPort \/ r.minPort <= t[i].maxPort + 1)

\* With SquashInv: what becomes of inverted ranges.
PlacesInv ==
  /\ squashPc = "loop" =>
       /\ Range(sorted) = Range(input)
       /\ Places({sorted[k] : k \in 1..nextRange - 1}, merged)
       /\ IsSorted(merged)
  /\ squashPc = "done" => Places(Range(input), merged) /\ IsSorted(merged)

=============================================================================
