------------------------- MODULE RangeSquashProofs --------------------------
(***************************************************************************)
(* Squash is correct for lists of any length, ports of any size and ranges *)
(* of any shape: the loop invariant of RangeSquash and what follows.       *)
(***************************************************************************)
EXTENDS RangeSquash, TLAPS

\* What the fields of a range are.
LEMMA RangeFields ==
  ASSUME NEW x \in DynamicRange
  PROVE  /\ x.class \in Int /\ x.minPort \in Int /\ x.maxPort \in Int
         /\ x.optional \in BOOLEAN
<1>1. x.class \in Classes /\ x.minPort \in Int /\ x.maxPort \in Int /\ x.optional \in BOOLEAN
  BY DEF DynamicRange
<1> QED
  BY <1>1, ClassesAssumption

\* A merged range is a range, and begins where its first part does.
LEMMA MergeShape ==
  ASSUME NEW dr \in DynamicRange, NEW nx \in DynamicRange
  PROVE  /\ Merge(dr, nx) \in DynamicRange
         /\ Merge(dr, nx).class = dr.class
         /\ Merge(dr, nx).minPort = dr.minPort
         /\ Merge(dr, nx).maxPort = IF nx.maxPort > dr.maxPort THEN nx.maxPort ELSE dr.maxPort
         /\ Merge(dr, nx).optional = (dr.optional /\ nx.optional)
  BY DEF DynamicRange, Merge

\* It is mandatory as soon as one of its parts is.
LEMMA MergeMandatory ==
  ASSUME NEW dr \in DynamicRange, NEW nx \in DynamicRange
  PROVE  Merge(dr, nx).optional <=> (dr.optional /\ nx.optional)
<1>1. Merge(dr, nx).optional = (dr.optional /\ nx.optional)
  BY MergeShape
<1> QED
  BY <1>1, Zenon

\* It covers exactly what its two parts cover, also when one is inverted.
LEMMA MergeCovers ==
  ASSUME NEW dr \in DynamicRange, NEW nx \in DynamicRange, CanMerge(dr, nx),
         NEW c \in Classes, NEW p \in Ports
  PROVE  Covers(Merge(dr, nx), c, p) <=> Covers(dr, c, p) \/ Covers(nx, c, p)
<1>1. /\ dr.minPort \in Int /\ dr.maxPort \in Int
      /\ nx.minPort \in Int /\ nx.maxPort \in Int /\ p \in Int
  BY PortsAssumption DEF DynamicRange
<1> QED
  BY <1>1, MergeShape DEF CanMerge, Covers

\* Rearranging a list changes nothing of what it covers.
LEMMA RearrangedCovers ==
  ASSUME NEW s \in Seq(DynamicRange),
         NEW f \in Bijection(1..Len(s), 1..Len(s))
  PROVE  LET t == [i \in 1..Len(s) |-> s[f[i]]]
         IN  /\ t \in Seq(DynamicRange)
             /\ Len(t) = Len(s)
             /\ SameCoverage(t, s)
<1> DEFINE t == [i \in 1..Len(s) |-> s[f[i]]]
<1>1. /\ f \in [1..Len(s) -> 1..Len(s)]
      /\ \A j \in 1..Len(s) : \E i \in 1..Len(s) : f[i] = j
  BY DEF Bijection, Injection, Surjection
<1>2. t \in Seq(DynamicRange) /\ Len(t) = Len(s)
  BY <1>1
<1>3. ASSUME NEW c \in Classes, NEW p \in Ports
      PROVE  /\ Covered(t, c, p) <=> Covered(s, c, p)
             /\ CoveredMandatory(s, c, p) => CoveredMandatory(t, c, p)
  <2>1. \A i \in 1..Len(s) : t[i] = s[f[i]]
    OBVIOUS
  <2> HIDE DEF t
  <2>2. ASSUME NEW i \in 1..Len(t) PROVE f[i] \in 1..Len(s) /\ t[i] = s[f[i]]
    BY <1>1, <1>2, <2>1
  <2>3. ASSUME NEW j \in 1..Len(s) PROVE \E i \in 1..Len(t) : t[i] = s[j]
    BY <1>1, <1>2, <2>1
  <2>4. Covered(t, c, p) => Covered(s, c, p)
    BY <2>2 DEF Covered
  <2>5. Covered(s, c, p) => Covered(t, c, p)
    BY <2>3 DEF Covered
  <2>6. CoveredMandatory(s, c, p) => CoveredMandatory(t, c, p)
    <3> SUFFICES ASSUME NEW j \in 1..Len(s), Covers(s[j], c, p), ~s[j].optional
                 PROVE  CoveredMandatory(t, c, p)
      BY DEF CoveredMandatory
    <3>1. PICK i \in 1..Len(t) : t[i] = s[j]
      BY <2>3
    <3> QED
      BY <3>1 DEF CoveredMandatory
  <2> QED
    BY <2>4, <2>5, <2>6
<1> QED
  BY <1>2, <1>3 DEF SameCoverage

-----------------------------------------------------------------------------

LEMMA SquashInitially == SquashInit => SquashInv
  BY InputsAssumption DEF SquashInit, SquashInv, SquashTypeOK

LEMMA ReturnEarlyStep == SquashInv /\ ReturnEarly => SquashInv'
<1> SUFFICES ASSUME SquashInv, ReturnEarly PROVE SquashInv'
  OBVIOUS
<1>1. SquashTypeOK'
  BY DEF SquashInv, SquashTypeOK, ReturnEarly
<1>2. squashPc' = "done" /\ merged' = input /\ input' = input /\ Len(input) < 2
  BY DEF SquashInv, ReturnEarly
<1>3. SameCoverage(merged, input)' /\ Apart(merged)'
  BY <1>2 DEF SameCoverage, Apart, Covered, CoveredMandatory
<1> QED
  BY <1>1, <1>2, <1>3 DEF SquashInv

LEMMA SortRangesStep == SquashInv /\ SortRanges => SquashInv'
<1> SUFFICES ASSUME SquashInv, SortRanges PROVE SquashInv'
  OBVIOUS
<1>1. input \in Seq(DynamicRange) /\ Len(input) \in Nat /\ Len(input) >= 2
  BY DEF SquashInv, SquashTypeOK, SortRanges
<1>2. PICK f \in Bijection(1..Len(input), 1..Len(input)) :
        /\ IsSorted([i \in 1..Len(input) |-> input[f[i]]])
        /\ sorted' = [i \in 1..Len(input) |-> input[f[i]]]
  BY DEF SortRanges
<1>3. /\ sorted' \in Seq(DynamicRange)
      /\ Len(sorted') = Len(input)
      /\ SameCoverage(sorted', input)
      /\ IsSorted(sorted')
  BY <1>1, <1>2, RearrangedCovers
<1>4. /\ merged' = <<sorted'[1]>> /\ nextRange' = 2 /\ squashPc' = "loop" /\ input' = input
  BY DEF SortRanges
<1>5. sorted'[1] \in DynamicRange
  BY <1>1, <1>3
<1>6. SquashTypeOK'
  BY <1>1, <1>3, <1>4, <1>5 DEF SquashTypeOK
<1>7. /\ Len(merged') = 1 /\ merged'[1] = sorted'[1]
  BY <1>4
<1>8. FoldInv'
  <2>1. IsSorted(sorted)' /\ SameCoverage(sorted, input)'
    BY <1>3, <1>4 DEF IsSorted, SameCoverage, Covered, CoveredMandatory
  <2>2. (nextRange \in 2..Len(sorted) + 1)' /\ (Len(merged) >= 1)'
    BY <1>1, <1>3, <1>4, <1>7
  <2>3. ASSUME NEW c \in Classes, NEW p \in Ports
        PROVE  /\ Covered(merged', c, p) <=> \E i \in 1..nextRange' - 1 : Covers(sorted'[i], c, p)
               /\ (\E i \in 1..nextRange' - 1 : Covers(sorted'[i], c, p) /\ ~sorted'[i].optional)
                    => CoveredMandatory(merged', c, p)
    BY <1>4, <1>7 DEF Covered, CoveredMandatory
  <2>4. \A i \in 1..Len(merged') : merged'[i].class <= merged'[Len(merged')].class
    <3>1. sorted'[1].class <= sorted'[1].class
      BY <1>5, RangeFields
    <3>2. \A i \in 1..Len(merged') : i = 1
      BY <1>7
    <3> QED
      BY <1>7, <3>1, <3>2
  <2>5. \A i \in nextRange'..Len(sorted') : Before(merged'[Len(merged')], sorted'[i])
    BY <1>1, <1>3, <1>4, <1>7 DEF IsSorted
  <2>6. Apart(merged)'
    <3>1. ASSUME NEW i \in 1..Len(merged'), NEW j \in 1..Len(merged') PROVE ~(i < j)
      BY <1>7
    <3> QED
      BY <3>1 DEF Apart
  <2> QED
    BY <2>1, <2>2, <2>3, <2>4, <2>5, <2>6 DEF FoldInv, Covered, CoveredMandatory
<1> QED
  BY <1>4, <1>6, <1>8 DEF SquashInv

\* What a step of the loop relies on.
LEMMA LoopFacts ==
  ASSUME SquashInv, squashPc = "loop", nextRange <= Len(sorted)
  PROVE  LET n == Len(merged)
         IN  /\ FoldInv
             /\ n \in Nat \ {0} /\ nextRange \in Nat /\ nextRange >= 2
             /\ merged \in Seq(DynamicRange) /\ sorted \in Seq(DynamicRange)
             /\ merged[n] \in DynamicRange /\ sorted[nextRange] \in DynamicRange
             /\ Before(merged[n], sorted[nextRange])
  BY DEF SquashInv, SquashTypeOK, FoldInv

LEMMA MergeIntoLastStep == SquashInv /\ MergeIntoLast => SquashInv'
<1> SUFFICES ASSUME SquashInv, MergeIntoLast PROVE SquashInv'
  OBVIOUS
<1> DEFINE n == Len(merged)
           last == merged[n]
           new == sorted[nextRange]
<1>1. /\ squashPc = "loop" /\ nextRange <= Len(sorted) /\ CanMerge(last, new)
      /\ merged' = [merged EXCEPT ![n] = Merge(last, new)]
      /\ nextRange' = nextRange + 1 /\ UNCHANGED <<input, sorted, squashPc>>
  BY DEF MergeIntoLast
<1>2. /\ FoldInv
      /\ n \in Nat \ {0} /\ nextRange \in Nat /\ nextRange >= 2
      /\ merged \in Seq(DynamicRange) /\ sorted \in Seq(DynamicRange)
      /\ last \in DynamicRange /\ new \in DynamicRange
      /\ Before(last, new)
  BY <1>1, LoopFacts
<1>3. /\ merged' \in Seq(DynamicRange) /\ Len(merged') = n
      /\ \A i \in 1..n : i # n => merged'[i] = merged[i]
      /\ merged'[n] = Merge(last, new)
  BY <1>1, <1>2, MergeShape
<1> HIDE DEF n, last, new
<1>4. /\ merged'[n].class = last.class
      /\ merged'[n].minPort = last.minPort
      /\ ~last.optional \/ ~new.optional => ~merged'[n].optional
      /\ \A c \in Classes, p \in Ports :
           Covers(merged'[n], c, p) <=> Covers(last, c, p) \/ Covers(new, c, p)
  <2>1. merged'[n].class = last.class /\ merged'[n].minPort = last.minPort
    BY <1>2, <1>3, MergeShape
  <2>2. ~last.optional \/ ~new.optional => ~merged'[n].optional
    <3>1. Merge(last, new).optional <=> (last.optional /\ new.optional)
      BY <1>2, MergeMandatory
    <3> QED
      BY <1>3, <3>1
  <2>3. ASSUME NEW c \in Classes, NEW p \in Ports
        PROVE  Covers(merged'[n], c, p) <=> Covers(last, c, p) \/ Covers(new, c, p)
    BY <1>1, <1>2, <1>3, MergeCovers
  <2> QED
    BY <2>1, <2>2, <2>3
<1>5. SquashTypeOK'
  BY <1>1, <1>2, <1>3 DEF SquashInv, SquashTypeOK
<1>6. IsSorted(sorted)' /\ SameCoverage(sorted, input)'
  BY <1>1, <1>2 DEF FoldInv, IsSorted, SameCoverage, Covered, CoveredMandatory
<1>7. ASSUME NEW c \in Classes, NEW p \in Ports
      PROVE  /\ Covered(merged', c, p) <=> \E i \in 1..nextRange : Covers(sorted[i], c, p)
             /\ (\E i \in 1..nextRange : Covers(sorted[i], c, p) /\ ~sorted[i].optional)
                  => CoveredMandatory(merged', c, p)
  <2>1. Covered(merged', c, p) <=> Covered(merged, c, p) \/ Covers(new, c, p)
    BY <1>2, <1>3, <1>4 DEF Covered, n, last
  <2>2. CoveredMandatory(merged, c, p) \/ (Covers(new, c, p) /\ ~new.optional)
          => CoveredMandatory(merged', c, p)
    <3>1. n \in 1..Len(merged')
      BY <1>2, <1>3
    <3>2. CASE Covers(new, c, p) /\ ~new.optional
      BY <1>4, <3>1, <3>2 DEF CoveredMandatory
    <3>3. CASE CoveredMandatory(merged, c, p)
      <4>1. PICK i \in 1..n : Covers(merged[i], c, p) /\ ~merged[i].optional
        BY <3>3 DEF CoveredMandatory, n
      <4>2. CASE i = n
        BY <1>4, <3>1, <4>1, <4>2 DEF CoveredMandatory, last
      <4>3. CASE i # n
        BY <1>3, <4>1, <4>3 DEF CoveredMandatory
      <4> QED
        BY <4>2, <4>3
    <3> QED
      BY <3>2, <3>3
  <2>3. \A i \in 1..nextRange : i \in 1..nextRange - 1 \/ i = nextRange
    BY <1>2
  <2>4. 1..nextRange - 1 \subseteq 1..nextRange /\ nextRange \in 1..nextRange
    BY <1>2
  <2>5. Covered(merged, c, p) <=> \E i \in 1..nextRange - 1 : Covers(sorted[i], c, p)
    BY <1>2 DEF FoldInv
  <2>6. (\E i \in 1..nextRange - 1 : Covers(sorted[i], c, p) /\ ~sorted[i].optional)
          => CoveredMandatory(merged, c, p)
    BY <1>2 DEF FoldInv
  <2> QED
    BY <2>1, <2>2, <2>3, <2>4, <2>5, <2>6 DEF new
<1>8. \A i \in 1..Len(merged') : merged'[i].class <= merged'[Len(merged')].class
  BY <1>2, <1>3, <1>4 DEF FoldInv, n, last
<1>9. \A i \in nextRange'..Len(sorted') : Before(merged'[Len(merged')], sorted'[i])
  <2>1. \A i \in nextRange'..Len(sorted') : i \in nextRange..Len(sorted)
    BY <1>1, <1>2
  <2> QED
    BY <1>1, <1>2, <1>3, <1>4, <2>1 DEF FoldInv, Before, n, last
<1>10. Apart(merged)'
  BY <1>2, <1>3, <1>4 DEF FoldInv, Apart, n, last
<1>11. (nextRange \in 2..Len(sorted) + 1)' /\ (Len(merged) >= 1)' /\ nextRange' - 1 = nextRange
  BY <1>1, <1>2, <1>3
<1>12. FoldInv'
  BY <1>1, <1>6, <1>7, <1>8, <1>9, <1>10, <1>11 DEF FoldInv, Covered, CoveredMandatory
<1> QED
  BY <1>1, <1>5, <1>12 DEF SquashInv

LEMMA AppendStep == SquashInv /\ AppendNext => SquashInv'
<1> SUFFICES ASSUME SquashInv, AppendNext PROVE SquashInv'
  OBVIOUS
<1> DEFINE n == Len(merged)
           last == merged[n]
           new == sorted[nextRange]
<1>1. /\ squashPc = "loop" /\ nextRange <= Len(sorted) /\ ~CanMerge(last, new)
      /\ merged' = Append(merged, new)
      /\ nextRange' = nextRange + 1 /\ UNCHANGED <<input, sorted, squashPc>>
  BY DEF AppendNext
<1>2. /\ FoldInv
      /\ n \in Nat \ {0} /\ nextRange \in Nat /\ nextRange >= 2
      /\ merged \in Seq(DynamicRange) /\ sorted \in Seq(DynamicRange)
      /\ last \in DynamicRange /\ new \in DynamicRange
      /\ Before(last, new)
  BY <1>1, LoopFacts
<1>3. /\ merged' \in Seq(DynamicRange) /\ Len(merged') = n + 1
      /\ \A i \in 1..n : merged'[i] = merged[i]
      /\ merged'[n + 1] = new
  BY <1>1, <1>2
<1> HIDE DEF n, last, new
<1>4. SquashTypeOK'
  BY <1>1, <1>2, <1>3 DEF SquashInv, SquashTypeOK
<1>5. IsSorted(sorted)' /\ SameCoverage(sorted, input)'
  BY <1>1, <1>2 DEF FoldInv, IsSorted, SameCoverage, Covered, CoveredMandatory
<1>6. ASSUME NEW c \in Classes, NEW p \in Ports
      PROVE  /\ Covered(merged', c, p) <=> \E i \in 1..nextRange : Covers(sorted[i], c, p)
             /\ (\E i \in 1..nextRange : Covers(sorted[i], c, p) /\ ~sorted[i].optional)
                  => CoveredMandatory(merged', c, p)
  <2>1. 1..Len(merged') = 1..n \cup {n + 1} /\ 1..nextRange = (1..nextRange - 1) \cup {nextRange}
    BY <1>2, <1>3
  <2>2. Covered(merged', c, p) <=> Covered(merged, c, p) \/ Covers(new, c, p)
    BY <1>2, <1>3, <2>1 DEF Covered, n
  <2>3. CoveredMandatory(merged, c, p) \/ (Covers(new, c, p) /\ ~new.optional)
          => CoveredMandatory(merged', c, p)
    BY <1>2, <1>3, <2>1 DEF CoveredMandatory, n
  <2>4. Covered(merged, c, p) <=> \E i \in 1..nextRange - 1 : Covers(sorted[i], c, p)
    BY <1>2 DEF FoldInv
  <2>5. (\E i \in 1..nextRange - 1 : Covers(sorted[i], c, p) /\ ~sorted[i].optional)
          => CoveredMandatory(merged, c, p)
    BY <1>2 DEF FoldInv
  <2> QED
    BY <2>1, <2>2, <2>3, <2>4, <2>5 DEF new
<1>7. last.class <= new.class
  BY <1>2, RangeFields DEF Before
<1>8. \A i \in 1..n : merged[i].class <= last.class /\ merged[i] \in DynamicRange
  BY <1>2 DEF FoldInv, n, last
<1>9. \A i \in 1..Len(merged') : merged'[i].class <= merged'[Len(merged')].class
  <2>1. /\ last.class \in Int /\ new.class \in Int
        /\ \A i \in 1..n : merged[i].class \in Int /\ merged[i].class <= last.class
    BY <1>2, <1>8, RangeFields
  <2>2. ASSUME NEW i \in 1..Len(merged') PROVE merged'[i].class <= new.class
    <3>1. CASE i = n + 1
      BY <1>3, <2>1, <3>1
    <3>2. CASE i # n + 1
      <4>1. i \in 1..n
        BY <1>2, <1>3, <3>2
      <4> QED
        BY <1>3, <1>7, <2>1, <4>1
    <3> QED
      BY <3>1, <3>2
  <2> QED
    BY <1>3, <2>2
<1>10. \A i \in nextRange'..Len(sorted') : Before(merged'[Len(merged')], sorted'[i])
  BY <1>1, <1>2, <1>3 DEF FoldInv, IsSorted, new
<1>11. Apart(merged)'
  <2> SUFFICES ASSUME NEW i \in 1..n, merged[i].class = new.class
               PROVE  merged[i].maxPort + 1 < new.minPort
    BY <1>2, <1>3 DEF FoldInv, Apart, n
  <2>1. merged[i].class = last.class
    <3>1. merged[i].class <= last.class /\ merged[i].class \in Int /\ last.class \in Int
      BY <1>2, <1>8, RangeFields
    <3> QED
      BY <1>7, <3>1
  <2>2. last.maxPort + 1 < new.minPort /\ last.minPort <= new.minPort
    <3>1. /\ last.class \in Int /\ last.minPort \in Int /\ last.maxPort \in Int
          /\ new.minPort \in Int /\ last.class = new.class
      BY <1>2, <2>1, RangeFields
    <3> QED
      BY <1>1, <1>2, <3>1 DEF CanMerge, Before
  <2>3. CASE i = n
    BY <2>2, <2>3 DEF last
  <2>4. CASE i # n
    <3>1. merged[i].maxPort + 1 < last.minPort
      BY <1>2, <2>1, <2>4 DEF FoldInv, Apart, n, last
    <3> QED
      <4>1. merged[i].maxPort \in Int /\ last.minPort \in Int /\ new.minPort \in Int
        BY <1>2, <1>8, RangeFields
      <4> QED
        BY <2>2, <3>1, <4>1
  <2> QED
    BY <2>3, <2>4
<1>12. (nextRange \in 2..Len(sorted) + 1)' /\ (Len(merged) >= 1)' /\ nextRange' - 1 = nextRange
  BY <1>1, <1>2, <1>3
<1>13. FoldInv'
  BY <1>1, <1>5, <1>6, <1>9, <1>10, <1>11, <1>12 DEF FoldInv, Covered, CoveredMandatory
<1> QED
  BY <1>1, <1>4, <1>13 DEF SquashInv

LEMMA ReturnSquashedStep == SquashInv /\ ReturnSquashed => SquashInv'
<1> SUFFICES ASSUME SquashInv, ReturnSquashed PROVE SquashInv'
  OBVIOUS
<1>1. /\ squashPc = "loop" /\ nextRange > Len(sorted) /\ squashPc' = "done"
      /\ UNCHANGED <<input, sorted, merged, nextRange>>
  BY DEF ReturnSquashed
<1>2. FoldInv /\ nextRange - 1 = Len(sorted)
  BY <1>1 DEF SquashInv, SquashTypeOK, FoldInv
<1>3. SameCoverage(merged, input)
  BY <1>2 DEF FoldInv, SameCoverage, Covered, CoveredMandatory
<1>4. SquashTypeOK'
  BY <1>1 DEF SquashInv, SquashTypeOK
<1>5. SameCoverage(merged, input)' /\ Apart(merged)'
  BY <1>1, <1>2, <1>3 DEF FoldInv, SameCoverage, Apart, Covered, CoveredMandatory
<1> QED
  BY <1>1, <1>4, <1>5 DEF SquashInv

LEMMA SquashStutterStep == SquashInv /\ UNCHANGED squashVars => SquashInv'
<1> SUFFICES ASSUME SquashInv, UNCHANGED squashVars PROVE SquashInv'
  OBVIOUS
<1> QED
  BY DEF SquashInv, squashVars, SquashTypeOK, FoldInv, SameCoverage, Apart, IsSorted, Covered, CoveredMandatory

\* The loop invariant of Squash holds throughout.
THEOREM SquashInvariance == SquashSpec => []SquashInv
<1>1. SquashInv /\ [SquashNext]_squashVars => SquashInv'
  BY ReturnEarlyStep, SortRangesStep, MergeIntoLastStep, AppendStep, ReturnSquashedStep, SquashStutterStep DEF SquashNext
<1> QED
  BY <1>1, SquashInitially, PTL DEF SquashSpec

\* Squash opens and closes no port of any class.
THEOREM CoverageIsKept == SquashSpec => []CoverageKept
<1>1. SquashInv => CoverageKept
  BY DEF SquashInv, CoverageKept, SameCoverage
<1> QED
  BY <1>1, SquashInvariance, PTL

\* A mandatory port stays mandatory through Squash.
THEOREM MandatoryIsKept == SquashSpec => []MandatoryKept
<1>1. SquashInv => MandatoryKept
  BY DEF SquashInv, MandatoryKept, SameCoverage
<1> QED
  BY <1>1, SquashInvariance, PTL

\* The ranges Squash returns neither overlap nor touch within a class.
THEOREM ResultIsSeparated == SquashSpec => []Separated
<1>1. SquashInv => Separated
  BY DEF SquashInv, Separated, Apart
<1> QED
  BY <1>1, SquashInvariance, PTL

-----------------------------------------------------------------------------
(* What becomes of each range, inverted or not.                            *)

\* The elements of a sequence.
LEMMA RangeOfSeq ==
  ASSUME NEW S, NEW s \in Seq(S)
  PROVE  Range(s) = {s[i] : i \in 1..Len(s)}
  BY DEF Range

\* Inside is transitive, and a range is inside of itself.
LEMMA InsideFacts ==
  ASSUME NEW a \in DynamicRange, NEW b \in DynamicRange, NEW c \in DynamicRange
  PROVE  /\ Inside(a, a)
         /\ Inside(a, b) /\ Inside(b, c) => Inside(a, c)
  BY RangeFields DEF Inside

\* Sorting loses no range and makes up none.
LEMMA SortedRanges ==
  ASSUME SquashInv, SortRanges
  PROVE  /\ input \in Seq(DynamicRange) /\ Len(input) \in Nat /\ Len(input) >= 2
         /\ sorted' \in Seq(DynamicRange) /\ Len(sorted') = Len(input)
         /\ Range(sorted') = Range(input)
<1>1. input \in Seq(DynamicRange) /\ Len(input) \in Nat /\ Len(input) >= 2
  BY DEF SquashInv, SquashTypeOK, SortRanges
<1>2. PICK f \in Bijection(1..Len(input), 1..Len(input)) :
        sorted' = [i \in 1..Len(input) |-> input[f[i]]]
  BY DEF SortRanges
<1>3. /\ f \in [1..Len(input) -> 1..Len(input)]
      /\ \A j \in 1..Len(input) : \E i \in 1..Len(input) : f[i] = j
  BY DEF Bijection, Injection, Surjection
<1>4. sorted' \in Seq(DynamicRange) /\ Len(sorted') = Len(input)
  BY <1>1, <1>2, RearrangedCovers
<1>5. \A i \in 1..Len(input) : sorted'[i] = input[f[i]]
  BY <1>2
<1>6. Range(sorted') = {sorted'[i] : i \in 1..Len(input)} /\ Range(input) = {input[i] : i \in 1..Len(input)}
  BY <1>1, <1>4, RangeOfSeq
<1>7. \A x : x \in Range(sorted') => x \in Range(input)
  BY <1>3, <1>5, <1>6
<1>8. ASSUME NEW j \in 1..Len(input) PROVE input[j] \in Range(sorted')
  <2>1. PICK i \in 1..Len(input) : input[j] = input[f[i]]
    BY <1>3
  <2> QED
    BY <1>5, <1>6, <2>1
<1> QED
  BY <1>1, <1>4, <1>6, <1>7, <1>8

\* The order of a list depends on where its ranges begin.
LEMMA SameBeginningsSorted ==
  ASSUME NEW t, NEW u, Len(u) = Len(t), IsSorted(t),
         \A i \in 1..Len(t) : u[i].class = t[i].class /\ u[i].minPort = t[i].minPort
  PROVE  IsSorted(u)
  BY DEF IsSorted, Before

LEMMA AppendSorted ==
  ASSUME NEW t \in Seq(DynamicRange), Len(t) \in Nat \ {0}, IsSorted(t),
         NEW r \in DynamicRange, Before(t[Len(t)], r)
  PROVE  IsSorted(Append(t, r))
<1> DEFINE n == Len(t)
           u == Append(t, r)
<1>1. /\ Len(u) = n + 1 /\ n \in 1..n
      /\ \A i \in 1..n : u[i] = t[i] /\ t[i] \in DynamicRange
      /\ u[n + 1] = r
  OBVIOUS
<1> HIDE DEF n, u
<1>2. n \in Nat
  BY DEF n
<1>3. ASSUME NEW i \in 1..n PROVE Before(t[i], r)
  <2>1. i = n \/ Before(t[i], t[n])
    BY <1>1, <1>2 DEF IsSorted, n
  <2>2. /\ t[i].class \in Int /\ t[i].minPort \in Int
        /\ t[n].class \in Int /\ t[n].minPort \in Int
        /\ r.class \in Int /\ r.minPort \in Int
    BY <1>1, RangeFields
  <2> QED
    BY <2>1, <2>2, SMTT(30) DEF Before, n
<1>4. ASSUME NEW i \in 1..n + 1, NEW j \in 1..n + 1, i < j
      PROVE  Before(u[i], u[j])
  <2>1. i \in 1..n
    BY <1>2, <1>4
  <2>2. CASE j = n + 1
    BY <1>1, <1>3, <2>1, <2>2
  <2>3. CASE j # n + 1
    <3>1. j \in 1..n
      BY <1>2, <2>3
    <3> QED
      BY <1>1, <1>4, <2>1, <3>1 DEF IsSorted, n
  <2> QED
    BY <2>2, <2>3
<1>5. IsSorted(u)
  BY <1>1, <1>4 DEF IsSorted
<1> QED
  BY <1>5 DEF u

\* The last range takes one in that begins in it or right behind it.
LEMMA PlacesOfMerge ==
  ASSUME NEW t \in Seq(DynamicRange), Len(t) \in Nat \ {0},
         NEW S, \A r \in S : r \in DynamicRange, Places(S, t),
         NEW nx \in DynamicRange, CanMerge(t[Len(t)], nx),
         NEW u, Len(u) = Len(t),
         \A i \in 1..Len(t) : i # Len(t) => u[i] = t[i],
         u[Len(t)] = Merge(t[Len(t)], nx)
  PROVE  Places(S \cup {nx}, u)
<1> DEFINE n == Len(t)
           last == t[n]
           m == u[n]
<1>1. last \in DynamicRange /\ n \in 1..n
  OBVIOUS
<1>2. /\ m.class = last.class /\ m.minPort = last.minPort
      /\ m.maxPort = IF nx.maxPort > last.maxPort THEN nx.maxPort ELSE last.maxPort
  BY <1>1, MergeShape
<1>3. last.class = nx.class /\ nx.minPort >= last.minPort /\ nx.minPort <= last.maxPort + 1
  BY DEF CanMerge
<1>4. /\ last.minPort \in Int /\ last.maxPort \in Int /\ nx.minPort \in Int /\ nx.maxPort \in Int
  BY <1>1, RangeFields
<1> HIDE DEF n, last, m
<1>5. m.maxPort \in Int /\ last.maxPort <= m.maxPort /\ nx.maxPort <= m.maxPort
  BY <1>2, <1>4
<1>6. Inside(nx, m) /\ nx.minPort <= m.maxPort + 1
  BY <1>2, <1>3, <1>4, <1>5 DEF Inside
<1>7. ASSUME NEW i \in 1..n
      PROVE  \E r \in S \cup {nx} :
               r.class = u[i].class /\ r.minPort = u[i].minPort /\ r.maxPort <= u[i].maxPort
  <2>1. PICK r \in S : r.class = t[i].class /\ r.minPort = t[i].minPort /\ r.maxPort <= t[i].maxPort
    BY DEF Places, n
  <2>2. CASE i # n
    BY <2>1, <2>2 DEF n
  <2>3. CASE i = n
    <3>1. r.class = m.class /\ r.minPort = m.minPort /\ r.maxPort <= last.maxPort
      BY <1>2, <2>1, <2>3 DEF last
    <3>2. r.maxPort \in Int
      BY RangeFields
    <3>3. r.maxPort <= m.maxPort
      BY <1>4, <1>5, <3>1, <3>2
    <3> QED
      BY <2>3, <3>1, <3>3 DEF m
  <2> QED
    BY <2>2, <2>3
<1>8. ASSUME NEW r \in S \cup {nx}
      PROVE  \E i \in 1..n :
               Inside(r, u[i]) /\ (u[i].minPort = r.minPort \/ r.minPort <= u[i].maxPort + 1)
  <2>1. CASE r = nx
    BY <1>1, <1>6, <2>1 DEF m
  <2>2. CASE r \in S
    <3>1. PICK i \in 1..n :
            Inside(r, t[i]) /\ (t[i].minPort = r.minPort \/ r.minPort <= t[i].maxPort + 1)
      BY <2>2 DEF Places, n
    <3>2. CASE i # n
      BY <3>1, <3>2 DEF n
    <3>3. CASE i = n
      <4>1. r.minPort \in Int /\ r.maxPort \in Int
        BY <2>2, RangeFields
      <4>2. Inside(r, last) /\ (last.minPort = r.minPort \/ r.minPort <= last.maxPort + 1)
        BY <3>1, <3>3 DEF last
      <4>3. Inside(r, m)
        BY <1>2, <1>4, <1>5, <4>1, <4>2 DEF Inside
      <4>4. m.minPort = r.minPort \/ r.minPort <= m.maxPort + 1
        BY <1>2, <1>4, <1>5, <4>1, <4>2, SMTT(30)
      <4> QED
        BY <1>1, <4>3, <4>4 DEF m
    <3> QED
      BY <3>2, <3>3
  <2> QED
    BY <2>1, <2>2
<1> QED
  BY <1>7, <1>8 DEF Places, n

LEMMA PlacesOfAppend ==
  ASSUME NEW t \in Seq(DynamicRange), Len(t) \in Nat,
         NEW S, Places(S, t), NEW nx \in DynamicRange
  PROVE  Places(S \cup {nx}, Append(t, nx))
<1> DEFINE n == Len(t)
           u == Append(t, nx)
<1>1. /\ Len(u) = n + 1 /\ u[n + 1] = nx
      /\ \A i \in 1..n : u[i] = t[i]
      /\ \A i \in 1..n + 1 : i \in 1..n \/ i = n + 1
      /\ \A i \in 1..n : i \in 1..n + 1
      /\ n + 1 \in 1..n + 1
  OBVIOUS
<1> HIDE DEF n, u
<1>2. Inside(nx, nx) /\ nx.maxPort <= nx.maxPort
  BY RangeFields, InsideFacts
<1>3. ASSUME NEW i \in 1..n + 1
      PROVE  \E r \in S \cup {nx} :
               r.class = u[i].class /\ r.minPort = u[i].minPort /\ r.maxPort <= u[i].maxPort
  <2>1. CASE i = n + 1
    BY <1>1, <1>2, <2>1
  <2>2. CASE i \in 1..n
    <3>1. \E r \in S : r.class = t[i].class /\ r.minPort = t[i].minPort /\ r.maxPort <= t[i].maxPort
      BY <2>2 DEF Places, n
    <3> QED
      BY <1>1, <2>2, <3>1
  <2> QED
    BY <1>1, <2>1, <2>2
<1>4. ASSUME NEW r \in S \cup {nx}
      PROVE  \E i \in 1..n + 1 :
               Inside(r, u[i]) /\ (u[i].minPort = r.minPort \/ r.minPort <= u[i].maxPort + 1)
  <2>1. CASE r = nx
    BY <1>1, <1>2, <2>1
  <2>2. CASE r \in S
    <3>1. PICK i \in 1..n :
            Inside(r, t[i]) /\ (t[i].minPort = r.minPort \/ r.minPort <= t[i].maxPort + 1)
      BY <2>2 DEF Places, n
    <3> QED
      BY <1>1, <3>1
  <2> QED
    BY <2>1, <2>2
<1>5. Places(S \cup {nx}, u)
  BY <1>1, <1>3, <1>4 DEF Places
<1> QED
  BY <1>5 DEF u

LEMMA ReturnEarlyPlaces == SquashInv /\ ReturnEarly => PlacesInv'
<1> SUFFICES ASSUME SquashInv, ReturnEarly
             PROVE  Places(Range(input), input) /\ IsSorted(input)
  BY DEF PlacesInv, ReturnEarly, SquashInv
<1>1. input \in Seq(DynamicRange) /\ Len(input) < 2 /\ Len(input) \in Nat
  BY DEF SquashInv, SquashTypeOK, ReturnEarly
<1>2. IsSorted(input)
  BY <1>1 DEF IsSorted
<1>3. Range(input) = {input[i] : i \in 1..Len(input)}
  BY <1>1, RangeOfSeq
<1>4. ASSUME NEW i \in 1..Len(input)
      PROVE  Inside(input[i], input[i]) /\ input[i].maxPort <= input[i].maxPort
  <2>1. input[i] \in DynamicRange
    BY <1>1
  <2> QED
    BY <2>1, RangeFields, InsideFacts
<1> QED
  BY <1>2, <1>3, <1>4 DEF Places

LEMMA SortPlaces == SquashInv /\ SortRanges => PlacesInv'
<1> SUFFICES ASSUME SquashInv, SortRanges PROVE PlacesInv'
  OBVIOUS
<1> DEFINE first == sorted'[1]
<1>1. /\ Len(input) \in Nat /\ Len(input) >= 2
      /\ sorted' \in Seq(DynamicRange) /\ Len(sorted') = Len(input)
      /\ Range(sorted') = Range(input)
  BY SortedRanges
<1>2. /\ merged' = <<first>> /\ nextRange' = 2 /\ input' = input /\ squashPc' = "loop"
  BY DEF SortRanges
<1>3. first \in DynamicRange
  BY <1>1
<1>4. Len(merged') = 1 /\ merged'[1] = first
  BY <1>2
<1>5. {sorted'[k] : k \in 1..nextRange' - 1} = {first}
  <2>1. 1..nextRange' - 1 = {1}
    BY <1>2
  <2> QED
    BY <2>1
<1> HIDE DEF first
<1>6. \A i : i \in 1..Len(merged') <=> i = 1
  BY <1>4
<1>7. Inside(first, first) /\ first.maxPort <= first.maxPort
  BY <1>3, RangeFields, InsideFacts
<1>8. Places({first}, merged')
  BY <1>4, <1>6, <1>7 DEF Places
<1>9. IsSorted(merged')
  BY <1>4 DEF IsSorted
<1> QED
  BY <1>1, <1>2, <1>5, <1>8, <1>9 DEF PlacesInv

\* The ranges folded so far, and the next one.
LEMMA FoldedAndNext ==
  ASSUME SquashInv, squashPc = "loop", nextRange <= Len(sorted)
  PROVE  /\ {sorted[k] : k \in 1..nextRange} = {sorted[k] : k \in 1..nextRange - 1} \cup {sorted[nextRange]}
         /\ \A r \in {sorted[k] : k \in 1..nextRange - 1} : r \in DynamicRange
         /\ (nextRange + 1) - 1 = nextRange
<1>1. sorted \in Seq(DynamicRange) /\ nextRange \in Nat /\ nextRange \in 1..Len(sorted)
  BY DEF SquashInv, SquashTypeOK, FoldInv
<1>2. 1..nextRange = (1..nextRange - 1) \cup {nextRange}
  BY <1>1
<1>3. \A k \in 1..nextRange - 1 : sorted[k] \in DynamicRange
  BY <1>1
<1> QED
  BY <1>1, <1>2, <1>3

LEMMA MergePlaces == SquashInv /\ PlacesInv /\ MergeIntoLast => PlacesInv'
<1> SUFFICES ASSUME SquashInv, PlacesInv, MergeIntoLast PROVE PlacesInv'
  OBVIOUS
<1> DEFINE n == Len(merged)
           S == {sorted[k] : k \in 1..nextRange - 1}
           nx == sorted[nextRange]
<1>1. /\ squashPc = "loop" /\ nextRange <= Len(sorted) /\ CanMerge(merged[n], nx)
      /\ merged' = [merged EXCEPT ![n] = Merge(merged[n], nx)]
      /\ nextRange' = nextRange + 1 /\ UNCHANGED <<input, sorted, squashPc>>
  BY DEF MergeIntoLast
<1>2. /\ n \in Nat \ {0} /\ merged \in Seq(DynamicRange)
      /\ merged[n] \in DynamicRange /\ nx \in DynamicRange
  BY <1>1, LoopFacts
<1>3. /\ {sorted[k] : k \in 1..nextRange} = S \cup {nx}
      /\ \A r \in S : r \in DynamicRange
      /\ nextRange' - 1 = nextRange
  BY <1>1, FoldedAndNext
<1>4. Range(sorted) = Range(input) /\ Places(S, merged) /\ IsSorted(merged)
  BY <1>1 DEF PlacesInv
<1>5. /\ Len(merged') = n /\ \A i \in 1..n : i # n => merged'[i] = merged[i]
      /\ merged'[n] = Merge(merged[n], nx)
  BY <1>1, <1>2
<1> HIDE DEF S, nx
<1>6. Places(S \cup {nx}, merged')
  BY <1>1, <1>2, <1>3, <1>4, <1>5, PlacesOfMerge
<1>7. \A i \in 1..n : merged'[i].class = merged[i].class /\ merged'[i].minPort = merged[i].minPort
  BY <1>2, <1>5, MergeShape
<1>8. IsSorted(merged')
  BY <1>4, <1>5, <1>7, SameBeginningsSorted
<1> QED
  BY <1>1, <1>3, <1>4, <1>6, <1>8 DEF PlacesInv

LEMMA AppendPlaces == SquashInv /\ PlacesInv /\ AppendNext => PlacesInv'
<1> SUFFICES ASSUME SquashInv, PlacesInv, AppendNext PROVE PlacesInv'
  OBVIOUS
<1> DEFINE S == {sorted[k] : k \in 1..nextRange - 1}
           nx == sorted[nextRange]
<1>1. /\ squashPc = "loop" /\ nextRange <= Len(sorted) /\ merged' = Append(merged, nx)
      /\ nextRange' = nextRange + 1 /\ UNCHANGED <<input, sorted, squashPc>>
  BY DEF AppendNext
<1>2. /\ Len(merged) \in Nat \ {0} /\ Len(merged) \in Nat /\ merged \in Seq(DynamicRange)
      /\ nx \in DynamicRange /\ Before(merged[Len(merged)], nx)
  BY <1>1, LoopFacts
<1>3. {sorted[k] : k \in 1..nextRange} = S \cup {nx} /\ nextRange' - 1 = nextRange
  BY <1>1, FoldedAndNext
<1>4. Range(sorted) = Range(input) /\ Places(S, merged) /\ IsSorted(merged)
  BY <1>1 DEF PlacesInv
<1> HIDE DEF S, nx
<1>5. Places(S \cup {nx}, merged')
  BY <1>1, <1>2, <1>4, PlacesOfAppend
<1>6. IsSorted(merged')
  BY <1>1, <1>2, <1>4, AppendSorted
<1> QED
  BY <1>1, <1>3, <1>4, <1>5, <1>6 DEF PlacesInv

LEMMA ReturnSquashedPlaces == SquashInv /\ PlacesInv /\ ReturnSquashed => PlacesInv'
<1> SUFFICES ASSUME SquashInv, PlacesInv, ReturnSquashed PROVE PlacesInv'
  OBVIOUS
<1>1. /\ squashPc = "loop" /\ squashPc' = "done"
      /\ UNCHANGED <<input, sorted, merged, nextRange>>
  BY DEF ReturnSquashed
<1>2. nextRange - 1 = Len(sorted) /\ sorted \in Seq(DynamicRange)
  BY <1>1 DEF SquashInv, SquashTypeOK, FoldInv, ReturnSquashed
<1>3. {sorted[k] : k \in 1..nextRange - 1} = Range(sorted)
  BY <1>2, RangeOfSeq
<1> QED
  BY <1>1, <1>3 DEF PlacesInv

\* One step of Squash, for the modules that take its steps within theirs.
LEMMA SquashStep == SquashInv /\ PlacesInv /\ [SquashNext]_squashVars => SquashInv' /\ PlacesInv'
<1>1. SquashInv /\ [SquashNext]_squashVars => SquashInv'
  BY ReturnEarlyStep, SortRangesStep, MergeIntoLastStep, AppendStep, ReturnSquashedStep,
     SquashStutterStep DEF SquashNext
<1>2. PlacesInv /\ UNCHANGED squashVars => PlacesInv'
  BY DEF PlacesInv, squashVars, Places, IsSorted
<1> QED
  BY <1>1, <1>2, ReturnEarlyPlaces, SortPlaces, MergePlaces, AppendPlaces, ReturnSquashedPlaces
     DEF SquashNext

\* Each range of the result begins with a given one, and each given one went
\* into a range that begins with it or reaches up to it, also an inverted one.
THEOREM PlacesInvariance == SquashSpec => []PlacesInv
<1>1. SquashInit => SquashInv /\ PlacesInv
  BY SquashInitially DEF SquashInit, PlacesInv
<1> QED
  BY <1>1, SquashStep, PTL DEF SquashSpec

-----------------------------------------------------------------------------
(* Lists without inverted ranges: Squash computes their maximal runs.      *)

\* Two intervals that share a point, neither reaching beyond the other.
LEMMA IntervalsMeet ==
  ASSUME NEW a \in Int, NEW b \in Int, NEW c \in Int, NEW d \in Int, NEW p \in Int,
         p \in a..b, p \in c..d,
         a - 1 \notin c..d, b + 1 \notin c..d, c - 1 \notin a..b, d + 1 \notin a..b
  PROVE  a = c /\ b = d
  OBVIOUS

\* Two maximal runs of a class that share a port are the same.
LEMMA RunsMeet ==
  ASSUME NEW s \in Seq(DynamicRange), NEW a \in DynamicRange, NEW b \in DynamicRange,
         IsRun(a, s), IsRun(b, s), a.class = b.class,
         NEW p \in Int, p \in a.minPort..a.maxPort, p \in b.minPort..b.maxPort
  PROVE  a = b
<1>1. /\ a.minPort \in Int /\ a.maxPort \in Int /\ b.minPort \in Int /\ b.maxPort \in Int
      /\ a.optional \in BOOLEAN /\ b.optional \in BOOLEAN
  BY RangeFields
<1>2. /\ \A q \in a.minPort..a.maxPort : Covered(s, a.class, q)
      /\ ~Covered(s, a.class, a.minPort - 1)
      /\ ~Covered(s, a.class, a.maxPort + 1)
      /\ \A q \in b.minPort..b.maxPort : Covered(s, a.class, q)
      /\ ~Covered(s, a.class, b.minPort - 1)
      /\ ~Covered(s, a.class, b.maxPort + 1)
  BY DEF IsRun
<1>3. /\ a.minPort - 1 \notin b.minPort..b.maxPort
      /\ a.maxPort + 1 \notin b.minPort..b.maxPort
      /\ b.minPort - 1 \notin a.minPort..a.maxPort
      /\ b.maxPort + 1 \notin a.minPort..a.maxPort
  BY <1>2
<1>4. a.minPort = b.minPort /\ a.maxPort = b.maxPort
  <2> DEFINE lo == a.minPort  hi == a.maxPort  lo2 == b.minPort  hi2 == b.maxPort
  <2>1. /\ lo \in Int /\ hi \in Int /\ lo2 \in Int /\ hi2 \in Int
        /\ p \in lo..hi /\ p \in lo2..hi2
        /\ lo - 1 \notin lo2..hi2 /\ hi + 1 \notin lo2..hi2
        /\ lo2 - 1 \notin lo..hi /\ hi2 + 1 \notin lo..hi
    BY <1>1, <1>3
  <2> HIDE DEF lo, hi, lo2, hi2
  <2>2. lo = lo2 /\ hi = hi2
    BY <2>1, IntervalsMeet
  <2> QED
    BY <2>2 DEF lo, hi, lo2, hi2
<1>5. a.optional <=> b.optional
  BY <1>4 DEF IsRun
<1>6. a.optional = b.optional
  BY <1>1, <1>5
<1>7. /\ a = [class |-> a.class, minPort |-> a.minPort, maxPort |-> a.maxPort, optional |-> a.optional]
      /\ b = [class |-> b.class, minPort |-> b.minPort, maxPort |-> b.maxPort, optional |-> b.optional]
  BY DEF DynamicRange
<1> QED
  BY <1>4, <1>6, <1>7

LEMMA RunsInitially == SquashInit => RunsInv
  BY DEF SquashInit, RunsInv

LEMMA ReturnEarlyRuns == SquashInv /\ RunsInv /\ ReturnEarly => RunsInv'
<1> SUFFICES ASSUME SquashInv, ReturnEarly, WellFormed(input')
             PROVE  FoldsInto(Range(input'), merged') /\ IsSorted(merged')
  BY DEF RunsInv, ReturnEarly
<1>1. /\ input \in Seq(DynamicRange) /\ merged' = input /\ input' = input
      /\ Len(input) < 2 /\ Len(input) \in Nat
  BY DEF SquashInv, SquashTypeOK, ReturnEarly
<1>2. IsSorted(input)
  BY <1>1 DEF IsSorted
<1>3. Range(input) = {input[i] : i \in 1..Len(input)}
  BY <1>1, RangeOfSeq
<1>4. ASSUME NEW i \in 1..Len(input)
      PROVE  /\ input[i].minPort <= input[i].maxPort
             /\ \A p \in input[i].minPort..input[i].maxPort :
                  \E r \in Range(input) : Covers(r, input[i].class, p)
             /\ input[i].optional \/ \E r \in Range(input) : Inside(r, input[i]) /\ ~r.optional
  <2>1. input[i] \in DynamicRange /\ input[i] \in Range(input)
    BY <1>1, <1>3
  <2>2. Inside(input[i], input[i])
    BY <2>1, InsideFacts
  <2>3. \A p \in input[i].minPort..input[i].maxPort : Covers(input[i], input[i].class, p)
    BY <2>1, RangeFields DEF Covers
  <2>4. input[i].minPort <= input[i].maxPort
    BY <1>1 DEF WellFormed
  <2> QED
    BY <2>1, <2>2, <2>3, <2>4
<1>5. ASSUME NEW r \in Range(input)
      PROVE  \E i \in 1..Len(input) : Inside(r, input[i]) /\ (input[i].optional => r.optional)
  <2>1. PICK i \in 1..Len(input) : input[i] = r
    BY <1>3
  <2>2. Inside(r, r)
    BY <1>1, <2>1, InsideFacts
  <2> QED
    BY <2>1, <2>2
<1>6. FoldsInto(Range(input), input)
  BY <1>4, <1>5 DEF FoldsInto
<1> QED
  BY <1>1, <1>2, <1>6

LEMMA SortRuns == SquashInv /\ RunsInv /\ SortRanges => RunsInv'
<1> SUFFICES ASSUME SquashInv, SortRanges, WellFormed(input')
             PROVE  /\ Range(sorted') = Range(input')
                    /\ FoldsInto({sorted'[k] : k \in 1..nextRange' - 1}, merged')
                    /\ IsSorted(merged')
  BY DEF RunsInv, SortRanges
<1>1. /\ input \in Seq(DynamicRange) /\ Len(input) \in Nat /\ Len(input) >= 2
      /\ sorted' \in Seq(DynamicRange) /\ Len(sorted') = Len(input)
      /\ Range(sorted') = Range(input)
  BY SortedRanges
<1>2. /\ Range(sorted') = {sorted'[i] : i \in 1..Len(input)}
      /\ Range(input) = {input[i] : i \in 1..Len(input)}
  BY <1>1, RangeOfSeq
<1>3. /\ merged' = <<sorted'[1]>> /\ nextRange' = 2 /\ input' = input
  BY DEF SortRanges
<1> DEFINE first == sorted'[1]
<1>4. first \in DynamicRange /\ first \in Range(input)
  <2>1. 1 \in 1..Len(input)
    BY <1>1
  <2>2. sorted'[1] \in DynamicRange
    BY <1>1, <2>1
  <2>3. sorted'[1] \in Range(sorted')
    BY <1>2, <2>1
  <2> QED
    BY <1>1, <2>2, <2>3
<1>5. first.minPort <= first.maxPort
  <2>1. PICK j \in 1..Len(input) : input[j] = first
    BY <1>2, <1>4
  <2> QED
    BY <1>3, <2>1 DEF WellFormed
<1>6. {sorted'[k] : k \in 1..nextRange' - 1} = {first}
  <2>1. 1..nextRange' - 1 = {1}
    BY <1>3
  <2> QED
    BY <2>1
<1>7. Len(merged') = 1 /\ merged'[1] = first
  BY <1>3
<1> HIDE DEF first
<1>8. IsSorted(merged')
  BY <1>7 DEF IsSorted
<1>9. FoldsInto({first}, merged')
  <2>1. \A i : i \in 1..Len(merged') <=> i = 1
    BY <1>7
  <2>2. Inside(first, first)
    BY <1>4, InsideFacts
  <2>3. \A p \in first.minPort..first.maxPort : Covers(first, first.class, p)
    BY <1>4, RangeFields DEF Covers
  <2> QED
    BY <1>5, <1>7, <2>1, <2>2, <2>3 DEF FoldsInto
<1> QED
  BY <1>1, <1>3, <1>6, <1>8, <1>9

\* Taking nx into dr: what FoldsInto and IsSorted look at.
LEMMA MergeFolds ==
  ASSUME NEW dr \in DynamicRange, NEW nx \in DynamicRange, CanMerge(dr, nx),
         dr.minPort <= dr.maxPort, nx.minPort <= nx.maxPort
  PROVE  LET m == Merge(dr, nx)
         IN  /\ m \in DynamicRange
             /\ m.minPort <= m.maxPort
             /\ Inside(dr, m) /\ Inside(nx, m)
             /\ \A p \in m.minPort..m.maxPort :
                  p \in dr.minPort..dr.maxPort \/ p \in nx.minPort..nx.maxPort
             /\ m.optional <=> dr.optional /\ nx.optional
<1> DEFINE m == Merge(dr, nx)
<1>1. /\ m \in DynamicRange /\ m.class = dr.class /\ m.minPort = dr.minPort
      /\ m.maxPort = IF nx.maxPort > dr.maxPort THEN nx.maxPort ELSE dr.maxPort
  BY MergeShape
<1>2. m.optional <=> dr.optional /\ nx.optional
  BY MergeMandatory
<1> HIDE DEF m
<1>3. /\ dr.minPort \in Int /\ dr.maxPort \in Int /\ nx.minPort \in Int /\ nx.maxPort \in Int
  BY RangeFields
<1>4. /\ dr.class = nx.class /\ nx.minPort >= dr.minPort /\ nx.minPort <= dr.maxPort + 1
  BY DEF CanMerge
<1>5. m.minPort <= m.maxPort /\ Inside(dr, m) /\ Inside(nx, m)
  BY <1>1, <1>3, <1>4 DEF Inside
<1>6. \A p \in m.minPort..m.maxPort :
        p \in dr.minPort..dr.maxPort \/ p \in nx.minPort..nx.maxPort
  BY <1>1, <1>3, <1>4
<1> QED
  BY <1>1, <1>2, <1>5, <1>6 DEF m

\* What a step of the loop relies on, over lists without inverted ranges.
LEMMA RunsFacts ==
  ASSUME SquashInv, RunsInv, WellFormed(input), squashPc = "loop", nextRange <= Len(sorted)
  PROVE  /\ sorted[nextRange].minPort <= sorted[nextRange].maxPort
         /\ Range(sorted) = Range(input)
         /\ FoldsInto({sorted[k] : k \in 1..nextRange - 1}, merged)
         /\ IsSorted(merged)
         /\ {sorted[k] : k \in 1..nextRange} = {sorted[k] : k \in 1..nextRange - 1} \cup {sorted[nextRange]}
         /\ \A r \in {sorted[k] : k \in 1..nextRange - 1} : r \in DynamicRange
<1>1. /\ sorted \in Seq(DynamicRange) /\ input \in Seq(DynamicRange)
      /\ nextRange \in Nat /\ nextRange >= 2 /\ nextRange \in 1..Len(sorted)
  BY DEF SquashInv, SquashTypeOK, FoldInv
<1>2. /\ Range(sorted) = Range(input)
      /\ FoldsInto({sorted[k] : k \in 1..nextRange - 1}, merged)
      /\ IsSorted(merged)
  BY DEF RunsInv
<1>3. sorted[nextRange].minPort <= sorted[nextRange].maxPort
  <2>1. sorted[nextRange] \in {input[i] : i \in 1..Len(input)}
    BY <1>1, <1>2, RangeOfSeq
  <2>2. PICK i \in 1..Len(input) : input[i] = sorted[nextRange]
    BY <2>1
  <2> QED
    BY <2>2 DEF WellFormed
<1>4. /\ {sorted[k] : k \in 1..nextRange} = {sorted[k] : k \in 1..nextRange - 1} \cup {sorted[nextRange]}
      /\ \A r \in {sorted[k] : k \in 1..nextRange - 1} : r \in DynamicRange
  BY FoldedAndNext
<1> QED
  BY <1>2, <1>3, <1>4

LEMMA MergeRuns == SquashInv /\ RunsInv /\ MergeIntoLast => RunsInv'
<1> SUFFICES ASSUME SquashInv, RunsInv, MergeIntoLast PROVE RunsInv'
  OBVIOUS
<1> SUFFICES ASSUME WellFormed(input)
             PROVE  /\ Range(sorted) = Range(input)
                    /\ FoldsInto({sorted[k] : k \in 1..nextRange}, merged')
                    /\ IsSorted(merged')
  <2>1. squashPc' = "loop" /\ input' = input /\ sorted' = sorted /\ nextRange' = nextRange + 1
    BY DEF MergeIntoLast
  <2>2. nextRange' - 1 = nextRange
    BY <2>1 DEF SquashInv, SquashTypeOK
  <2> QED
    BY <2>1, <2>2 DEF RunsInv
<1> DEFINE n == Len(merged)
           last == merged[n]
           new == sorted[nextRange]
           S == {sorted[k] : k \in 1..nextRange - 1}
           m == Merge(last, new)
<1>1. /\ squashPc = "loop" /\ nextRange <= Len(sorted) /\ CanMerge(last, new)
      /\ merged' = [merged EXCEPT ![n] = Merge(last, new)]
  BY DEF MergeIntoLast
<1>2. /\ n \in Nat \ {0} /\ merged \in Seq(DynamicRange)
      /\ last \in DynamicRange /\ new \in DynamicRange
  BY <1>1, LoopFacts
<1>3. /\ new.minPort <= new.maxPort /\ Range(sorted) = Range(input)
      /\ FoldsInto(S, merged) /\ IsSorted(merged)
      /\ {sorted[k] : k \in 1..nextRange} = S \cup {new}
      /\ \A r \in S : r \in DynamicRange
  BY <1>1, RunsFacts
<1>4. /\ Len(merged') = n /\ n \in 1..n
      /\ \A i \in 1..n : i # n => merged'[i] = merged[i]
      /\ merged'[n] = m
      /\ \A i \in 1..n : merged[i] \in DynamicRange
  BY <1>1, <1>2, MergeShape
<1>5. last.minPort <= last.maxPort
  BY <1>3, <1>4 DEF FoldsInto
<1>6. /\ m \in DynamicRange /\ m.minPort <= m.maxPort
      /\ Inside(last, m) /\ Inside(new, m)
      /\ \A p \in m.minPort..m.maxPort :
           p \in last.minPort..last.maxPort \/ p \in new.minPort..new.maxPort
      /\ m.optional <=> last.optional /\ new.optional
  BY <1>1, <1>2, <1>3, <1>5, MergeFolds
<1>7. m.class = last.class /\ m.class = new.class /\ m.minPort = last.minPort
  BY <1>1, <1>2, MergeShape DEF CanMerge
<1> HIDE DEF n, S, m, new
<1>8. IsSorted(merged')
  <2>1. \A i \in 1..n : merged'[i].class = merged[i].class /\ merged'[i].minPort = merged[i].minPort
    BY <1>4, <1>7
  <2> QED
    BY <1>3, <1>4, <2>1, SameBeginningsSorted DEF n
<1>9. ASSUME NEW i \in 1..n
      PROVE  /\ merged'[i].minPort <= merged'[i].maxPort
             /\ \A p \in merged'[i].minPort..merged'[i].maxPort :
                  \E r \in S \cup {new} : Covers(r, merged'[i].class, p)
             /\ merged'[i].optional \/ \E r \in S \cup {new} : Inside(r, merged'[i]) /\ ~r.optional
  <2>1. /\ \A p \in merged[i].minPort..merged[i].maxPort : \E r \in S : Covers(r, merged[i].class, p)
        /\ merged[i].optional \/ \E r \in S : Inside(r, merged[i]) /\ ~r.optional
        /\ merged[i].minPort <= merged[i].maxPort
    BY <1>3 DEF FoldsInto, n
  <2>2. CASE i # n
    BY <1>4, <2>1, <2>2
  <2>3. CASE i = n
    <3>1. ASSUME NEW p \in m.minPort..m.maxPort
          PROVE  \E r \in S \cup {new} : Covers(r, m.class, p)
      <4>1. CASE p \in last.minPort..last.maxPort
        BY <1>7, <2>1, <2>3, <4>1
      <4>2. CASE p \in new.minPort..new.maxPort
        <5>1. Covers(new, m.class, p)
          BY <1>2, <1>7, <4>2, RangeFields DEF Covers
        <5> QED
          BY <5>1
      <4> QED
        BY <1>6, <4>1, <4>2
    <3>2. m.optional \/ \E r \in S \cup {new} : Inside(r, m) /\ ~r.optional
      <4>1. CASE ~new.optional
        BY <1>6, <4>1
      <4>2. CASE ~last.optional
        <5>1. PICK r \in S : Inside(r, last) /\ ~r.optional
          BY <2>1, <2>3, <4>2
        <5>2. Inside(r, m)
          BY <1>2, <1>3, <1>6, <5>1, InsideFacts
        <5> QED
          BY <5>1, <5>2
      <4> QED
        BY <1>6, <4>1, <4>2
    <3> QED
      BY <1>4, <1>6, <2>3, <3>1, <3>2
  <2> QED
    BY <2>2, <2>3
<1>10. ASSUME NEW r \in S \cup {new}
       PROVE  \E i \in 1..n : Inside(r, merged'[i]) /\ (merged'[i].optional => r.optional)
  <2>1. CASE r = new
    BY <1>4, <1>6, <2>1
  <2>2. CASE r \in S
    <3>1. PICK i \in 1..n : Inside(r, merged[i]) /\ (merged[i].optional => r.optional)
      BY <1>3, <2>2 DEF FoldsInto, n
    <3>2. CASE i # n
      BY <1>4, <3>1, <3>2
    <3>3. CASE i = n
      <4>1. Inside(r, m)
        BY <1>2, <1>3, <1>6, <2>2, <3>1, <3>3, InsideFacts
      <4> QED
        BY <1>4, <1>6, <3>1, <3>3, <4>1
    <3> QED
      BY <3>2, <3>3
  <2> QED
    BY <2>1, <2>2
<1>11. FoldsInto(S \cup {new}, merged')
  BY <1>4, <1>9, <1>10 DEF FoldsInto
<1> QED
  BY <1>3, <1>8, <1>11

LEMMA AppendRuns == SquashInv /\ RunsInv /\ AppendNext => RunsInv'
<1> SUFFICES ASSUME SquashInv, RunsInv, AppendNext PROVE RunsInv'
  OBVIOUS
<1> SUFFICES ASSUME WellFormed(input)
             PROVE  /\ Range(sorted) = Range(input)
                    /\ FoldsInto({sorted[k] : k \in 1..nextRange}, merged')
                    /\ IsSorted(merged')
  <2>1. squashPc' = "loop" /\ input' = input /\ sorted' = sorted /\ nextRange' = nextRange + 1
    BY DEF AppendNext
  <2>2. nextRange' - 1 = nextRange
    BY <2>1 DEF SquashInv, SquashTypeOK
  <2> QED
    BY <2>1, <2>2 DEF RunsInv
<1> DEFINE n == Len(merged)
           last == merged[n]
           new == sorted[nextRange]
           S == {sorted[k] : k \in 1..nextRange - 1}
<1>1. /\ squashPc = "loop" /\ nextRange <= Len(sorted) /\ merged' = Append(merged, new)
  BY DEF AppendNext
<1>2. /\ n \in Nat \ {0} /\ merged \in Seq(DynamicRange)
      /\ last \in DynamicRange /\ new \in DynamicRange
      /\ Before(last, new)
  BY <1>1, LoopFacts
<1>3. /\ new.minPort <= new.maxPort /\ Range(sorted) = Range(input)
      /\ FoldsInto(S, merged) /\ IsSorted(merged)
      /\ {sorted[k] : k \in 1..nextRange} = S \cup {new}
  BY <1>1, RunsFacts
<1>4. /\ Len(merged') = n + 1
      /\ \A i \in 1..n : merged'[i] = merged[i] /\ merged[i] \in DynamicRange
      /\ merged'[n + 1] = new
  BY <1>1, <1>2
<1> HIDE DEF n, S, new
<1>5. \A i \in 1..n + 1 : i \in 1..n \/ i = n + 1
  BY <1>2
<1>6. 1..n \subseteq 1..n + 1 /\ n + 1 \in 1..n + 1
  BY <1>2
<1>7. IsSorted(merged')
  BY <1>1, <1>2, <1>3, AppendSorted DEF n
<1>8. Inside(new, new) /\ \A p \in new.minPort..new.maxPort : Covers(new, new.class, p)
  BY <1>2, InsideFacts, RangeFields DEF Covers
<1>9. ASSUME NEW i \in 1..n + 1
      PROVE  /\ merged'[i].minPort <= merged'[i].maxPort
             /\ \A p \in merged'[i].minPort..merged'[i].maxPort :
                  \E r \in S \cup {new} : Covers(r, merged'[i].class, p)
             /\ merged'[i].optional \/ \E r \in S \cup {new} : Inside(r, merged'[i]) /\ ~r.optional
  <2>1. CASE i = n + 1
    BY <1>3, <1>4, <1>8, <2>1
  <2>2. CASE i \in 1..n
    <3>1. /\ \A p \in merged[i].minPort..merged[i].maxPort : \E r \in S : Covers(r, merged[i].class, p)
          /\ merged[i].optional \/ \E r \in S : Inside(r, merged[i]) /\ ~r.optional
          /\ merged[i].minPort <= merged[i].maxPort
      BY <1>3, <2>2 DEF FoldsInto, n
    <3> QED
      BY <1>4, <2>2, <3>1
  <2> QED
    BY <1>5, <2>1, <2>2
<1>10. ASSUME NEW r \in S \cup {new}
       PROVE  \E i \in 1..n + 1 : Inside(r, merged'[i]) /\ (merged'[i].optional => r.optional)
  <2>1. CASE r = new
    BY <1>4, <1>6, <1>8, <2>1
  <2>2. CASE r \in S
    <3>1. PICK i \in 1..n : Inside(r, merged[i]) /\ (merged[i].optional => r.optional)
      BY <1>3, <2>2 DEF FoldsInto, n
    <3> QED
      BY <1>4, <1>6, <3>1
  <2> QED
    BY <2>1, <2>2
<1>11. FoldsInto(S \cup {new}, merged')
  BY <1>4, <1>9, <1>10 DEF FoldsInto
<1> QED
  BY <1>3, <1>7, <1>11

LEMMA ReturnSquashedRuns == SquashInv /\ RunsInv /\ ReturnSquashed => RunsInv'
<1> SUFFICES ASSUME SquashInv, RunsInv, ReturnSquashed, WellFormed(input)
             PROVE  FoldsInto(Range(input), merged) /\ IsSorted(merged)
  BY DEF RunsInv, ReturnSquashed
<1>1. squashPc = "loop" /\ nextRange - 1 = Len(sorted) /\ sorted \in Seq(DynamicRange)
  BY DEF SquashInv, SquashTypeOK, FoldInv, ReturnSquashed
<1>2. {sorted[k] : k \in 1..nextRange - 1} = Range(sorted)
  BY <1>1, RangeOfSeq
<1> QED
  BY <1>1, <1>2 DEF RunsInv

\* The result is made of the given ranges, and each of those is in it.
THEOREM RunsInvariance == SquashSpec => []RunsInv
<1>1. SquashInv /\ RunsInv /\ [SquashNext]_squashVars => RunsInv'
  <2>1. RunsInv /\ UNCHANGED squashVars => RunsInv'
    BY DEF RunsInv, squashVars, WellFormed, FoldsInto, IsSorted
  <2> QED
    BY <2>1, ReturnEarlyRuns, SortRuns, MergeRuns, AppendRuns, ReturnSquashedRuns DEF SquashNext
<1> QED
  BY <1>1, RunsInitially, SquashInvariance, PTL DEF SquashSpec

\* A list that holds the ranges of s, folded, sorted and apart: its ranges are
\* the maximal runs of s.
LEMMA FoldedIsRun ==
  ASSUME NEW s \in Seq(DynamicRange), WellFormed(s),
         NEW t \in Seq(DynamicRange), FoldsInto(Range(s), t), Apart(t),
         NEW i \in 1..Len(t)
  PROVE  IsRun(t[i], s)
<1> DEFINE a == t[i]
<1>1. Range(s) = {s[k] : k \in 1..Len(s)}
  BY RangeOfSeq
<1>2. /\ a \in DynamicRange /\ a.minPort <= a.maxPort
      /\ \A p \in a.minPort..a.maxPort : \E r \in Range(s) : Covers(r, a.class, p)
      /\ a.optional \/ \E r \in Range(s) : Inside(r, a) /\ ~r.optional
  BY DEF FoldsInto
<1>3. a.minPort \in Int /\ a.maxPort \in Int
  BY <1>2, RangeFields
\* A range of s that has a port within one of a lies in a.
<1>4. ASSUME NEW k \in 1..Len(s), s[k].class = a.class,
             s[k].minPort <= a.maxPort + 1, a.minPort - 1 <= s[k].maxPort
      PROVE  Inside(s[k], a) /\ (a.optional => s[k].optional)
  <2>1. s[k] \in Range(s)
    BY <1>1
  <2>2. PICK j \in 1..Len(t) : Inside(s[k], t[j]) /\ (t[j].optional => s[k].optional)
    BY <2>1 DEF FoldsInto
  <2> DEFINE b == t[j]
  <2>3. /\ b \in DynamicRange /\ s[k] \in DynamicRange
        /\ b.minPort \in Int /\ b.maxPort \in Int
        /\ s[k].minPort \in Int /\ s[k].maxPort \in Int
    BY RangeFields
  <2>4. b.class = a.class /\ b.minPort <= s[k].minPort /\ s[k].maxPort <= b.maxPort
    BY <1>4, <2>2 DEF Inside
  <2>5. ~(j < i)
    <3>1. j < i => b.maxPort + 1 < a.minPort
      BY <2>4 DEF Apart
    <3> HIDE DEF a, b
    <3> QED
      BY <1>3, <1>4, <2>3, <2>4, <3>1, SMTT(30)
  <2>6. ~(i < j)
    <3>1. i < j => a.maxPort + 1 < b.minPort
      BY <2>4 DEF Apart
    <3> HIDE DEF a, b
    <3> QED
      BY <1>3, <1>4, <2>3, <2>4, <3>1, SMTT(30)
  <2>7. i = j
    BY <2>5, <2>6
  <2> QED
    BY <2>2, <2>7
<1> HIDE DEF a
<1>5. \A p \in a.minPort..a.maxPort : Covered(s, a.class, p)
  BY <1>1, <1>2 DEF Covered
<1>6. ASSUME NEW p \in Int, p = a.minPort - 1 \/ p = a.maxPort + 1, Covered(s, a.class, p)
      PROVE  FALSE
  <2>1. PICK k \in 1..Len(s) : Covers(s[k], a.class, p)
    BY <1>6 DEF Covered
  <2>2. s[k] \in DynamicRange /\ s[k].minPort \in Int /\ s[k].maxPort \in Int
    BY RangeFields
  <2>3. s[k].class = a.class /\ s[k].minPort <= p /\ p <= s[k].maxPort
    BY <2>1 DEF Covers
  <2>4. s[k].minPort <= a.maxPort + 1 /\ a.minPort - 1 <= s[k].maxPort
    BY <1>2, <1>3, <1>6, <2>2, <2>3, SMTT(30)
  <2>5. a.minPort <= s[k].minPort /\ s[k].maxPort <= a.maxPort
    BY <1>4, <2>3, <2>4 DEF Inside
  <2> QED
    BY <1>2, <1>3, <1>6, <2>2, <2>3, <2>5
<1>7. ~Covered(s, a.class, a.minPort - 1) /\ ~Covered(s, a.class, a.maxPort + 1)
  BY <1>3, <1>6
<1>8. ASSUME NEW k \in 1..Len(s), s[k].class = a.class, s[k].minPort \in a.minPort..a.maxPort
      PROVE  a.optional => s[k].optional
  <2>1. s[k] \in DynamicRange /\ s[k].minPort \in Int /\ s[k].maxPort \in Int
    BY RangeFields
  <2>2. s[k].minPort <= s[k].maxPort
    BY DEF WellFormed
  <2>3. s[k].minPort <= a.maxPort + 1 /\ a.minPort - 1 <= s[k].maxPort
    BY <1>3, <1>8, <2>1, <2>2
  <2> QED
    BY <1>4, <1>8, <2>3
<1>9. ASSUME ~a.optional
      PROVE  \E k \in 1..Len(s) :
               /\ s[k].class = a.class
               /\ s[k].minPort \in a.minPort..a.maxPort
               /\ ~s[k].optional
  <2>1. PICK k \in 1..Len(s) : Inside(s[k], a) /\ ~s[k].optional
    BY <1>1, <1>2, <1>9
  <2>2. s[k] \in DynamicRange /\ s[k].minPort \in Int /\ s[k].maxPort \in Int
    BY RangeFields
  <2>3. s[k].minPort <= s[k].maxPort
    BY DEF WellFormed
  <2>4. s[k].class = a.class /\ a.minPort <= s[k].minPort /\ s[k].maxPort <= a.maxPort
    BY <2>1 DEF Inside
  <2>5. s[k].minPort \in a.minPort..a.maxPort
    BY <1>3, <2>2, <2>3, <2>4
  <2> QED
    BY <2>1, <2>4, <2>5
<1>10. a.optional <=>
         \A k \in 1..Len(s) :
           s[k].class = a.class /\ s[k].minPort \in a.minPort..a.maxPort => s[k].optional
  BY <1>8, <1>9
<1>11. IsRun(a, s)
  BY <1>2, <1>5, <1>7, <1>10 DEF IsRun
<1> QED
  BY <1>11 DEF a

\* No maximal run is left out.
LEMMA EveryRunIsThere ==
  ASSUME NEW s \in Seq(DynamicRange), NEW t \in Seq(DynamicRange),
         FoldsInto(Range(s), t), \A i \in 1..Len(t) : IsRun(t[i], s),
         NEW r \in DynamicRange, IsRun(r, s)
  PROVE  \E i \in 1..Len(t) : t[i] = r
<1>1. r.minPort \in Int /\ r.maxPort \in Int /\ r.minPort <= r.maxPort
  BY RangeFields DEF IsRun
<1>2. r.minPort \in r.minPort..r.maxPort
  BY <1>1
<1>3. PICK k \in 1..Len(s) : Covers(s[k], r.class, r.minPort)
  BY <1>2 DEF IsRun, Covered
<1>4. s[k] \in Range(s)
  BY RangeOfSeq
<1>5. PICK i \in 1..Len(t) : Inside(s[k], t[i])
  BY <1>4 DEF FoldsInto
<1>6. /\ t[i] \in DynamicRange /\ s[k] \in DynamicRange
      /\ t[i].minPort \in Int /\ t[i].maxPort \in Int
      /\ s[k].minPort \in Int /\ s[k].maxPort \in Int
  BY RangeFields
<1>7. /\ s[k].class = r.class /\ s[k].minPort <= r.minPort /\ r.minPort <= s[k].maxPort
      /\ s[k].class = t[i].class /\ t[i].minPort <= s[k].minPort /\ s[k].maxPort <= t[i].maxPort
  BY <1>3, <1>5 DEF Covers, Inside
<1>8. t[i].class = r.class /\ r.minPort \in t[i].minPort..t[i].maxPort
  BY <1>1, <1>6, <1>7
<1>9. t[i] = r
  BY <1>1, <1>2, <1>6, <1>8, RunsMeet
<1> QED
  BY <1>9

\* Without inverted ranges the result is the maximal runs, in order: neither
\* the unstable sort nor the order of the list shows.
THEOREM SquashComputesRuns == SquashSpec => []SquashIsCanonical
<1>1. SquashInv /\ RunsInv => SquashIsCanonical
  <2> SUFFICES ASSUME SquashInv, RunsInv, squashPc = "done", WellFormed(input)
               PROVE  /\ \A i \in 1..Len(merged) : IsRun(merged[i], input)
                      /\ \A r \in PortRange : IsRun(r, input) => \E i \in 1..Len(merged) : merged[i] = r
                      /\ \A i, j \in 1..Len(merged) :
                           i < j => merged[i] # merged[j] /\ Before(merged[i], merged[j])
    BY DEF SquashIsCanonical
  <2>1. /\ input \in Seq(DynamicRange) /\ merged \in Seq(DynamicRange)
        /\ FoldsInto(Range(input), merged) /\ Apart(merged) /\ IsSorted(merged)
    BY DEF SquashInv, SquashTypeOK, RunsInv
  <2>2. \A i \in 1..Len(merged) : IsRun(merged[i], input)
    BY <2>1, FoldedIsRun
  <2>3. ASSUME NEW r \in PortRange, IsRun(r, input)
        PROVE  \E i \in 1..Len(merged) : merged[i] = r
    <3>1. r \in DynamicRange
      BY PortsAssumption DEF PortRange, DynamicRange
    <3> QED
      BY <2>1, <2>2, <2>3, <3>1, EveryRunIsThere
  <2>4. ASSUME NEW i \in 1..Len(merged), NEW j \in 1..Len(merged), i < j
        PROVE  merged[i] # merged[j] /\ Before(merged[i], merged[j])
    <3>1. merged[i] = merged[j] => merged[i].maxPort + 1 < merged[i].minPort
      BY <2>1, <2>4 DEF Apart
    <3>2. merged[i].minPort <= merged[i].maxPort
      BY <2>1 DEF FoldsInto
    <3>3. merged[i] \in DynamicRange /\ merged[i].minPort \in Int /\ merged[i].maxPort \in Int
      BY <2>1, RangeFields
    <3> QED
      BY <2>1, <2>4, <3>1, <3>2, <3>3 DEF IsSorted
  <2> QED
    BY <2>2, <2>3, <2>4
<1> QED
  BY <1>1, SquashInvariance, RunsInvariance, PTL

=============================================================================
