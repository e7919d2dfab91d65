------------------------- MODULE MergedOutputProofs -------------------------
(***************************************************************************)
(* Theorems about ComMatrixMerge and MergedOutput, for matrices of any     *)
(* length over any keys, any ranges and any number of groups: Merge        *)
(* computes the one list of first entries in order, each file of a run     *)
(* accepts exactly what either matrix has for its group, and when inverted *)
(* ranges keep a file from loading.                                        *)
(***************************************************************************)
EXTENDS MergedOutput, RangeSquashProofs

-----------------------------------------------------------------------------
(* Lists of entries                                                        *)

Elements(s) == {s[i] : i \in 1..Len(s)}

LEMMA EntryKeys ==
  ASSUME NEW e \in Entry
  PROVE  e.key \in Keys /\ e.key \in Int
<1>1. e.key \in Keys
  BY DEF Entry
<1> QED
  BY <1>1, KeysAssumption

LEMMA KeysOfElements ==
  ASSUME NEW s, NEW t, Elements(s) = Elements(t)
  PROVE  KeysOf(s) = KeysOf(t)
<1>1. KeysOf(s) = {e.key : e \in Elements(s)} /\ KeysOf(t) = {e.key : e \in Elements(t)}
  BY DEF KeysOf, Elements
<1> QED
  BY <1>1

LEMMA KeysOfBoth ==
  ASSUME NEW s \in Seq(Entry), NEW t \in Seq(Entry)
  PROVE  s \o t \in Seq(Entry) /\ KeysOf(s \o t) = KeysOf(s) \cup KeysOf(t)
<1> DEFINE u == s \o t
<1>1. /\ u \in Seq(Entry) /\ Len(s) \in Nat /\ Len(t) \in Nat
      /\ Len(u) = Len(s) + Len(t)
      /\ \A i \in 1..Len(u) : u[i] = IF i <= Len(s) THEN s[i] ELSE t[i - Len(s)]
  OBVIOUS
<1> HIDE DEF u
<1>2. ASSUME NEW i \in 1..Len(s) PROVE i \in 1..Len(u) /\ u[i] = s[i]
  BY <1>1
<1>3. ASSUME NEW i \in 1..Len(t) PROVE i + Len(s) \in 1..Len(u) /\ u[i + Len(s)] = t[i]
  <2>1. /\ i + Len(s) \in 1..Len(u)
        /\ ~(i + Len(s) <= Len(s))
        /\ (i + Len(s)) - Len(s) = i
    BY <1>1
  <2> QED
    BY <1>1, <2>1
<1>4. ASSUME NEW i \in 1..Len(u)
      PROVE  (\E j \in 1..Len(s) : u[i] = s[j]) \/ (\E j \in 1..Len(t) : u[i] = t[j])
  <2>1. CASE i <= Len(s)
    <3>1. i \in 1..Len(s) /\ u[i] = s[i]
      BY <1>1, <2>1
    <3> QED
      BY <3>1
  <2>2. CASE i > Len(s)
    <3>1. i - Len(s) \in 1..Len(t) /\ u[i] = t[i - Len(s)]
      BY <1>1, <2>2
    <3> QED
      BY <3>1
  <2> QED
    BY <1>1, <2>1, <2>2
<1>5. KeysOf(u) \subseteq KeysOf(s) \cup KeysOf(t)
  BY <1>4 DEF KeysOf
<1>6. KeysOf(s) \subseteq KeysOf(u)
  BY <1>2 DEF KeysOf
<1>7. KeysOf(t) \subseteq KeysOf(u)
  BY <1>3 DEF KeysOf
<1> QED
  BY <1>1, <1>5, <1>6, <1>7 DEF u

\* A list with an entry more.
LEMMA AppendElements ==
  ASSUME NEW s \in Seq(Entry), NEW e \in Entry
  PROVE  /\ Append(s, e) \in Seq(Entry)
         /\ Len(Append(s, e)) = Len(s) + 1
         /\ \A i \in 1..Len(s) : Append(s, e)[i] = s[i]
         /\ Append(s, e)[Len(s) + 1] = e
         /\ Elements(Append(s, e)) = Elements(s) \cup {e}
         /\ KeysOf(Append(s, e)) = KeysOf(s) \cup {e.key}
<1> DEFINE t == Append(s, e)
<1>1. /\ t \in Seq(Entry) /\ Len(s) \in Nat /\ Len(t) = Len(s) + 1
      /\ \A i \in 1..Len(s) : t[i] = s[i]
      /\ t[Len(s) + 1] = e
  OBVIOUS
<1> HIDE DEF t
<1>2. \A i \in 1..Len(t) : i \in 1..Len(s) \/ i = Len(s) + 1
  BY <1>1
<1>3. \A i \in 1..Len(s) : i \in 1..Len(t)
  BY <1>1
<1>4. Len(s) + 1 \in 1..Len(t)
  BY <1>1
<1>5. Elements(t) = Elements(s) \cup {e}
  BY <1>1, <1>2, <1>3, <1>4 DEF Elements
<1>6. KeysOf(t) = KeysOf(s) \cup {e.key}
  BY <1>1, <1>2, <1>3, <1>4 DEF KeysOf
<1> QED
  BY <1>1, <1>5, <1>6 DEF t

\* A list in another order.
LEMMA RearrangedElements ==
  ASSUME NEW s \in Seq(Entry), NEW f \in Bijection(1..Len(s), 1..Len(s))
  PROVE  LET t == [i \in 1..Len(s) |-> s[f[i]]]
         IN  /\ t \in Seq(Entry)
             /\ Len(t) = Len(s)
             /\ Elements(t) = Elements(s)
             /\ KeysOf(t) = KeysOf(s)
             /\ \A i, j \in 1..Len(s) : f[i] = f[j] => i = j
             /\ \A i \in 1..Len(s) : f[i] \in 1..Len(s) /\ t[i] = s[f[i]]
<1> DEFINE t == [i \in 1..Len(s) |-> s[f[i]]]
<1>1. /\ f \in [1..Len(s) -> 1..Len(s)]
      /\ \A i, j \in 1..Len(s) : f[i] = f[j] => i = j
      /\ \A j \in 1..Len(s) : \E i \in 1..Len(s) : f[i] = j
  BY DEF Bijection, Injection, Surjection, IsInjective
<1>2. t \in Seq(Entry) /\ Len(t) = Len(s)
  BY <1>1
<1>3. \A i \in 1..Len(s) : f[i] \in 1..Len(s) /\ t[i] = s[f[i]]
  BY <1>1
<1>4. Elements(t) = Elements(s) /\ KeysOf(t) = KeysOf(s)
  <2> HIDE DEF t
  <2>1. \A i \in 1..Len(t) : \E j \in 1..Len(s) : t[i] = s[j]
    BY <1>2, <1>3
  <2>2. \A j \in 1..Len(s) : \E i \in 1..Len(t) : s[j] = t[i]
    BY <1>1, <1>2, <1>3
  <2>3. ASSUME NEW x PROVE x \in Elements(t) <=> x \in Elements(s)
    <3>1. x \in Elements(t) <=> \E i \in 1..Len(t) : x = t[i]
      BY DEF Elements
    <3>2. x \in Elements(s) <=> \E j \in 1..Len(s) : x = s[j]
      BY DEF Elements
    <3> QED
      BY <2>1, <2>2, <3>1, <3>2
  <2>4. Elements(t) = Elements(s)
    BY <2>3
  <2> QED
    BY <2>4, KeysOfElements
<1> QED
  BY <1>1, <1>2, <1>3, <1>4

-----------------------------------------------------------------------------
(* The loop of SortAndRemoveDuplicates                                     *)

\* The next entry of the loop is one more of the first ones, or it is none.
LEMMA FirstsGrow ==
  ASSUME NEW s \in Seq(Entry), NEW n \in 1..Len(s)
  PROVE  FirstsBefore(s, n + 1) =
           FirstsBefore(s, n) \cup
             (IF s[n].key \in {s[i].key : i \in 1..n - 1} THEN {} ELSE {s[n]})
<1> DEFINE Is(j) == \A k \in 1..j - 1 : s[k].key # s[j].key
<1>1. \A j : FirstsBefore(s, j) = {s[i] : i \in {x \in 1..j - 1 : Is(x)}}
  BY DEF FirstsBefore, Equals
<1>2. n \in Nat /\ (n + 1) - 1 = n /\ \A j : j \in 1..n <=> j \in 1..n - 1 \/ j = n
  OBVIOUS
<1>3. Is(n) <=> s[n].key \notin {s[i].key : i \in 1..n - 1}
  OBVIOUS
<1> HIDE DEF Is
<1>4. FirstsBefore(s, n + 1) = {s[i] : i \in {x \in 1..n : Is(x)}}
  BY <1>1, <1>2
<1>5. CASE Is(n)
  <2>1. {x \in 1..n : Is(x)} = {x \in 1..n - 1 : Is(x)} \cup {n}
    BY <1>2, <1>5
  <2>2. {s[i] : i \in {x \in 1..n : Is(x)}} = {s[i] : i \in {x \in 1..n - 1 : Is(x)}} \cup {s[n]}
    BY <2>1
  <2> QED
    BY <1>1, <1>3, <1>4, <1>5, <2>2
<1>6. CASE ~Is(n)
  <2>1. {x \in 1..n : Is(x)} = {x \in 1..n - 1 : Is(x)}
    BY <1>2, <1>6
  <2> QED
    BY <1>1, <1>3, <1>4, <1>6, <2>1
<1> QED
  BY <1>5, <1>6

LEMMA FirstsAll ==
  ASSUME NEW s \in Seq(Entry)
  PROVE  FirstsBefore(s, Len(s) + 1) = Firsts(s)
<1>1. (Len(s) + 1) - 1 = Len(s)
  OBVIOUS
<1> QED
  BY <1>1 DEF FirstsBefore, Firsts

-----------------------------------------------------------------------------
(* ComMatrixMerge                                                          *)

\* LoopInv, in terms of operators.
KeysBefore(s, n)  == {s[i].key : i \in 1..n - 1}
DifferentKeys(s)  == \A i, j \in 1..Len(s) : i < j => s[i].key # s[j].key

LoopState ==
  /\ ports = m \o other /\ Nil \notin {m, other}
  /\ next \in 1..Len(ports) + 1
  /\ seen = KeysBefore(ports, next)
  /\ Elements(res) = FirstsBefore(ports, next)
  /\ KeysOf(res) = seen
  /\ DifferentKeys(res)

LEMMA LoopInvParts == LoopInv <=> LoopState
  BY DEF LoopInv, LoopState, KeysBefore, Elements, DifferentKeys

LEMMA InitialMerge == Init => IInv
<1> SUFFICES ASSUME Init PROVE IInv
  OBVIOUS
<1>1. <<>> \in Seq(Entry)
  OBVIOUS
<1>2. TypeOK
  BY <1>1, ListsAssumption DEF Init, TypeOK
<1> QED
  BY <1>2 DEF Init, IInv

LEMMA ReturnGivenStep == IInv /\ ReturnGiven => IInv'
<1> SUFFICES ASSUME IInv, ReturnGiven PROVE IInv'
  OBVIOUS
<1>1. <<>> \in Seq(Entry)
  OBVIOUS
<1>2. /\ res' \in Seq(Entry) /\ pc' = "done" /\ Nil \in {m', other'}
      /\ UNCHANGED <<m, other, ports, seen, next>>
  BY <1>1 DEF IInv, TypeOK, ReturnGiven
<1> QED
  BY <1>2 DEF IInv, TypeOK

LEMMA ConcatenateStep == IInv /\ Concatenate => IInv'
<1> SUFFICES ASSUME IInv, Concatenate PROVE IInv'
  OBVIOUS
<1>1. /\ pc = "start" /\ pc' = "loop" /\ ports' = m \o other /\ Nil \notin {m, other}
      /\ UNCHANGED <<m, other, seen, res, next>>
      /\ res = <<>> /\ seen = {} /\ next = 1
      /\ m \in Seq(Entry) /\ other \in Seq(Entry)
  BY DEF IInv, TypeOK, Concatenate
<1>2. ports' \in Seq(Entry) /\ Len(ports') \in Nat
  BY <1>1, KeysOfBoth
<1>3. TypeOK'
  BY <1>1, <1>2 DEF IInv, TypeOK
<1>4. \A s : FirstsBefore(s, 1) = {} /\ KeysBefore(s, 1) = {}
  BY DEF FirstsBefore, KeysBefore
<1>5. KeysOf(<<>>) = {} /\ Elements(<<>>) = {} /\ DifferentKeys(<<>>)
  BY DEF KeysOf, Elements, DifferentKeys
<1>6. next' \in 1..Len(ports') + 1
  BY <1>1, <1>2
<1>7. LoopState'
  BY <1>1, <1>4, <1>5, <1>6 DEF LoopState
<1>8. LoopInv'
  BY <1>7, LoopInvParts, PTL
<1> QED
  BY <1>1, <1>3, <1>8 DEF IInv

\* One turn of the loop: what it has seen, and the entry it looks at.
LEMMA TurnOfLoop ==
  ASSUME IInv, pc = "loop", next <= Len(ports), next' = next + 1
  PROVE  /\ next \in 1..Len(ports) /\ next' \in 1..Len(ports) + 1 /\ next' \in Nat
         /\ ports[next] \in Entry /\ ports[next].key \in Keys
         /\ KeysBefore(ports, next') = seen \cup {ports[next].key}
         /\ FirstsBefore(ports, next') =
              FirstsBefore(ports, next) \cup
                (IF ports[next].key \in seen THEN {} ELSE {ports[next]})
<1>1. /\ ports \in Seq(Entry) /\ next \in 1..Len(ports) /\ next \in Nat
      /\ seen = {ports[i].key : i \in 1..next - 1}
  BY DEF IInv, TypeOK, LoopInv
<1>2. ports[next] \in Entry /\ next' \in 1..Len(ports) + 1 /\ next' \in Nat
  BY <1>1
<1>3. ports[next].key \in Keys
  BY <1>2, EntryKeys
<1>4. \A i : i \in 1..next' - 1 <=> i \in 1..next - 1 \/ i = next
  BY <1>1
<1>5. KeysBefore(ports, next') = seen \cup {ports[next].key}
  BY <1>1, <1>4 DEF KeysBefore
<1>6. FirstsBefore(ports, next + 1) =
        FirstsBefore(ports, next) \cup
          (IF ports[next].key \in seen THEN {} ELSE {ports[next]})
  BY <1>1, FirstsGrow
<1> QED
  BY <1>1, <1>2, <1>3, <1>5, <1>6

LEMMA KeepFirstStep == IInv /\ KeepFirst => IInv'
<1> SUFFICES ASSUME IInv, KeepFirst PROVE IInv'
  OBVIOUS
<1> DEFINE e == ports[next]
<1>1. /\ pc = "loop" /\ next <= Len(ports) /\ e.key \notin seen
      /\ seen' = seen \cup {e.key} /\ res' = Append(res, e) /\ next' = next + 1
      /\ UNCHANGED <<m, other, ports, pc>>
  BY DEF KeepFirst
<1>2. LoopState /\ TypeOK
  BY <1>1, LoopInvParts DEF IInv
<1>3. /\ next' \in 1..Len(ports) + 1 /\ next' \in Nat
      /\ e \in Entry /\ e.key \in Keys
      /\ KeysBefore(ports, next') = seen \cup {e.key}
      /\ FirstsBefore(ports, next') = FirstsBefore(ports, next) \cup {e}
  BY <1>1, TurnOfLoop
<1> HIDE DEF e
<1>4. /\ res \in Seq(Entry) /\ Len(res) \in Nat
      /\ res' \in Seq(Entry)
      /\ Len(res') = Len(res) + 1
      /\ \A i \in 1..Len(res) : res'[i] = res[i]
      /\ res'[Len(res) + 1] = e
      /\ Elements(res') = Elements(res) \cup {e}
      /\ KeysOf(res') = KeysOf(res) \cup {e.key}
  BY <1>1, <1>2, <1>3, AppendElements DEF TypeOK
<1>5. TypeOK'
  BY <1>1, <1>2, <1>3, <1>4 DEF TypeOK
<1>6. \A i \in 1..Len(res) : res[i].key # e.key
  BY <1>1, <1>2 DEF LoopState, KeysOf
<1>7. ASSUME NEW i \in 1..Len(res'), NEW j \in 1..Len(res'), i < j
      PROVE  res'[i].key # res'[j].key
  <2>1. i \in 1..Len(res) /\ res'[i] = res[i]
    BY <1>4, <1>7
  <2>2. CASE j = Len(res) + 1
    BY <1>4, <1>6, <2>1, <2>2
  <2>3. CASE j # Len(res) + 1
    <3>1. j \in 1..Len(res) /\ res'[j] = res[j]
      BY <1>4, <2>3
    <3> QED
      BY <1>2, <1>7, <2>1, <3>1 DEF LoopState, DifferentKeys
  <2> QED
    BY <2>2, <2>3
<1>8. DifferentKeys(res')
  BY <1>7 DEF DifferentKeys
<1>9. LoopState'
  BY <1>1, <1>2, <1>3, <1>4, <1>8 DEF LoopState
<1>10. LoopInv'
  BY <1>9, LoopInvParts, PTL
<1> QED
  BY <1>1, <1>5, <1>10 DEF IInv

LEMMA DropRepeatedStep == IInv /\ DropRepeated => IInv'
<1> SUFFICES ASSUME IInv, DropRepeated PROVE IInv'
  OBVIOUS
<1>1. /\ pc = "loop" /\ next <= Len(ports) /\ ports[next].key \in seen /\ next' = next + 1
      /\ UNCHANGED <<m, other, ports, seen, res, pc>>
  BY DEF DropRepeated
<1>2. LoopState /\ TypeOK
  BY <1>1, LoopInvParts DEF IInv
<1>3. /\ next' \in 1..Len(ports) + 1 /\ next' \in Nat
      /\ KeysBefore(ports, next') = seen
      /\ FirstsBefore(ports, next') = FirstsBefore(ports, next)
  BY <1>1, TurnOfLoop
<1>4. TypeOK' /\ LoopState'
  BY <1>1, <1>2, <1>3 DEF TypeOK, LoopState
<1>5. LoopInv'
  BY <1>4, LoopInvParts, PTL
<1> QED
  BY <1>1, <1>4, <1>5 DEF IInv

\* Whatever SortFunc does with equal entries: there are none, and the order is
\* strict.
LEMMA SortStep == IInv /\ Sort => IInv'
<1> SUFFICES ASSUME IInv, Sort PROVE IInv'
  OBVIOUS
<1>1. /\ pc = "loop" /\ next > Len(ports) /\ pc' = "done"
      /\ UNCHANGED <<m, other, ports, seen, next>>
  BY DEF Sort
<1>2. /\ LoopState /\ TypeOK
      /\ res \in Seq(Entry) /\ ports \in Seq(Entry)
      /\ Len(ports) \in Nat /\ Len(res) \in Nat
  BY <1>1, LoopInvParts DEF IInv, TypeOK
<1>3. next = Len(ports) + 1 /\ 1..next - 1 = 1..Len(ports)
  <2>1. next \in 1..Len(ports) + 1
    BY <1>2 DEF LoopState
  <2>2. next = Len(ports) + 1
    BY <1>1, <1>2, <2>1
  <2>3. next - 1 = Len(ports)
    BY <1>2, <2>2
  <2> QED
    BY <2>2, <2>3
<1>4. Elements(res) = Firsts(ports) /\ KeysOf(res) = KeysOf(ports)
  <2>1. KeysOf(res) = {ports[i].key : i \in 1..Len(ports)}
    BY <1>2, <1>3 DEF LoopState, KeysBefore
  <2>2. Elements(res) = FirstsBefore(ports, Len(ports) + 1)
    BY <1>2, <1>3 DEF LoopState
  <2> QED
    BY <1>2, <2>1, <2>2, FirstsAll DEF KeysOf
<1>5. PICK f \in Bijection(1..Len(res), 1..Len(res)) :
        /\ \A i, j \in 1..Len(res) : i < j => res[f[i]].key <= res[f[j]].key
        /\ res' = [i \in 1..Len(res) |-> res[f[i]]]
  BY DEF Sort
<1>6. /\ res' \in Seq(Entry)
      /\ Len(res') = Len(res)
      /\ Elements(res') = Elements(res)
      /\ KeysOf(res') = KeysOf(res)
      /\ \A i, j \in 1..Len(res) : f[i] = f[j] => i = j
      /\ \A i \in 1..Len(res) : f[i] \in 1..Len(res) /\ res'[i] = res[f[i]]
  BY <1>2, <1>5, RearrangedElements
<1>7. \A i, j \in 1..Len(res) : i # j => res[i].key # res[j].key
  BY <1>2 DEF LoopState, DifferentKeys
<1>8. \A i \in 1..Len(res) : res[i].key \in Int
  BY <1>2, EntryKeys
<1>9. ASSUME NEW i \in 1..Len(res), NEW j \in 1..Len(res), i < j
      PROVE  res'[i].key < res'[j].key
  <2>1. f[i] \in 1..Len(res) /\ f[j] \in 1..Len(res) /\ f[i] # f[j]
    BY <1>6, <1>9
  <2>2. res[f[i]].key <= res[f[j]].key /\ res[f[i]].key # res[f[j]].key
    BY <1>5, <1>7, <1>9, <2>1
  <2>3. res[f[i]].key \in Int /\ res[f[j]].key \in Int
    BY <1>8, <2>1
  <2> QED
    BY <1>6, <2>2, <2>3
<1>10. IsDedup(ports, res')
  BY <1>4, <1>6, <1>9 DEF IsDedup, Ascending, Elements
<1>11. TypeOK'
  BY <1>1, <1>2, <1>6 DEF TypeOK
<1>12. ports = m \o other /\ KeysOf(res') = KeysOf(ports)
  BY <1>2, <1>4, <1>6 DEF LoopState
<1> QED
  BY <1>1, <1>10, <1>11, <1>12 DEF IInv

LEMMA MergeStep == IInv /\ [Next]_vars => IInv'
<1>1. IInv /\ UNCHANGED vars => IInv'
  BY SMTT(30) DEF vars, IInv, TypeOK, LoopInv
<1> QED
  BY <1>1, ReturnGivenStep, ConcatenateStep, KeepFirstStep, DropRepeatedStep, SortStep DEF Next

\* The loop invariant of SortAndRemoveDuplicates, for lists of any length.
THEOREM MergeInvariance == Spec => []IInv
<1>1. Init => IInv
  BY InitialMerge
<1>2. IInv /\ [Next]_vars => IInv'
  BY MergeStep
<1> QED
  BY <1>1, <1>2, PTL DEF Spec

\* SortAndRemoveDuplicates computes the one list of the first entries of each
\* key, in order.
THEOREM MergeDedup == Spec => []DedupKept
<1>1. IInv => DedupKept
  BY DEF IInv, DedupKept
<1> QED
  BY <1>1, MergeInvariance, PTL

-----------------------------------------------------------------------------
(* MergedOutput                                                            *)

\* The parts of OutputInv that the two properties follow from.
OutputState ==
  /\ IInv
  /\ SquashInv
  /\ PlacesInv
  /\ input \in Inputs
  /\ m # Nil
  /\ pc = "done" /\ other = Nil => res = m
  /\ stage \in {"merge", "squash", "write", "failed", "done"}
  /\ (stage = "merge") <=> (pc # "done")
  /\ stage \in {"merge", "squash"} => files = [g \in {} |-> {}]
  /\ stage \notin {"merge", "squash"} =>
       /\ squashPc = "done"
       /\ DOMAIN files \cup pools = {Group[k] : k \in KeysOf(res)} \ {NoGroup}
  /\ stage = "done" => pools = {}
  /\ \A g \in DOMAIN files : files[g] = ToNFTables(g)

LEMMA OutputInvParts == OutputInv <=> OutputState /\ AcceptsExactly /\ RulesLoad
  BY DEF OutputInv, OutputState

\* A file is there only when both halves of the merge are done.
LEMMA WrittenLast ==
  ASSUME OutputState, stage \notin {"merge", "squash"}
  PROVE  /\ pc = "done" /\ squashPc = "done"
         /\ DOMAIN files \cup pools = {Group[k] : k \in KeysOf(res)} \ {NoGroup}
  BY DEF OutputState

LEMMA FilesLast ==
  ASSUME OutputState, NEW g \in DOMAIN files
  PROVE  squashPc = "done" /\ files[g] = ToNFTables(g)
<1>1. stage \in {"merge", "squash"} => DOMAIN files = {}
  BY DEF OutputState
<1> QED
  BY <1>1, WrittenLast DEF OutputState

\* The keys of the merged matrix are those of the two.
LEMMA MergedKeys ==
  ASSUME OutputState, pc = "done"
  PROVE  KeysOf(res) = KeysOf(m) \cup (IF other = Nil THEN {} ELSE KeysOf(other))
<1>1. CASE other = Nil
  BY <1>1 DEF OutputState
<1>2. CASE other # Nil
  <2>1. KeysOf(res) = KeysOf(m \o other)
    BY <1>2 DEF OutputState, IInv
  <2>2. m \in Seq(Entry) /\ other \in Seq(Entry)
    BY <1>2 DEF OutputState, IInv, TypeOK
  <2> QED
    BY <1>2, <2>1, <2>2, KeysOfBoth
<1> QED
  BY <1>1, <1>2

\* No flow of a group is lost in the merge.
LEMMA MergedFlows ==
  ASSUME OutputState, pc = "done", NEW g
  PROVE  FlowsOf(g) = FlowsOfGroup(res, g)
<1>1. CASE other = Nil
  BY <1>1 DEF OutputState, FlowsOf
<1>2. CASE other # Nil
  <2>1. KeysOf(res) = KeysOf(m) \cup KeysOf(other)
    BY <1>2, MergedKeys
  <2> QED
    BY <1>2, <2>1 DEF FlowsOf, FlowsOfGroup
<1> QED
  BY <1>1, <1>2

\* The printed ranges cover what the given ones cover.
LEMMA PrintedCover ==
  ASSUME OutputState, squashPc = "done", NEW g, NEW p \in Filtered, NEW x \in Ports
  PROVE  (\E r \in ToNFTables(g).ranges : r[1] = p /\ r[2] <= x /\ x <= r[3])
           <=> \E c \in Classes : RangeProtocol[c] = p /\ Covered(input, c, x)
<1>1. merged \in Seq(DynamicRange) /\ SameCoverage(merged, input)
  BY DEF OutputState, SquashInv, SquashTypeOK
<1>2. \A c \in Classes : Covered(merged, c, x) <=> Covered(input, c, x)
  BY <1>1 DEF SameCoverage
<1>3. ToNFTables(g).ranges = {r \in {Printed(y) : y \in Range(merged)} : r[1] \in Filtered}
  BY DEF ToNFTables
<1>4. Range(merged) = {merged[i] : i \in 1..Len(merged)}
  BY <1>1, RangeOfSeq
<1>5. ASSUME NEW r \in ToNFTables(g).ranges, r[1] = p, r[2] <= x, x <= r[3]
      PROVE  \E c \in Classes : RangeProtocol[c] = p /\ Covered(merged, c, x)
  <2>1. PICK i \in 1..Len(merged) : r = Printed(merged[i])
    BY <1>3, <1>4
  <2>2. merged[i].class \in Classes
    <3>1. merged[i] \in DynamicRange
      BY <1>1
    <3> QED
      BY <3>1 DEF DynamicRange
  <2>3. Covers(merged[i], merged[i].class, x) /\ RangeProtocol[merged[i].class] = p
    BY <1>5, <2>1 DEF Printed, Covers
  <2>4. Covered(merged, merged[i].class, x)
    BY <2>3 DEF Covered
  <2> QED
    BY <2>2, <2>3, <2>4
<1>6. ASSUME NEW c \in Classes, RangeProtocol[c] = p, Covered(merged, c, x)
      PROVE  \E r \in ToNFTables(g).ranges : r[1] = p /\ r[2] <= x /\ x <= r[3]
  <2>1. PICK i \in 1..Len(merged) : Covers(merged[i], c, x)
    BY <1>6 DEF Covered
  <2>2. /\ Printed(merged[i])[1] = p
        /\ Printed(merged[i])[2] <= x
        /\ x <= Printed(merged[i])[3]
    BY <1>6, <2>1 DEF Printed, Covers
  <2>3. Printed(merged[i]) \in ToNFTables(g).ranges
    BY <1>3, <1>4, <2>2
  <2> QED
    BY <2>2, <2>3
<1> QED
  BY <1>2, <1>5, <1>6

\* What the rules of a group accept.
LEMMA RulesOfGroup ==
  ASSUME OutputState, pc = "done", squashPc = "done", NEW g
  PROVE  Accepts(ToNFTables(g)) = {f \in FlowsOf(g) : f[1] \in Filtered} \cup RangesCover
<1>1. ToNFTables(g).ports = {f \in FlowsOf(g) : f[1] \in Filtered}
  BY MergedFlows DEF ToNFTables
<1>2. ASSUME NEW f \in Filtered \X Ports
      PROVE  (\E r \in ToNFTables(g).ranges : r[1] = f[1] /\ r[2] <= f[2] /\ f[2] <= r[3])
               <=> \E c \in Classes : RangeProtocol[c] = f[1] /\ Covered(input, c, f[2])
  <2>1. f[1] \in Filtered /\ f[2] \in Ports
    OBVIOUS
  <2> QED
    BY <2>1, PrintedCover
<1>3. {f \in Filtered \X Ports :
         \E r \in ToNFTables(g).ranges : r[1] = f[1] /\ r[2] <= f[2] /\ f[2] <= r[3]} = RangesCover
  BY <1>2 DEF RangesCover
<1> QED
  BY <1>1, <1>3 DEF Accepts

LEMMA AcceptsExactlyHolds == OutputState => AcceptsExactly
<1> SUFFICES ASSUME OutputState, stage = "done" PROVE
      /\ DOMAIN files = {g \in {Group[k] : k \in Keys} \ {NoGroup} : FlowsOf(g) # {}}
      /\ \A g \in DOMAIN files :
           Accepts(files[g]) = {f \in FlowsOf(g) : f[1] \in Filtered} \cup RangesCover
  BY DEF AcceptsExactly
<1>1. /\ pc = "done" /\ squashPc = "done"
      /\ DOMAIN files = {Group[k] : k \in KeysOf(res)} \ {NoGroup}
  <2>1. pools = {}
    BY DEF OutputState
  <2> QED
    BY <2>1, WrittenLast
<1>2. KeysOf(res) \subseteq Keys
  <2>1. res \in Seq(Entry)
    BY DEF OutputState, IInv, TypeOK
  <2> QED
    BY <2>1, EntryKeys DEF KeysOf
<1>3. ASSUME NEW g
      PROVE  FlowsOf(g) # {} <=> \E k \in KeysOf(res) : Group[k] = g
  <2>1. FlowsOf(g) = {<<Protocol[k], Port[k]>> : k \in {j \in KeysOf(res) : Group[j] = g}}
    BY <1>1, MergedFlows DEF FlowsOfGroup
  <2> QED
    BY <2>1
<1>4. DOMAIN files = {g \in {Group[k] : k \in Keys} \ {NoGroup} : FlowsOf(g) # {}}
  BY <1>1, <1>2, <1>3
<1>5. ASSUME NEW g \in DOMAIN files PROVE files[g] = ToNFTables(g)
  BY DEF OutputState
<1> QED
  BY <1>1, <1>4, <1>5, RulesOfGroup

-----------------------------------------------------------------------------
(* Inverted ranges                                                         *)

\* The given and the squashed ranges are ranges.
LEMMA SquashedTypes ==
  ASSUME OutputState
  PROVE  /\ merged \in Seq(DynamicRange) /\ input \in Seq(DynamicRange)
         /\ Range(merged) = {merged[i] : i \in 1..Len(merged)}
         /\ Range(input) = {input[i] : i \in 1..Len(input)}
         /\ \A i \in 1..Len(merged) :
              merged[i].class \in Int /\ merged[i].minPort \in Int /\ merged[i].maxPort \in Int
         /\ \A r \in Range(input) : r.class \in Int /\ r.minPort \in Int /\ r.maxPort \in Int
<1>1. merged \in Seq(DynamicRange) /\ input \in Seq(DynamicRange)
  BY DEF OutputState, SquashInv, SquashTypeOK
<1>2. /\ Range(merged) = {merged[i] : i \in 1..Len(merged)}
      /\ Range(input) = {input[i] : i \in 1..Len(input)}
  BY <1>1, RangeOfSeq
<1>3. /\ \A i \in 1..Len(merged) : merged[i] \in DynamicRange
      /\ \A r \in Range(input) : r \in DynamicRange
  BY <1>1, <1>2
<1> QED
  BY <1>1, <1>2, <1>3, RangeFields

\* In a list that is sorted and lies apart no range reaches up to another that
\* begins after it.
LEMMA NotApart ==
  ASSUME NEW s, Len(s) \in Nat, Apart(s), IsSorted(s),
         NEW i \in 1..Len(s), NEW j \in 1..Len(s), s[i].class = s[j].class,
         s[i].minPort \in Int, s[i].maxPort \in Int, s[j].minPort \in Int, s[j].maxPort \in Int,
         s[j].minPort < s[i].minPort, s[i].minPort <= s[j].maxPort + 1,
         s[i].class \in Int
  PROVE  FALSE
<1>1. i # j
  OBVIOUS
<1>2. CASE i < j
  <2>1. Before(s[i], s[j])
    BY <1>2 DEF IsSorted
  <2> QED
    BY <2>1 DEF Before
<1>3. CASE j < i
  <2>1. s[j].maxPort + 1 < s[i].minPort
    BY <1>3 DEF Apart
  <2> QED
    BY <2>1
<1> QED
  BY <1>1, <1>2, <1>3

\* An inverted range of the result begins with an inverted one that was given,
\* and that none swallows.
LEMMA InvertedIsGiven ==
  ASSUME OutputState, squashPc = "done",
         NEW i \in 1..Len(merged), merged[i].minPort > merged[i].maxPort
  PROVE  \E r \in Range(input) :
           r.class = merged[i].class /\ r.minPort > r.maxPort /\ ~IsSwallowed(r)
<1>1. /\ Places(Range(input), merged) /\ IsSorted(merged) /\ Apart(merged) /\ Len(merged) \in Nat
  BY SquashedTypes DEF OutputState, PlacesInv, SquashInv
<1>2. PICK r \in Range(input) :
        r.class = merged[i].class /\ r.minPort = merged[i].minPort /\ r.maxPort <= merged[i].maxPort
  BY <1>1 DEF Places
<1>3. /\ r.minPort \in Int /\ r.maxPort \in Int
      /\ merged[i].class \in Int /\ merged[i].minPort \in Int /\ merged[i].maxPort \in Int
  BY SquashedTypes
<1>4. r.minPort > r.maxPort
  BY <1>2, <1>3
<1>5. ASSUME IsSwallowed(r) PROVE FALSE
  <2>1. PICK q \in Range(input) :
          q.class = r.class /\ q.minPort < r.minPort /\ r.minPort <= q.maxPort + 1
    BY <1>5 DEF IsSwallowed
  <2>2. PICK j \in 1..Len(merged) : Inside(q, merged[j])
    BY <1>1 DEF Places
  <2>3. /\ q.minPort \in Int /\ q.maxPort \in Int
        /\ merged[j].minPort \in Int /\ merged[j].maxPort \in Int
    BY SquashedTypes
  <2>4. q.class = merged[j].class /\ merged[j].minPort <= q.minPort /\ q.maxPort <= merged[j].maxPort
    BY <2>2 DEF Inside
  <2>5. /\ merged[i].class = merged[j].class
        /\ merged[j].minPort < merged[i].minPort
        /\ merged[i].minPort <= merged[j].maxPort + 1
    BY <1>2, <1>3, <2>1, <2>3, <2>4, SMTT(30)
  <2> QED
    BY <1>1, <1>3, <2>3, <2>5, NotApart
<1> QED
  BY <1>2, <1>4, <1>5

\* Where no range of its class stayed inverted, an inverted range had a port
\* beside its lower bound that a range covers.
LEMMA InvertedIsBesideCovered ==
  ASSUME OutputState, squashPc = "done",
         NEW r \in Range(input), r.minPort > r.maxPort,
         \A i \in 1..Len(merged) : merged[i].class = r.class => merged[i].minPort <= merged[i].maxPort
  PROVE  Covered(input, r.class, r.minPort - 1) \/ Covered(input, r.class, r.minPort)
<1>1. Places(Range(input), merged) /\ SameCoverage(merged, input)
  BY DEF OutputState, PlacesInv, SquashInv
<1>2. PICK i \in 1..Len(merged) :
        Inside(r, merged[i]) /\ (merged[i].minPort = r.minPort \/ r.minPort <= merged[i].maxPort + 1)
  BY <1>1 DEF Places
<1>3. /\ r.minPort \in Int /\ r.maxPort \in Int
      /\ merged[i].minPort \in Int /\ merged[i].maxPort \in Int
  BY SquashedTypes
<1>4. r.class = merged[i].class /\ merged[i].minPort <= r.minPort
  BY <1>2 DEF Inside
<1>5. merged[i].minPort <= merged[i].maxPort
  BY <1>4
<1>6. \/ merged[i].minPort <= r.minPort - 1 /\ r.minPort - 1 <= merged[i].maxPort
      \/ merged[i].minPort <= r.minPort /\ r.minPort <= merged[i].maxPort
  BY <1>2, <1>3, <1>4, <1>5
<1>7. Covered(merged, r.class, r.minPort - 1) \/ Covered(merged, r.class, r.minPort)
  BY <1>4, <1>6 DEF Covered, Covers
<1>8. r.class \in Classes /\ r.minPort - 1 \in Ports /\ r.minPort \in Ports
  <2>1. PICK k \in 1..Len(input) : r = input[k]
    BY SquashedTypes
  <2>2. r.class \in Classes
    <3>1. r \in DynamicRange
      BY <2>1, SquashedTypes
    <3> QED
      BY <3>1 DEF DynamicRange
  <2>3. {r.minPort - 1, r.minPort} \subseteq Ports
    BY <2>1, PortsOfRangesAssumption DEF OutputState
  <2> QED
    BY <2>2, <2>3
<1> QED
  BY <1>1, <1>7, <1>8 DEF SameCoverage

\* Squash leaves no protocol without a range.
LEMMA BothProtocols ==
  ASSUME OutputState, squashPc = "done", NEW g, NEW p \in Filtered
  PROVE  \E r \in ToNFTables(g).ranges : r[1] = p
<1>1. PICK k \in 1..Len(input) : RangeProtocol[input[k].class] = p
  BY NodePortsAssumption DEF OutputState
<1>2. Places(Range(input), merged) /\ input[k] \in Range(input)
  BY SquashedTypes DEF OutputState, PlacesInv
<1>3. PICK i \in 1..Len(merged) : Inside(input[k], merged[i])
  BY <1>2 DEF Places
<1>4. Printed(merged[i])[1] = p
  BY <1>1, <1>3 DEF Printed, Inside
<1>5. merged[i] \in Range(merged)
  BY SquashedTypes
<1> QED
  BY <1>4, <1>5 DEF ToNFTables

LEMMA RulesLoadHolds == OutputState => RulesLoad
<1> SUFFICES ASSUME OutputState, NEW g \in DOMAIN files
             PROVE  /\ (\A r \in InvertedRanges : IsSwallowed(r)) => Loads(files[g])
                    /\ Loads(files[g]) =>
                         \A r \in InvertedRanges :
                           Covered(input, r.class, r.minPort - 1) \/ Covered(input, r.class, r.minPort)
  BY DEF RulesLoad
<1>1. squashPc = "done" /\ files[g] = ToNFTables(g)
  BY FilesLast
<1>2. ToNFTables(g).ranges = {r \in {Printed(x) : x \in Range(merged)} : r[1] \in Filtered}
  BY DEF ToNFTables
<1>3. ASSUME \A r \in InvertedRanges : IsSwallowed(r),
             NEW t \in ToNFTables(g).ranges
      PROVE  t[2] <= t[3]
  <2>1. PICK i \in 1..Len(merged) : t = Printed(merged[i])
    BY <1>2, SquashedTypes
  <2>2. RangeProtocol[merged[i].class] \in Filtered
    BY <1>2, <2>1 DEF Printed
  <2>3. merged[i].minPort \in Int /\ merged[i].maxPort \in Int
    BY SquashedTypes
  <2>4. ~(merged[i].minPort > merged[i].maxPort)
    BY <1>1, <1>3, <2>2, InvertedIsGiven DEF InvertedRanges
  <2> QED
    BY <2>1, <2>3, <2>4 DEF Printed
<1>4. (\A r \in InvertedRanges : IsSwallowed(r)) => Loads(files[g])
  BY <1>1, <1>3, BothProtocols DEF Loads
<1>5. ASSUME Loads(files[g]), NEW r \in InvertedRanges
      PROVE  Covered(input, r.class, r.minPort - 1) \/ Covered(input, r.class, r.minPort)
  <2>1. r \in Range(input) /\ r.minPort > r.maxPort /\ RangeProtocol[r.class] \in Filtered
    BY DEF InvertedRanges
  <2>2. ASSUME NEW i \in 1..Len(merged), merged[i].class = r.class
        PROVE  merged[i].minPort <= merged[i].maxPort
    <3>1. Printed(merged[i])[1] \in Filtered /\ merged[i] \in Range(merged)
      BY <2>1, <2>2, SquashedTypes DEF Printed
    <3>2. Printed(merged[i]) \in ToNFTables(g).ranges
      BY <1>2, <3>1
    <3>3. Printed(merged[i])[2] <= Printed(merged[i])[3]
      BY <1>1, <1>5, <3>2 DEF Loads
    <3> QED
      BY <3>3 DEF Printed
  <2> QED
    BY <1>1, <2>1, <2>2, InvertedIsBesideCovered
<1> QED
  BY <1>4, <1>5

-----------------------------------------------------------------------------
(* The steps                                                               *)

LEMMA InitialOutput == OutputInit => OutputState
  BY InitialMerge, SquashInitially DEF OutputInit, OutputState, Init, SquashInit, PlacesInv

\* What Merge is given it leaves alone, and it returns a matrix that is alone.
LEMMA MergeOutputStep ==
  ASSUME OutputState, MergeMatrices
  PROVE  OutputState'
<1>1. IInv'
  BY MergeStep DEF OutputState, MergeMatrices
<1>2. UNCHANGED <<m, other>> /\ pc # "done"
  BY DEF MergeMatrices, Next, ReturnGiven, Concatenate, KeepFirst, DropRepeated, Sort
<1>3. /\ stage = "merge" /\ stage' = IF pc' = "done" THEN "squash" ELSE stage
      /\ UNCHANGED <<squashVars, pools, files>>
  BY DEF MergeMatrices
<1>4. pc' = "done" /\ other' = Nil => res' = m'
  BY <1>2 DEF OutputState, IInv, LoopInv, MergeMatrices, Next, ReturnGiven, Concatenate,
              KeepFirst, DropRepeated, Sort
<1>5. SquashInv' /\ PlacesInv' /\ input' = input
  BY <1>3, SquashStep DEF OutputState, squashVars
<1>6. files' = [g \in {} |-> {}] /\ stage' \in {"merge", "squash"}
  BY <1>3 DEF OutputState
<1>7. DOMAIN files' = {}
  BY <1>6
<1>8. (stage' = "merge") <=> (pc' # "done")
  BY <1>3
<1> QED
  BY <1>1, <1>2, <1>3, <1>4, <1>5, <1>6, <1>7, <1>8 DEF OutputState

LEMMA SquashOutputStep ==
  ASSUME OutputState, SquashRanges
  PROVE  OutputState'
<1>1. stage = "squash" /\ UNCHANGED <<vars, outVars>> /\ SquashNext
  BY DEF SquashRanges
<1>2. SquashInv' /\ PlacesInv'
  BY <1>1, SquashStep DEF OutputState
<1>3. input' = input
  BY <1>1 DEF SquashNext, ReturnEarly, SortRanges, MergeIntoLast, AppendNext, ReturnSquashed
<1>4. IInv' /\ UNCHANGED <<m, other, res, pc>>
  BY <1>1, MergeStep DEF OutputState, vars
<1>5. UNCHANGED <<stage, pools, files>> /\ DOMAIN files' = {}
  BY <1>1 DEF OutputState, outVars
<1> QED
  BY <1>1, <1>2, <1>3, <1>4, <1>5 DEF OutputState

\* The rendering of a file depends on what no longer changes.
LEMMA RenderStays ==
  ASSUME UNCHANGED <<vars, squashVars>>
  PROVE  \A g : ToNFTables(g)' = ToNFTables(g)
<1>1. UNCHANGED <<res, merged>>
  BY DEF vars, squashVars
<1> QED
  BY <1>1 DEF ToNFTables, FlowsOfGroup, KeysOf, Printed, Filtered, Range

LEMMA OutputStep == OutputState /\ [OutputNext]_OutputVars => OutputState'
<1> SUFFICES ASSUME OutputState, [OutputNext]_OutputVars PROVE OutputState'
  OBVIOUS
<1>1. CASE MergeMatrices
  BY <1>1, MergeOutputStep
<1>2. CASE SquashRanges
  BY <1>2, SquashOutputStep
<1>3. CASE ~MergeMatrices /\ ~SquashRanges
  <2>1. UNCHANGED <<vars, squashVars>>
    BY <1>3 DEF OutputNext, SeparateMatrixByGroup, WriteMatrixToFile, ReturnWritten, OutputVars
  <2>2. IInv' /\ UNCHANGED <<m, other, res, pc>>
    BY <2>1, MergeStep DEF OutputState, vars
  <2>3. SquashInv' /\ PlacesInv' /\ UNCHANGED <<input, squashPc>>
    BY <2>1, SquashStep DEF OutputState, squashVars
  <2>4. \A g : ToNFTables(g)' = ToNFTables(g)
    BY <2>1, RenderStays
  <2>5. CASE SeparateMatrixByGroup
    <3>1. /\ stage = "squash" /\ squashPc = "done" /\ stage' = "write" /\ files' = files
          /\ pools' = {Group[k] : k \in KeysOf(res)} \ {NoGroup}
      BY <2>5 DEF SeparateMatrixByGroup
    <3>2. DOMAIN files' = {}
      BY <3>1 DEF OutputState
    <3> QED
      BY <2>2, <2>3, <3>1, <3>2 DEF OutputState
  <2>6. ASSUME NEW g \in pools, WriteMatrixToFile(g) PROVE OutputState'
    <3>1. stage = "write" /\ pc = "done" /\ squashPc = "done"
      BY <2>6 DEF OutputState, WriteMatrixToFile
    <3>2. CASE stage' = "failed" /\ UNCHANGED <<pools, files>>
      BY <2>2, <2>3, <2>4, <3>1, <3>2 DEF OutputState
    <3>3. ASSUME stage' = stage, pools' = pools \ {g},
                 files' = [h \in DOMAIN files \cup {g} |-> IF h = g THEN ToNFTables(g) ELSE files[h]]
          PROVE  OutputState'
      <4>1. /\ DOMAIN files' = DOMAIN files \cup {g}
            /\ files'[g] = ToNFTables(g)
            /\ \A h \in DOMAIN files \ {g} : files'[h] = files[h]
        BY <3>3
      <4>2. \A h \in DOMAIN files' : files'[h] = ToNFTables(h)'
        BY <2>4, <4>1 DEF OutputState
      <4>3. DOMAIN files' \cup pools' = {Group[k] : k \in KeysOf(res')} \ {NoGroup}
        BY <2>2, <2>6, <3>1, <3>3, <4>1 DEF OutputState
      <4> QED
        BY <2>2, <2>3, <3>1, <3>3, <4>2, <4>3 DEF OutputState
    <3> QED
      BY <2>6, <3>2, <3>3 DEF WriteMatrixToFile
  <2>7. CASE ReturnWritten
    <3>1. stage = "write" /\ pools = {} /\ stage' = "done" /\ UNCHANGED <<pools, files>>
      BY <2>7 DEF ReturnWritten
    <3> QED
      BY <2>2, <2>3, <2>4, <3>1 DEF OutputState
  <2>8. CASE UNCHANGED OutputVars
    <3>1. UNCHANGED <<stage, pools, files>>
      BY <2>8 DEF OutputVars, outVars
    <3> QED
      BY <2>2, <2>3, <2>4, <3>1 DEF OutputState
  <2> QED
    BY <1>3, <2>5, <2>6, <2>7, <2>8 DEF OutputNext
<1> QED
  BY <1>1, <1>2, <1>3

-----------------------------------------------------------------------------
(* The theorems                                                            *)

\* The invariant of writeMergedMatrix.
THEOREM Invariance == OutputSpec => []OutputInv
<1>1. OutputInit => OutputState
  BY InitialOutput
<1>2. OutputState /\ [OutputNext]_OutputVars => OutputState'
  BY OutputStep
<1>3. OutputState => OutputInv
  BY OutputInvParts, AcceptsExactlyHolds, RulesLoadHolds
<1> QED
  BY <1>1, <1>2, <1>3, PTL DEF OutputSpec

\* A run that ends has a file for each group of either matrix, and its rules
\* accept what either has for the group and what the ranges cover.
THEOREM FilesAcceptExactly == OutputSpec => []AcceptsExactly
<1>1. OutputInv => AcceptsExactly
  BY DEF OutputInv
<1> QED
  BY <1>1, Invariance, PTL

\* Which inverted ranges keep the files from loading: all files load if each
\* is folded into a range that begins before it, and one loads only if each
\* has a covered port at its lower bound or before it.
THEOREM FilesLoad == OutputSpec => []RulesLoad
<1>1. OutputInv => RulesLoad
  BY DEF OutputInv
<1> QED
  BY <1>1, Invariance, PTL

\* The merged matrix the files are made of is the one list of first entries.
THEOREM MergedOnce == OutputSpec => []DedupKept
<1>1. OutputInv => DedupKept
  BY DEF OutputInv, IInv, DedupKept
<1> QED
  BY <1>1, Invariance, PTL

=============================================================================
