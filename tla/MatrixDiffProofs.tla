-------------------------- MODULE MatrixDiffProofs --------------------------
(***************************************************************************)
(* Theorems about MatrixDiff, for matrices of any length over any keys:    *)
(* the three parts of the diff have the keys they are named after, and the *)
(* primary matrix can be read back from its lines.                         *)
(***************************************************************************)
EXTENDS MatrixDiff, SequenceTheorems, TLAPS

Elements(s) == {s[i] : i \in 1..Len(s)}

-----------------------------------------------------------------------------
(* Lists of entries                                                        *)

LEMMA EntryKeys ==
  ASSUME NEW e \in Entry
  PROVE  e.key \in Keys /\ e.key \in Int
<1>1. e.key \in Keys
  BY DEF Entry
<1> QED
  BY <1>1, KeysAssumption

\* Contains asks for the key alone.
LEMMA ContainsKey ==
  ASSUME NEW s, NEW e
  PROVE  Contains(s, e) <=> e.key \in KeysOf(s)
BY DEF Contains, Equals, KeysOf

\* A list with an entry more.
LEMMA AppendElements ==
  ASSUME NEW s \in Seq(Entry), NEW e \in Entry
  PROVE  /\ Append(s, e) \in Seq(Entry)
         /\ Append(s, e) = s \o <<e>>
         /\ Len(s) \in Nat /\ Len(Append(s, e)) = Len(s) + 1
         /\ \A i \in 1..Len(s) : Append(s, e)[i] = s[i]
         /\ Append(s, e)[Len(s) + 1] = e
         /\ Elements(Append(s, e)) = Elements(s) \cup {e}
         /\ KeysOf(Append(s, e)) = KeysOf(s) \cup {e.key}
<1> DEFINE t == Append(s, e)
<1>1. /\ t \in Seq(Entry) /\ Len(s) \in Nat /\ Len(t) = Len(s) + 1
      /\ \A i \in 1..Len(s) : t[i] = s[i]
      /\ t[Len(s) + 1] = e
  OBVIOUS
<1>2. t = s \o <<e>>
  OBVIOUS
<1> HIDE DEF t
<1>3. \A i \in 1..Len(t) : i \in 1..Len(s) \/ i = Len(s) + 1
  BY <1>1
<1>4. /\ \A i \in 1..Len(s) : i \in 1..Len(t)
      /\ Len(s) + 1 \in 1..Len(t)
  BY <1>1
<1>5. Elements(t) = Elements(s) \cup {e}
  BY <1>1, <1>3, <1>4 DEF Elements
<1>6. KeysOf(t) = KeysOf(s) \cup {e.key}
  BY <1>1, <1>3, <1>4 DEF KeysOf
<1> QED
  BY <1>1, <1>2, <1>5, <1>6 DEF t

\* An entry more is a first entry exactly if its key is new, and the first
\* entries stay what they are.
LEMMA AppendFirsts ==
  ASSUME NEW s \in Seq(Entry), NEW e \in Entry
  PROVE  Firsts(Append(s, e)) =
           Firsts(s) \cup (IF e.key \in KeysOf(s) THEN {} ELSE {e})
<1> DEFINE t == Append(s, e)
           IsFirst(l, j) == \A k \in 1..j - 1 : ~Equals(l[k], l[j])
           New == IF e.key \in KeysOf(s) THEN {} ELSE {e}
<1>1. /\ Len(s) \in Nat /\ Len(t) = Len(s) + 1
      /\ \A i \in 1..Len(s) : t[i] = s[i]
      /\ t[Len(s) + 1] = e
  BY AppendElements
<1> HIDE DEF t
<1>2. ASSUME NEW j \in 1..Len(s) PROVE IsFirst(t, j) <=> IsFirst(s, j)
  <2>1. \A k \in 1..j - 1 : k \in 1..Len(s) /\ t[k] = s[k]
    BY <1>1
  <2>2. t[j] = s[j]
    BY <1>1
  <2> QED
    BY <2>1, <2>2
<1>3. IsFirst(t, Len(s) + 1) <=> e.key \notin KeysOf(s)
  <2>1. (Len(s) + 1) - 1 = Len(s)
    BY <1>1
  <2>2. IsFirst(t, Len(s) + 1) <=> \A k \in 1..Len(s) : ~Equals(s[k], e)
    BY <1>1, <2>1
  <2> QED
    BY <2>2 DEF Equals, KeysOf
<1>4. ASSUME NEW x PROVE x \in Firsts(t) <=> \E j \in 1..Len(t) : x = t[j] /\ IsFirst(t, j)
  BY DEF Firsts
<1>5. ASSUME NEW x PROVE x \in Firsts(s) <=> \E j \in 1..Len(s) : x = s[j] /\ IsFirst(s, j)
  BY DEF Firsts
<1>6. \A j \in 1..Len(t) : j \in 1..Len(s) \/ j = Len(s) + 1
  BY <1>1
<1>7. \A j \in 1..Len(s) : j \in 1..Len(t)
  BY <1>1
<1>8. Len(s) + 1 \in 1..Len(t)
  BY <1>1
<1> HIDE DEF IsFirst
<1>9. ASSUME NEW x PROVE x \in Firsts(t) <=> x \in Firsts(s) \cup New
  <2>1. x \in Firsts(t) <=>
          (\E j \in 1..Len(s) : x = t[j] /\ IsFirst(t, j)) \/ (x = t[Len(s) + 1] /\ IsFirst(t, Len(s) + 1))
    BY <1>4, <1>6, <1>7, <1>8
  <2>2. (\E j \in 1..Len(s) : x = t[j] /\ IsFirst(t, j)) <=> x \in Firsts(s)
    BY <1>1, <1>2, <1>5
  <2> QED
    BY <1>1, <1>3, <2>1, <2>2
<1> QED
  BY <1>9 DEF t

LEMMA AppendKeepsFirsts ==
  ASSUME NEW s \in Seq(Entry), NEW e \in Entry, KeysIn(Firsts(s)) = KeysOf(s)
  PROVE  KeysIn(Firsts(Append(s, e))) = KeysOf(Append(s, e))
<1>1. KeysIn(Firsts(Append(s, e))) =
        KeysIn(Firsts(s)) \cup KeysIn(IF e.key \in KeysOf(s) THEN {} ELSE {e})
  BY AppendFirsts DEF KeysIn
<1>2. KeysOf(Append(s, e)) = KeysOf(s) \cup {e.key}
  BY AppendElements
<1> QED
  BY <1>1, <1>2 DEF KeysIn

\* What stands in a list is in it.
LEMMA FirstsAreElements ==
  ASSUME NEW s \in Seq(Entry)
  PROVE  Firsts(s) \subseteq Elements(s) /\ Elements(s) \subseteq Entry
<1>1. Elements(s) \subseteq Entry
  BY DEF Elements
<1> QED
  BY <1>1 DEF Firsts, Elements

\* The beginning of a list, and the entry after it.
LEMMA Prefixes ==
  ASSUME NEW s \in Seq(Entry)
  PROVE  /\ SubSeq(s, 1, 0) = <<>>
         /\ SubSeq(s, 1, Len(s)) = s
         /\ \A n \in 1..Len(s) :
              /\ SubSeq(s, 1, n - 1) \in Seq(Entry)
              /\ SubSeq(s, 1, n) = SubSeq(s, 1, n - 1) \o <<s[n]>>
<1>1. SubSeq(s, 1, 0) = <<>>
  BY SubSeqEmpty
<1>2. SubSeq(s, 1, Len(s)) = s
  BY SubSeqFull
<1>3. ASSUME NEW n \in 1..Len(s)
      PROVE  /\ SubSeq(s, 1, n - 1) \in Seq(Entry)
             /\ SubSeq(s, 1, n) = SubSeq(s, 1, n - 1) \o <<s[n]>>
  <2>1. n \in Int /\ n - 1 \in Int /\ 1 \in 1..Len(s) /\ n \in 1..Len(s)
    BY LenProperties
  <2>2. \A i \in 1..n - 1 : s[i] \in Entry
    BY <2>1, ElementOfSeq, LenProperties
  <2>3. SubSeq(s, 1, n - 1) \in Seq(Entry)
    BY <2>1, <2>2, SubSeqProperties
  <2>4. n \in 1..Len(s) /\ 1 \in 1..Len(s)
    BY <2>1
  <2>5. SubSeq(s, 1, n) = SubSeq(s, 1, n - 1) \o <<s[n]>>
    BY <2>4, SubSeqRecursiveSecond
  <2> QED
    BY <2>3, <2>5
<1> QED
  BY <1>1, <1>2, <1>3

LEMMA Joined ==
  ASSUME NEW s \in Seq(Entry), NEW t \in Seq(Entry)
  PROVE  KeysOf(s \o t) = KeysOf(s) \cup KeysOf(t)
<1> DEFINE u == s \o t
<1>1. /\ Len(s) \in Nat /\ Len(t) \in Nat /\ Len(u) = Len(s) + Len(t)
      /\ \A i \in 1..Len(u) : u[i] = IF i <= Len(s) THEN s[i] ELSE t[i - Len(s)]
  OBVIOUS
<1> HIDE DEF u
<1>2. \A i \in 1..Len(s) : i \in 1..Len(u) /\ u[i] = s[i]
  BY <1>1
<1>3. ASSUME NEW i \in 1..Len(t) PROVE i + Len(s) \in 1..Len(u) /\ u[i + Len(s)] = t[i]
  <2>1. /\ i + Len(s) \in 1..Len(u)
        /\ ~(i + Len(s) <= Len(s))
        /\ (i + Len(s)) - Len(s) = i
    BY <1>1
  <2> QED
    BY <1>1, <2>1
<1>4. ASSUME NEW i \in 1..Len(u)
      PROVE  (\E j \in 1..Len(s) : u[i] = s[j]) \/ (\E j \in 1..Len(t) : u[i] = t[j])
  <2>1. CASE i <= Len(s)
    BY <1>1, <2>1
  <2>2. CASE i > Len(s)
    <3>1. i - Len(s) \in 1..Len(t) /\ u[i] = t[i - Len(s)]
      BY <1>1, <2>2
    <3> QED
      BY <3>1
  <2> QED
    BY <1>1, <2>1, <2>2
<1>5. KeysOf(u) \subseteq KeysOf(s) \cup KeysOf(t)
  BY <1>4 DEF KeysOf
<1>6. KeysOf(s) \subseteq KeysOf(u)
  BY <1>2 DEF KeysOf
<1>7. KeysOf(t) \subseteq KeysOf(u)
  BY <1>3 DEF KeysOf
<1> QED
  BY <1>5, <1>6, <1>7 DEF u

LEMMA Associates ==
  ASSUME NEW s \in Seq(Entry), NEW t \in Seq(Entry), NEW u \in Seq(Entry)
  PROVE  (s \o t) \o u = s \o (t \o u)
BY ConcatAssociative

-----------------------------------------------------------------------------
(* The invariant                                                           *)

LEMMA MatrixTypes ==
  ASSUME NEW m \in Matrices
  PROVE  m \in Seq(Entry) /\ Len(m) \in Nat /\ Ascending(m)
BY MatricesAssumption

LEMMA Initially == Init => IInv
<1> SUFFICES ASSUME Init PROVE IInv
  OBVIOUS
<1> USE DEF Init
<1>1. primary \in Seq(Entry) /\ secondary \in Seq(Entry) /\ Len(primary) \in Nat
  BY MatrixTypes
<1>2. Elements(ports) = {} /\ DOMAIN status = {}
  BY DEF Elements
<1>3. TypeOK
  <2>1. status \in [{} -> Status]
    BY DEF Status
  <2>2. status \in UNION {[E -> Status] : E \in SUBSET Entry}
    BY <2>1
  <2>3. ports \in Seq(Entry) /\ kept \in SUBSET Entry /\ next \in Nat
    OBVIOUS
  <2> QED
    BY <2>2, <2>3 DEF TypeOK
<1>4. ProgressInv
  BY <1>1, Prefixes DEF ProgressInv
<1>5. StatusInv
  BY <1>2 DEF StatusInv, Elements
<1>6. FirstsInv
  BY DEF FirstsInv, KeysIn, Firsts, KeysOf
<1> QED
  BY <1>3, <1>4, <1>5, <1>6 DEF IInv

\* What a round does to the list and to the map of the statuses: it keeps the
\* invariant provided the status it sets is the one the entry deserves.
LEMMA Round ==
  ASSUME TypeOK, StatusInv, FirstsInv,
         NEW e \in Entry, NEW st \in Status, st = ExpectedStatus(e),
         ports' = Append(ports, e), SetStatus(e, st),
         UNCHANGED <<primary, secondary>>
  PROVE  /\ ports' \in Seq(Entry)
         /\ status' \in UNION {[E -> Status] : E \in SUBSET Entry}
         /\ StatusInv'
         /\ FirstsInv'
<1>1. ports \in Seq(Entry)
  BY DEF TypeOK
<1>2. ports' \in Seq(Entry) /\ Elements(ports') = Elements(ports) \cup {e}
  BY <1>1, AppendElements
<1>3. PICK E \in SUBSET Entry : status \in [E -> Status]
  BY DEF TypeOK
<1>4. DOMAIN status = E /\ E = Elements(ports)
  BY <1>3 DEF StatusInv, Elements
<1>5. /\ DOMAIN status' = E \cup {e}
      /\ status' \in [E \cup {e} -> Status]
      /\ \A x \in E \cup {e} : status'[x] = IF x = e THEN st ELSE status[x]
  BY <1>3, <1>4 DEF SetStatus
<1>6. \A x : ExpectedStatus(x)' = ExpectedStatus(x)
  BY DEF ExpectedStatus
<1>7. \A x \in E : status[x] = ExpectedStatus(x)
  BY <1>4 DEF StatusInv
<1>8. \A x \in DOMAIN status' : status'[x] = ExpectedStatus(x)'
  BY <1>5, <1>6, <1>7
<1>9. DOMAIN status' = Elements(ports')
  BY <1>2, <1>4, <1>5
<1>10. StatusInv'
  BY <1>8, <1>9 DEF StatusInv, Elements
<1>11. FirstsInv'
  BY <1>1, AppendKeepsFirsts DEF FirstsInv
<1>12. status' \in UNION {[F -> Status] : F \in SUBSET Entry}
  BY <1>5
<1> QED
  BY <1>2, <1>10, <1>11, <1>12

\* The parts of the invariant look at what they name alone.
LEMMA SameLists ==
  ASSUME StatusInv, FirstsInv, UNCHANGED <<primary, secondary, ports, status>>
  PROVE  StatusInv' /\ FirstsInv'
BY DEF StatusInv, FirstsInv, ExpectedStatus

LEMMA PrimaryStep ==
  ASSUME IInv, VisitPrimary
  PROVE  IInv'
<1> USE DEF IInv
<1>1. /\ primary \in Matrices /\ secondary \in Matrices
      /\ primary \in Seq(Entry) /\ secondary \in Seq(Entry)
      /\ ports \in Seq(Entry)
      /\ Len(primary) \in Nat /\ Len(secondary) \in Nat
      /\ UNCHANGED <<primary, secondary, kept>>
  BY MatrixTypes DEF TypeOK, VisitPrimary, Visit
<1>2. next \in 1..Len(primary) + 1 /\ ports = SubSeq(primary, 1, next - 1) /\ pc = "primary"
  BY DEF VisitPrimary, ProgressInv
<1>3. CASE next <= Len(primary)
  <2> DEFINE e == primary[next]
             st == IF Contains(secondary, e) THEN "both" ELSE "uniquePrimary"
  <2>1. /\ next \in 1..Len(primary)
        /\ next + 1 \in 1..Len(primary) + 1 /\ (next + 1) - 1 = next /\ next + 1 \in Nat
    BY <1>1, <1>2, <1>3
  <2>2. e \in Entry /\ st \in Status
    BY <1>1, <2>1, ElementOfSeq DEF Status
  <2>3. ports' = Append(ports, e) /\ SetStatus(e, st) /\ next' = next + 1 /\ pc' = pc
    BY <1>3 DEF VisitPrimary, Visit
  <2>4. Contains(primary, e)
    BY <2>1 DEF Contains, Equals
  <2>5. st = ExpectedStatus(e)
    BY <2>4 DEF ExpectedStatus
  <2> HIDE DEF st
  <2>6. /\ ports' \in Seq(Entry)
        /\ status' \in UNION {[E -> Status] : E \in SUBSET Entry}
        /\ StatusInv'
        /\ FirstsInv'
    BY <1>1, <2>2, <2>3, <2>5, Round
  <2>7. TypeOK'
    BY <1>1, <1>2, <2>1, <2>3, <2>6 DEF TypeOK
  <2>8. ports' = SubSeq(primary, 1, next)
    <3>1. Append(ports, e) = ports \o <<e>>
      BY <1>1, <2>2, AppendElements
    <3> QED
      BY <1>1, <1>2, <2>1, <2>3, <3>1, Prefixes
  <2>9. ProgressInv'
    BY <1>1, <1>2, <2>1, <2>3, <2>8 DEF ProgressInv
  <2> QED
    BY <2>6, <2>7, <2>9
<1>4. CASE ~(next <= Len(primary))
  <2>1. next' = 1 /\ pc' = "secondary" /\ UNCHANGED <<ports, status>>
    BY <1>4 DEF VisitPrimary, Visit
  <2>2. StatusInv' /\ FirstsInv'
    BY <1>1, <2>1, SameLists
  <2>3. TypeOK'
    BY <1>1, <2>1 DEF TypeOK
  <2>4. next - 1 = Len(primary)
    BY <1>1, <1>2, <1>4
  <2>5. ports = primary
    BY <1>1, <1>2, <2>4, Prefixes
  <2>6. primary \o SubSeq(secondary, 1, 1 - 1) = primary
    BY <1>1, Prefixes, ConcatEmptySeq
  <2>7. next' \in 1..Len(secondary) + 1 /\ ports' = primary \o SubSeq(secondary, 1, next' - 1)
    BY <1>1, <2>1, <2>5, <2>6
  <2>8. ProgressInv'
    BY <1>1, <2>1, <2>7 DEF ProgressInv
  <2> QED
    BY <2>2, <2>3, <2>8
<1> QED
  BY <1>3, <1>4

LEMMA SecondaryStep ==
  ASSUME IInv, VisitSecondary
  PROVE  IInv'
<1> USE DEF IInv
<1>1. /\ primary \in Matrices /\ secondary \in Matrices
      /\ primary \in Seq(Entry) /\ secondary \in Seq(Entry)
      /\ ports \in Seq(Entry)
      /\ Len(primary) \in Nat /\ Len(secondary) \in Nat
      /\ UNCHANGED <<primary, secondary, kept>>
  BY MatrixTypes DEF TypeOK, VisitSecondary, Visit
<1>2. /\ next \in 1..Len(secondary) + 1
      /\ ports = primary \o SubSeq(secondary, 1, next - 1)
      /\ pc = "secondary"
  BY DEF VisitSecondary, ProgressInv
<1>3. CASE next <= Len(secondary)
  <2> DEFINE e == secondary[next]
             st == IF Contains(primary, e) THEN "both" ELSE "uniqueSecondary"
             done == SubSeq(secondary, 1, next - 1)
  <2>1. /\ next \in 1..Len(secondary)
        /\ next + 1 \in 1..Len(secondary) + 1 /\ (next + 1) - 1 = next /\ next + 1 \in Nat
    BY <1>1, <1>2, <1>3
  <2>2. e \in Entry /\ st \in Status
    BY <1>1, <2>1, ElementOfSeq DEF Status
  <2>3. ports' = Append(ports, e) /\ SetStatus(e, st) /\ next' = next + 1 /\ pc' = pc
    BY <1>3 DEF VisitSecondary, Visit
  <2>4. Contains(secondary, e)
    BY <2>1 DEF Contains, Equals
  <2>5. st = ExpectedStatus(e)
    BY <2>4 DEF ExpectedStatus
  <2> HIDE DEF st
  <2>6. /\ ports' \in Seq(Entry)
        /\ status' \in UNION {[E -> Status] : E \in SUBSET Entry}
        /\ StatusInv'
        /\ FirstsInv'
    BY <1>1, <2>2, <2>3, <2>5, Round
  <2>7. TypeOK'
    BY <1>1, <1>2, <2>1, <2>3, <2>6 DEF TypeOK
  <2>8. ports' = primary \o SubSeq(secondary, 1, next)
    <3>1. Append(ports, e) = ports \o <<e>>
      BY <1>1, <2>2, AppendElements
    <3>2. done \in Seq(Entry) /\ SubSeq(secondary, 1, next) = done \o <<e>>
      BY <1>1, <2>1, Prefixes
    <3>3. <<e>> \in Seq(Entry)
      BY <2>2
    <3>4. (primary \o done) \o <<e>> = primary \o (done \o <<e>>)
      <4> HIDE DEF done, e
      <4> QED
        BY <1>1, <3>2, <3>3, Associates, SMTT(30)
    <3> QED
      BY <1>2, <2>3, <3>1, <3>2, <3>4
  <2>9. ProgressInv'
    BY <1>1, <1>2, <2>1, <2>3, <2>8 DEF ProgressInv
  <2> QED
    BY <2>6, <2>7, <2>9
<1>4. CASE ~(next <= Len(secondary))
  <2>1. next' = 1 /\ pc' = "dedup" /\ UNCHANGED <<ports, status>>
    BY <1>4 DEF VisitSecondary, Visit
  <2>2. StatusInv' /\ FirstsInv'
    BY <1>1, <2>1, SameLists
  <2>3. TypeOK'
    BY <1>1, <2>1 DEF TypeOK
  <2>4. next - 1 = Len(secondary)
    BY <1>1, <1>2, <1>4
  <2>5. ports = primary \o secondary
    BY <1>1, <1>2, <2>4, Prefixes
  <2>6. ProgressInv'
    BY <1>1, <2>1, <2>5 DEF ProgressInv
  <2> QED
    BY <2>2, <2>3, <2>6
<1> QED
  BY <1>3, <1>4

LEMMA DedupStep ==
  ASSUME IInv, Deduplicate
  PROVE  IInv'
<1> USE DEF IInv, Deduplicate
<1>1. StatusInv' /\ FirstsInv'
  BY SameLists
<1>2. ports \in Seq(Entry) /\ kept' \in SUBSET Entry
  BY FirstsAreElements DEF TypeOK
<1>3. TypeOK'
  BY <1>2 DEF TypeOK
<1>4. ProgressInv'
  BY DEF ProgressInv
<1> QED
  BY <1>1, <1>3, <1>4

\* The combined list is the part of the two matrices that has been walked, and
\* every entry of it has the status that the two matrices give it: the loops
\* of Generate never overwrite a status with another.
THEOREM Invariance == Spec => []IInv
<1>1. Init => IInv
  BY Initially
<1>2. IInv /\ [Next]_vars => IInv'
  <2> SUFFICES ASSUME IInv, [Next]_vars PROVE IInv'
    OBVIOUS
  <2>1. CASE VisitPrimary
    BY <2>1, PrimaryStep
  <2>2. CASE VisitSecondary
    BY <2>2, SecondaryStep
  <2>3. CASE Deduplicate
    BY <2>3, DedupStep
  <2>4. CASE UNCHANGED vars
    <3>1. StatusInv' /\ FirstsInv'
      BY <2>4, SameLists DEF IInv, vars
    <3> QED
      BY <2>4, <3>1 DEF IInv, vars, TypeOK, ProgressInv
  <2> QED
    BY <2>1, <2>2, <2>3, <2>4 DEF Next
<1> QED
  BY <1>1, <1>2, PTL DEF Spec

-----------------------------------------------------------------------------
(* What the diff says                                                      *)

\* The entries that are left are in one of the matrices and have the status
\* the two matrices give them.
LEMMA Kept ==
  ASSUME IInv, pc = "done"
  PROVE  /\ kept \subseteq Entry
         /\ KeysIn(kept) = KeysOf(primary) \cup KeysOf(secondary)
         /\ \A e \in kept : StatusOf(e) = ExpectedStatus(e)
<1>1. /\ primary \in Seq(Entry) /\ secondary \in Seq(Entry) /\ ports \in Seq(Entry)
      /\ ports = primary \o secondary /\ kept = Firsts(ports)
  BY MatrixTypes DEF IInv, TypeOK, ProgressInv
<1>2. kept \subseteq Elements(ports) /\ Elements(ports) \subseteq Entry
  BY <1>1, FirstsAreElements
<1>3. \A e \in kept : StatusOf(e) = ExpectedStatus(e)
  BY <1>2 DEF IInv, StatusInv, StatusOf, Elements
<1>4. KeysIn(kept) = KeysOf(ports)
  BY <1>1 DEF IInv, FirstsInv
<1>5. KeysOf(ports) = KeysOf(primary) \cup KeysOf(secondary)
  BY <1>1, Joined
<1> QED
  BY <1>2, <1>3, <1>4, <1>5

\* The diff says of every flow whether both matrices have it or which of the
\* two has it alone, also where they describe the flow in different words.
THEOREM DiffIsExact == Spec => []DiffPartitions
<1>1. ASSUME IInv PROVE DiffPartitions
  <2> SUFFICES ASSUME pc = "done"
               PROVE  /\ KeysIn(GetUniquePrimary) = KeysOf(primary) \ KeysOf(secondary)
                      /\ KeysIn(GetUniqueSecondary) = KeysOf(secondary) \ KeysOf(primary)
                      /\ KeysIn(GetSharedEntries) = KeysOf(primary) \cap KeysOf(secondary)
    BY DEF DiffPartitions
  <2>1. \A e \in kept :
          StatusOf(e) = IF e.key \notin KeysOf(secondary) THEN "uniquePrimary"
                        ELSE IF e.key \notin KeysOf(primary) THEN "uniqueSecondary" ELSE "both"
    BY <1>1, Kept, ContainsKey DEF ExpectedStatus
  <2>2. \A k : k \in KeysOf(primary) \cup KeysOf(secondary) <=> \E e \in kept : k = e.key
    BY <1>1, Kept DEF KeysIn
  <2>3. ASSUME NEW S, NEW k PROVE k \in KeysIn(S) <=> \E e \in S : k = e.key
    BY DEF KeysIn
  <2>4. ASSUME NEW k
        PROVE  k \in KeysIn(GetUniquePrimary) <=> k \in KeysOf(primary) \ KeysOf(secondary)
    BY <2>1, <2>2, <2>3 DEF GetUniquePrimary
  <2>5. ASSUME NEW k
        PROVE  k \in KeysIn(GetUniqueSecondary) <=> k \in KeysOf(secondary) \ KeysOf(primary)
    BY <2>1, <2>2, <2>3 DEF GetUniqueSecondary
  <2>6. ASSUME NEW k
        PROVE  k \in KeysIn(GetSharedEntries) <=> k \in KeysOf(primary) \cap KeysOf(secondary)
    BY <2>1, <2>2, <2>3 DEF GetSharedEntries
  <2> QED
    BY <2>4, <2>5, <2>6
<1> QED
  BY <1>1, Invariance, PTL

\* The entries whose flow the primary matrix has are its own, word for word:
\* where the matrices differ the primary one is printed.
LEMMA FirstsOfJoined ==
  ASSUME NEW s \in Seq(Entry), NEW t \in Seq(Entry), Ascending(s)
  PROVE  {e \in Firsts(s \o t) : e.key \in KeysOf(s)} = Elements(s)
<1> DEFINE u == s \o t
           IsFirst(j) == \A k \in 1..j - 1 : ~Equals(u[k], u[j])
<1>1. /\ Len(s) \in Nat /\ Len(t) \in Nat /\ Len(u) = Len(s) + Len(t)
      /\ \A i \in 1..Len(s) : i \in 1..Len(u) /\ u[i] = s[i]
  OBVIOUS
<1> HIDE DEF u
<1>2. ASSUME NEW x PROVE x \in Firsts(u) <=> \E j \in 1..Len(u) : x = u[j] /\ IsFirst(j)
  BY DEF Firsts
<1>3. ASSUME NEW i \in 1..Len(s) PROVE IsFirst(i) /\ s[i].key \in KeysOf(s)
  <2>1. \A k \in 1..i - 1 : k \in 1..Len(s) /\ k < i /\ u[k] = s[k]
    BY <1>1
  <2>2. \A k \in 1..Len(s) : s[k] \in Entry /\ s[k].key \in Int
    BY EntryKeys
  <2>3. \A k \in 1..i - 1 : s[k].key < s[i].key
    BY <2>1 DEF Ascending
  <2>4. \A k \in 1..i - 1 : s[k].key # s[i].key
    BY <2>1, <2>2, <2>3
  <2> QED
    BY <1>1, <2>1, <2>4 DEF Equals, KeysOf
<1>4. ASSUME NEW j \in 1..Len(u), IsFirst(j), u[j].key \in KeysOf(s) PROVE j \in 1..Len(s)
  <2>1. PICK i \in 1..Len(s) : u[j].key = s[i].key
    BY <1>4 DEF KeysOf
  <2>2. Equals(u[i], u[j])
    BY <1>1, <2>1 DEF Equals
  <2>3. ~(i \in 1..j - 1)
    BY <1>4, <2>2
  <2> QED
    BY <1>1, <2>3
<1> HIDE DEF IsFirst
<1>5. ASSUME NEW e PROVE e \in Firsts(u) /\ e.key \in KeysOf(s) <=> e \in Elements(s)
  <2>1. e \in Elements(s) <=> \E i \in 1..Len(s) : e = s[i]
    BY DEF Elements
  <2>2. ASSUME e \in Firsts(u), e.key \in KeysOf(s) PROVE e \in Elements(s)
    BY <1>1, <1>2, <1>4, <2>1, <2>2
  <2>3. ASSUME e \in Elements(s) PROVE e \in Firsts(u) /\ e.key \in KeysOf(s)
    BY <1>1, <1>2, <1>3, <2>1, <2>3
  <2> QED
    BY <2>2, <2>3
<1> QED
  BY <1>5 DEF u

THEOREM DiffReadBackwards == Spec => []PrimaryRecoverable
<1>1. ASSUME IInv PROVE PrimaryRecoverable
  <2> SUFFICES ASSUME pc = "done"
               PROVE  GetSharedEntries \cup GetUniquePrimary = Elements(primary)
    BY DEF PrimaryRecoverable, Elements
  <2>1. /\ primary \in Seq(Entry) /\ secondary \in Seq(Entry) /\ Ascending(primary)
        /\ ports = primary \o secondary /\ kept = Firsts(ports)
    BY <1>1, MatrixTypes DEF IInv, TypeOK, ProgressInv
  <2>2. \A e \in kept :
          StatusOf(e) = IF e.key \notin KeysOf(secondary) THEN "uniquePrimary"
                        ELSE IF e.key \notin KeysOf(primary) THEN "uniqueSecondary" ELSE "both"
    BY <1>1, Kept, ContainsKey DEF ExpectedStatus
  <2>3. \A e \in kept : e.key \in KeysOf(primary) \cup KeysOf(secondary)
    BY <1>1, Kept DEF KeysIn
  <2>4. ASSUME NEW e \in kept
        PROVE  StatusOf(e) \in {"both", "uniquePrimary"} <=> e.key \in KeysOf(primary)
    BY <2>2, <2>3
  <2>5. GetSharedEntries \cup GetUniquePrimary = {e \in kept : e.key \in KeysOf(primary)}
    BY <2>4 DEF GetSharedEntries, GetUniquePrimary
  <2> QED
    BY <2>1, <2>5, FirstsOfJoined
<1> QED
  BY <1>1, Invariance, PTL

=============================================================================
