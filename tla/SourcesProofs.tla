--------------------------- MODULE SourcesProofs ----------------------------
(***************************************************************************)
(* Theorems about the two sources of matrices: MatrixCreation, the matrix  *)
(* of the endpoint slices, and SocketReport, the lines of ss on a node.    *)
(* They share what there is to prove of Selection: both keep some entries  *)
(* of a list, in their order.                                              *)
(***************************************************************************)
EXTENDS MatrixCreation, SocketReport, FiniteSetTheorems, WellFoundedInduction, SequenceTheorems,
        TLAPS

-----------------------------------------------------------------------------
(* Counting                                                                *)

Less == {p \in Nat \X Nat : p[1] < p[2]}

LEMMA Least ==
  ASSUME NEW T, T \subseteq Nat, T # {}
  PROVE  \E m \in T : \A k \in T : m <= k
<1>1. IsWellFoundedOn(OpToRel(<, Nat), Nat)
  BY NatLessThanWellFounded
<1>2. OpToRel(<, Nat) = Less
  BY DEF OpToRel, Less
<1>3. PICK m \in T : \A k \in T : ~(<<k, m>> \in Less)
  BY <1>1, <1>2, WFMin
<1>4. ASSUME NEW k \in T PROVE m <= k
  <2>1. k \in Nat /\ m \in Nat /\ (k < m => <<k, m>> \in Less)
    BY DEF Less
  <2>2. ~(k < m)
    BY <1>3, <2>1
  <2> QED
    BY <2>1, <2>2
<1>5. \A k \in T : m <= k
  BY <1>4
<1> QED
  BY <1>5

Countable(I) == /\ IsFiniteSet(I) /\ Cardinality(I) \in Nat
                /\ \E f \in [1..Cardinality(I) -> I] : Counts(f, I)

\* One more number, after the others.
LEMMA CountOneMore ==
  ASSUME NEW n \in Nat, NEW I \in SUBSET (1..n + 1), n + 1 \in I, Countable(I \ {n + 1})
  PROVE  Countable(I)
<1> DEFINE J == I \ {n + 1}
           c == Cardinality(J)
<1>1. IsFiniteSet(J) /\ c \in Nat
  BY DEF Countable
<1>2. PICK f \in [1..c -> J] : Counts(f, J)
  BY DEF Countable
<1>3. I = J \cup {n + 1} /\ n + 1 \notin J
  OBVIOUS
<1>4. IsFiniteSet(I) /\ Cardinality(I) = c + 1
  <2> HIDE DEF J
  <2>1. IsFiniteSet(J \cup {n + 1}) /\ Cardinality(J \cup {n + 1}) = c + 1
    BY <1>1, <1>3, FS_AddElement
  <2> QED
    BY <1>3, <2>1
<1> DEFINE g == [i \in 1..c + 1 |-> IF i = c + 1 THEN n + 1 ELSE f[i]]
<1>5. \A i \in 1..c + 1 : i = c + 1 \/ i \in 1..c
  BY <1>1
<1>6. \A k \in J : k \in Int /\ k < n + 1
  OBVIOUS
<1> HIDE DEF J, c
<1>7. /\ g \in [1..c + 1 -> I]
      /\ \A i \in 1..c : g[i] = f[i] /\ f[i] \in J /\ i \in 1..c + 1
      /\ c + 1 \in 1..c + 1 /\ g[c + 1] = n + 1
  BY <1>1, <1>2, <1>3, <1>5
<1> HIDE DEF g
<1>8. \A i, j \in 1..c + 1 : i < j => g[i] < g[j]
  <2> SUFFICES ASSUME NEW i \in 1..c + 1, NEW j \in 1..c + 1, i < j PROVE g[i] < g[j]
    OBVIOUS
  <2>1. i \in 1..c
    BY <1>1, <1>5
  <2>2. CASE j = c + 1
    BY <1>6, <1>7, <2>1, <2>2
  <2>3. CASE j \in 1..c
    BY <1>2, <1>7, <2>1, <2>3 DEF Counts
  <2> QED
    BY <1>5, <2>2, <2>3
<1>9. \A k \in I : \E i \in 1..c + 1 : g[i] = k
  <2>1. \A k \in J : \E i \in 1..c : f[i] = k
    BY <1>2 DEF Counts
  <2> QED
    BY <1>3, <1>7, <2>1
<1>10. Counts(g, I)
  BY <1>7, <1>8, <1>9 DEF Counts
<1>11. g \in [1..Cardinality(I) -> I]
  BY <1>4, <1>7
<1> QED
  BY <1>1, <1>4, <1>10, <1>11 DEF Countable

\* Every set of indices can be counted: by induction on the length of the
\* sequence, as there is no least one for which it cannot.
LEMMA AllCountable ==
  ASSUME NEW n \in Nat, NEW I \in SUBSET (1..n)
  PROVE  Countable(I)
<1> DEFINE T == {m \in Nat : \E J \in SUBSET (1..m) : ~Countable(J)}
<1>1. CASE T = {}
  BY <1>1
<1>2. CASE T # {}
  <2>1. PICK m \in T : \A k \in T : m <= k
    BY <1>2, Least
  <2>2. PICK J \in SUBSET (1..m) : ~Countable(J)
    BY <2>1
  <2>3. m # 0
    <3>1. SUFFICES ASSUME m = 0 PROVE FALSE
      OBVIOUS
    <3>2. J = {} /\ 1..0 = {}
      BY <3>1
    <3>3. IsFiniteSet(J) /\ Cardinality(J) = 0
      BY <3>2, FS_EmptySet
    <3>4. [i \in 1..0 |-> 0] \in [1..0 -> J] /\ Counts([i \in 1..0 |-> 0], J)
      BY <3>2 DEF Counts
    <3>5. \E f \in [1..Cardinality(J) -> J] : Counts(f, J)
      BY <3>3, <3>4
    <3>6. Cardinality(J) \in Nat
      BY <3>3
    <3>7. Countable(J)
      BY ONLY <3>3, <3>5, <3>6 DEF Countable
    <3> QED
      BY <2>2, <3>7
  <2>4. m - 1 \in Nat /\ m - 1 \notin T /\ (m - 1) + 1 = m
    <3>1. m \in Nat /\ m - 1 \in Nat /\ (m - 1) + 1 = m /\ ~(m <= m - 1)
      BY <2>1, <2>3
    <3>2. \A k : k \in T => m <= k
      BY <2>1
    <3> HIDE DEF T
    <3>3. m - 1 \notin T
      BY <3>1, <3>2
    <3> QED
      BY <3>1, <3>3
  <2>5. J \ {m} \in SUBSET (1..m - 1)
    BY <2>4
  <2>6. Countable(J \ {m})
    BY <2>4, <2>5
  <2>7. m \in J
    <3>1. m \notin J => J \ {m} = J
      OBVIOUS
    <3> QED
      BY <2>2, <2>6, <3>1
  <2>8. Countable(J)
    BY <2>4, <2>6, <2>7, CountOneMore
  <2> QED
    BY <2>2, <2>8
<1> QED
  BY <1>1, <1>2

LEMMA Selected ==
  ASSUME NEW S, NEW s \in Seq(S), NEW I \in SUBSET (1..Len(s))
  PROVE  /\ Select(s, I) \in Seq(S)
         /\ IsFiniteSet(I) /\ Cardinality(I) \in Nat
         /\ Len(Select(s, I)) = Cardinality(I)
         /\ InOrder(I) \in [1..Cardinality(I) -> I]
         /\ Counts(InOrder(I), I)
         /\ \A i \in 1..Cardinality(I) : Select(s, I)[i] = s[InOrder(I)[i]]
<1>1. Len(s) \in Nat /\ \A i \in I : s[i] \in S
  OBVIOUS
<1>2. Countable(I)
  BY <1>1, AllCountable
<1>3. InOrder(I) \in [1..Cardinality(I) -> I] /\ Counts(InOrder(I), I)
  BY <1>2 DEF InOrder, Countable
<1>4. IsFiniteSet(I) /\ Cardinality(I) \in Nat
  BY <1>2 DEF Countable
<1>5. \A i \in 1..Cardinality(I) : s[InOrder(I)[i]] \in S
  BY <1>1, <1>3
<1>6. Select(s, I) \in Seq(S) /\ Len(Select(s, I)) = Cardinality(I)
  BY <1>4, <1>5 DEF Select
<1>7. \A i \in 1..Cardinality(I) : Select(s, I)[i] = s[InOrder(I)[i]]
  BY <1>4 DEF Select
<1> QED
  BY <1>3, <1>4, <1>6, <1>7

\* What is selected is what stands at the indices.
LEMMA SelectedElements ==
  ASSUME NEW S, NEW s \in Seq(S), NEW I \in SUBSET (1..Len(s))
  PROVE  /\ \A i \in 1..Len(Select(s, I)) : \E k \in I : Select(s, I)[i] = s[k]
         /\ \A k \in I : \E i \in 1..Len(Select(s, I)) : Select(s, I)[i] = s[k]
<1> DEFINE c == Cardinality(I)
           f == InOrder(I)
           t == Select(s, I)
<1>1. /\ c \in Nat /\ Len(t) = c /\ f \in [1..c -> I] /\ Counts(f, I)
      /\ \A i \in 1..c : t[i] = s[f[i]]
  BY Selected
<1> HIDE DEF c, f, t
<1>2. \A i \in 1..Len(t) : \E k \in I : t[i] = s[k]
  BY <1>1
<1>3. \A k \in I : \E i \in 1..Len(t) : t[i] = s[k]
  BY <1>1 DEF Counts
<1> QED
  BY <1>2, <1>3 DEF t

\* There is one way to count an interval.
LEMMA IntervalCounted ==
  ASSUME NEW a \in Nat, NEW b \in Nat, a <= b, NEW f \in [1..b - a -> a + 1..b],
         Counts(f, a + 1..b)
  PROVE  \A i \in 1..b - a : f[i] = a + i
<1> DEFINE T == {i \in 1..b - a : f[i] # a + i}
<1>1. CASE T = {}
  BY <1>1
<1>2. CASE T # {}
  <2>1. T \subseteq Nat
    OBVIOUS
  <2>2. PICK m \in T : \A k \in T : m <= k
    <3> HIDE DEF T
    <3> QED
      BY <1>2, <2>1, Least
  <2>3. m \in 1..b - a /\ f[m] # a + m /\ f[m] \in a + 1..b
    BY <2>2
  <2>4. \A k \in 1..b - a : k < m => f[k] = a + k
    <3> SUFFICES ASSUME NEW k \in 1..b - a, k < m, f[k] # a + k PROVE FALSE
      OBVIOUS
    <3>1. k \in T
      OBVIOUS
    <3>2. m <= k
      BY <2>2, <3>1
    <3> QED
      BY <2>3, <3>2
  <2> HIDE DEF T
  <2>5. \A i, j \in 1..b - a : i < j => f[i] < f[j]
    BY DEF Counts
  <2>6. CASE f[m] < a + m
    <3>1. f[m] - a \in 1..b - a /\ f[m] - a < m /\ a + (f[m] - a) = f[m]
      BY <2>3, <2>6
    <3>2. f[f[m] - a] = f[m]
      BY <2>4, <3>1
    <3> QED
      BY <2>3, <2>5, <3>1, <3>2
  <2>7. CASE f[m] > a + m
    <3>1. a + m \in a + 1..b
      BY <2>3, <2>7
    <3>2. PICK j \in 1..b - a : f[j] = a + m
      BY <3>1 DEF Counts
    <3>3. ~(j < m)
      BY <2>3, <2>4, <3>2
    <3>4. j # m
      BY <2>7, <3>2
    <3>5. m < j
      BY <2>3, <3>3, <3>4
    <3>6. f[m] < f[j]
      BY <2>3, <2>5, <3>5
    <3> QED
      BY <2>3, <2>7, <3>2, <3>6
  <2>8. f[m] < a + m \/ f[m] = a + m \/ f[m] > a + m
    BY <2>3
  <2> QED
    BY <2>3, <2>6, <2>7, <2>8
<1> QED
  BY <1>1, <1>2

\* The entries of an interval of indices.
LEMMA SelectInterval ==
  ASSUME NEW S, NEW s \in Seq(S), NEW a \in Nat, NEW b \in Nat, a <= b, b <= Len(s)
  PROVE  /\ Len(Select(s, a + 1..b)) = b - a
         /\ \A i \in 1..b - a : Select(s, a + 1..b)[i] = s[a + i]
<1> DEFINE I == a + 1..b
<1>1. Len(s) \in Nat /\ I \in SUBSET (1..Len(s))
  OBVIOUS
<1>2. Cardinality(I) = b - a
  <2>1. a + 1 \in Int /\ b \in Int /\ (IF a + 1 > b THEN 0 ELSE b - (a + 1) + 1) = b - a
    OBVIOUS
  <2> QED
    BY <2>1, FS_Interval
<1> DEFINE f == InOrder(I)
<1> HIDE DEF I
<1>3. /\ Len(Select(s, I)) = b - a
      /\ f \in [1..b - a -> I] /\ Counts(f, I)
      /\ \A i \in 1..b - a : Select(s, I)[i] = s[f[i]]
  <2>1. /\ Len(Select(s, I)) = Cardinality(I)
        /\ f \in [1..Cardinality(I) -> I] /\ Counts(f, I)
        /\ \A i \in 1..Cardinality(I) : Select(s, I)[i] = s[f[i]]
    BY <1>1, Selected
  <2> HIDE DEF f
  <2> QED
    BY <1>2, <2>1
<1> HIDE DEF f
<1>4. \A i \in 1..b - a : f[i] = a + i
  BY <1>3, IntervalCounted DEF I
<1> QED
  BY <1>3, <1>4 DEF I

-----------------------------------------------------------------------------
(* What ss prints of a node                                                *)

\* An invariant by its parts, so that each can be looked at alone.
StageInv ==
  /\ stage \in {"tcp", "udp", "lo", "failed"} => rows = <<>> /\ lines = <<>>
  /\ stage \in {"cgroup", "crictl", "done", "panicked"} =>
       lo \subseteq OnLo /\ lines = filterEntries(tcp, lo) \o filterEntries(udp, lo)
  /\ stage = "done" => Len(rows) = Len(lines) /\ result = RowsOf("UDP") \o RowsOf("TCP")

LEMMA SocketParts ==
  SocketInv <=> SocketTypeOK /\ PrintedInv /\ StageInv /\ RowsInv /\ NamesJustified
BY DEF SocketInv, StageInv

LEMMA SocketInitially == SocketInit => SocketInv
<1> SUFFICES ASSUME SocketInit PROVE SocketInv
  OBVIOUS
<1> USE DEF SocketInit
<1>1. SocketTypeOK
  <2>1. proc \in [Pids -> Owner]
    BY DEF Owner
  <2> QED
    BY <2>1 DEF SocketTypeOK
<1>2. PrintedInv
  BY DEF PrintedInv
<1>3. StageInv
  BY DEF StageInv
<1>4. RowsInv /\ NamesJustified
  BY DEF RowsInv, NamesJustified
<1> QED
  BY <1>1, <1>2, <1>3, <1>4, SocketParts

\* What the lines are of stays; numbers are only ever added to the reused ones.
LEMMA NodeStep ==
  ASSUME SocketInv, Node
  PROVE  SocketInv'
<1>0. SocketTypeOK /\ PrintedInv /\ StageInv /\ RowsInv /\ NamesJustified
  BY SocketParts
<1>1. UNCHANGED <<tcp, udp, lo, lines, id, rows, result, stage>>
  BY DEF Node
<1>2. /\ proc \in [Pids -> Owner] /\ running \in SUBSET Containers /\ reused \in SUBSET Pids
      /\ tcp \in Seq(Seen) /\ udp \in Seq(Seen)
  BY <1>0 DEF SocketTypeOK
<1> DEFINE Stays(p) == p \in Printed /\ p \notin reused' => proc'[p] = proc[p] \/ proc'[p] = Gone
           Goal == /\ proc' \in [Pids -> Owner]
                   /\ running' \in SUBSET Containers
                   /\ reused' \in SUBSET Pids
                   /\ reused \subseteq reused'
                   /\ \A p \in Pids : Stays(p)
<1>3. Goal
  <2>1. ASSUME NEW q \in Pids, Exit(q) PROVE Goal
    BY <1>2, <2>1 DEF Exit, Owner
  <2>2. ASSUME NEW q \in Pids, Spawn(q) PROVE Goal
    <3>1. PICK o \in running \cup {Host} : proc' = [proc EXCEPT ![q] = o]
      BY <2>2 DEF Spawn
    <3>2. o \in Owner
      BY <1>2, <3>1 DEF Owner
    <3>3. reused' = reused \cup ({q} \cap Printed) /\ running' = running
      BY <2>2 DEF Spawn
    <3>4. \A p \in Pids : p # q => proc'[p] = proc[p]
      BY <1>2, <3>1
    <3>5. q \in Printed => q \in reused'
      BY <3>3
    <3>6. proc' \in [Pids -> Owner]
      BY <1>2, <3>1, <3>2
    <3> HIDE DEF Printed
    <3> QED
      BY <1>2, <3>3, <3>4, <3>5, <3>6
  <2>3. ASSUME NEW c \in Containers, Stop(c) PROVE Goal
    BY <1>2, <2>3 DEF Stop, Owner
  <2> HIDE DEF Goal
  <2> QED
    BY <2>1, <2>2, <2>3 DEF Node
<1>4. SocketTypeOK'
  BY <1>0, <1>1, <1>3 DEF SocketTypeOK
<1>5. PrintedInv'
  <2>1. \A i \in 1..Len(tcp) : tcp[i].line.pid \in Printed
    BY DEF Printed
  <2>2. \A i \in 1..Len(udp) : udp[i].line.pid \in Printed
    BY DEF Printed
  <2> QED
    BY <1>0, <1>1, <1>3, <2>1, <2>2 DEF PrintedInv
<1>6. StageInv'
  BY <1>0, <1>1 DEF StageInv, RowsOf
<1>7. RowsInv'
  BY <1>0, <1>1, <1>3 DEF RowsInv, Current
<1>8. NamesJustified'
  BY <1>0, <1>1, <1>3 DEF NamesJustified
<1> QED
  BY <1>4, <1>5, <1>6, <1>7, <1>8 DEF SocketInv, StageInv

\* What ss prints of processes that are there.
LEMMA SSOutputs ==
  ASSUME SocketTypeOK, NEW l \in Seq(Line), NEW proto \in {"TCP", "UDP"}
  PROVE  LET t == SSOutput(l, proto)
         IN  /\ t \in Seq(Seen)
             /\ \A i \in 1..Len(t) :
                  /\ t[i].proto = proto
                  /\ t[i].line.pid \in Pids => t[i].by = proc[t[i].line.pid]
<1> DEFINE t == SSOutput(l, proto)
           e(i) == [proto |-> proto, line |-> l[i],
                    by |-> IF l[i].pid = NoPid THEN Host ELSE proc[l[i].pid]]
<1>1. Len(l) \in Nat /\ \A i \in 1..Len(l) : l[i] \in Line
  OBVIOUS
<1>2. \A i \in 1..Len(l) : e(i) \in Seen
  <2> SUFFICES ASSUME NEW i \in 1..Len(l) PROVE e(i) \in Seen
    OBVIOUS
  <2>1. l[i].pid = NoPid \/ l[i].pid \in Pids
    BY <1>1 DEF Line
  <2>2. proc \in [Pids -> Owner] /\ Host \in Owner
    BY DEF SocketTypeOK, Owner
  <2>3. (IF l[i].pid = NoPid THEN Host ELSE proc[l[i].pid]) \in Owner
    BY <2>1, <2>2
  <2> QED
    BY <1>1, <2>3 DEF Seen
<1>3. \A i \in 1..Len(l) :
        /\ e(i).proto = proto
        /\ e(i).line.pid \in Pids => e(i).by = proc[e(i).line.pid]
  BY NamesAssumption
<1>4. t = [i \in 1..Len(l) |-> e(i)]
  BY DEF SSOutput
<1> HIDE DEF e
<1>5. t \in Seq(Seen) /\ Len(t) = Len(l) /\ \A i \in 1..Len(l) : t[i] = e(i)
  BY <1>1, <1>2, <1>4
<1> QED
  BY <1>3, <1>5 DEF t

\* Neither list has rows or lines yet.
LEMMA ListStep ==
  ASSUME SocketInv, ListTCP \/ ListUDP
  PROVE  SocketInv'
<1>0. SocketTypeOK /\ PrintedInv /\ StageInv /\ RowsInv /\ NamesJustified
  BY SocketParts
<1>1. /\ stage \in {"tcp", "udp"} /\ stage' \in {"udp", "lo"}
      /\ UNCHANGED <<proc, running, reused, lo, lines, id, rows, result>>
  BY DEF ListTCP, ListUDP, nodeVars
<1>2. rows = <<>> /\ lines = <<>>
  BY <1>0, <1>1 DEF StageInv
<1>3. PrintedInv' /\ tcp' \in Seq(Seen) /\ udp' \in Seq(Seen)
  <2>1. CASE ListTCP
    <3>1. PICK l \in TCPLists : tcp' = SSOutput(l, "TCP") /\ udp' = udp
      BY <2>1 DEF ListTCP
    <3>2. l \in Seq(Line)
      BY ListsAssumption
    <3>3. /\ tcp' \in Seq(Seen)
          /\ \A i \in 1..Len(tcp') :
               /\ tcp'[i].proto = "TCP"
               /\ tcp'[i].line.pid \in Pids => tcp'[i].by = proc[tcp'[i].line.pid]
      BY <1>0, <3>1, <3>2, SSOutputs
    <3> QED
      BY <1>0, <1>1, <3>1, <3>3 DEF PrintedInv, SocketTypeOK
  <2>2. CASE ListUDP
    <3>1. PICK l \in UDPLists : udp' = SSOutput(l, "UDP") /\ tcp' = tcp
      BY <2>2 DEF ListUDP
    <3>2. l \in Seq(Line)
      BY ListsAssumption
    <3>3. /\ udp' \in Seq(Seen)
          /\ \A i \in 1..Len(udp') :
               /\ udp'[i].proto = "UDP"
               /\ udp'[i].line.pid \in Pids => udp'[i].by = proc[udp'[i].line.pid]
      BY <1>0, <3>1, <3>2, SSOutputs
    <3> QED
      BY <1>0, <1>1, <3>1, <3>3 DEF PrintedInv, SocketTypeOK
  <2> QED
    BY <2>1, <2>2
<1>4. SocketTypeOK'
  BY <1>0, <1>1, <1>3 DEF SocketTypeOK
<1>5. StageInv' /\ RowsInv' /\ NamesJustified'
  BY <1>1, <1>2 DEF StageInv, RowsInv, NamesJustified
<1> QED
  BY <1>3, <1>4, <1>5 DEF SocketInv, StageInv

\* The lines that are looked up are lines of the list.
LEMMA Filtered ==
  ASSUME NEW list \in Seq(Seen), NEW ips
  PROVE  /\ filterEntries(list, ips) \in Seq(Seen)
         /\ \A i \in 1..Len(filterEntries(list, ips)) :
              \E k \in 1..Len(list) : filterEntries(list, ips)[i] = list[k]
<1> DEFINE I == {i \in 1..Len(list) : ~isLoopbackEntry(list[i], ips)}
<1>1. I \in SUBSET (1..Len(list)) /\ filterEntries(list, ips) = Select(list, I)
  BY DEF filterEntries
<1> HIDE DEF I
<1> QED
  BY <1>1, Selected, SelectedElements

LEMMA LoStep ==
  ASSUME SocketInv, ListLo
  PROVE  SocketInv'
<1>0. SocketTypeOK /\ PrintedInv /\ StageInv /\ RowsInv /\ NamesJustified
  BY SocketParts
<1>1. /\ stage = "lo" /\ stage' = "cgroup" /\ lo' \in {{}, OnLo}
      /\ lines' = filterEntries(tcp, lo') \o filterEntries(udp, lo')
      /\ UNCHANGED <<proc, running, reused, tcp, udp, id, rows, result>>
  BY DEF ListLo, nodeVars
<1>2. rows = <<>>
  BY <1>0, <1>1 DEF StageInv
<1>3. lines' \in Seq(Seen) /\ Len(lines') \in Nat
  <2>1. tcp \in Seq(Seen) /\ udp \in Seq(Seen)
    BY <1>0 DEF SocketTypeOK
  <2>2. filterEntries(tcp, lo') \in Seq(Seen) /\ filterEntries(udp, lo') \in Seq(Seen)
    BY <2>1, Filtered
  <2> QED
    BY <1>1, <2>2
<1>4. lo' \in SUBSET Addresses /\ lo' \subseteq OnLo
  BY <1>1, ListsAssumption
<1>5. SocketTypeOK'
  BY <1>0, <1>1, <1>3, <1>4 DEF SocketTypeOK
<1>6. PrintedInv'
  BY <1>0, <1>1 DEF PrintedInv
<1>7. StageInv'
  BY <1>1, <1>4 DEF StageInv
<1>8. RowsInv' /\ NamesJustified'
  BY <1>1, <1>2, <1>3 DEF RowsInv, NamesJustified
<1> QED
  BY <1>5, <1>6, <1>7, <1>8 DEF SocketInv, StageInv

LookedUp == {"cgroup", "crictl", "done", "panicked"}

\* The lines: those of TCP, then those of UDP.
LEMMA LinesAre ==
  ASSUME SocketInv, stage \in LookedUp
  PROVE  LET ft == filterEntries(tcp, lo)
             fu == filterEntries(udp, lo)
         IN  /\ ft \in Seq(Seen) /\ fu \in Seq(Seen)
             /\ Len(ft) \in Nat /\ Len(fu) \in Nat
             /\ Len(lines) = Len(ft) + Len(fu)
             /\ \A i \in 1..Len(ft) : lines[i] = ft[i] /\ ft[i].proto = "TCP"
             /\ \A i \in 1..Len(fu) : lines[Len(ft) + i] = fu[i] /\ fu[i].proto = "UDP"
             /\ \A i \in 1..Len(lines) :
                  lines[i].line.pid \in Pids \ reused
                    => proc[lines[i].line.pid] \in {lines[i].by, Gone}
<1> DEFINE ft == filterEntries(tcp, lo)
           fu == filterEntries(udp, lo)
           Owned(e) == e.line.pid \in Pids \ reused => proc[e.line.pid] \in {e.by, Gone}
<1>0. SocketTypeOK /\ PrintedInv /\ StageInv
  BY SocketParts
<1>1. tcp \in Seq(Seen) /\ udp \in Seq(Seen) /\ lines = ft \o fu
  BY <1>0 DEF SocketTypeOK, StageInv, LookedUp
<1>2. /\ ft \in Seq(Seen) /\ \A i \in 1..Len(ft) : \E k \in 1..Len(tcp) : ft[i] = tcp[k]
      /\ fu \in Seq(Seen) /\ \A i \in 1..Len(fu) : \E k \in 1..Len(udp) : fu[i] = udp[k]
  BY <1>1, Filtered
<1>3. /\ \A k \in 1..Len(tcp) : tcp[k].proto = "TCP" /\ Owned(tcp[k])
      /\ \A k \in 1..Len(udp) : udp[k].proto = "UDP" /\ Owned(udp[k])
  BY <1>0 DEF PrintedInv
<1> HIDE DEF ft, fu, Owned
<1>4. /\ \A i \in 1..Len(ft) : ft[i].proto = "TCP" /\ Owned(ft[i])
      /\ \A i \in 1..Len(fu) : fu[i].proto = "UDP" /\ Owned(fu[i])
  <2>1. ASSUME NEW i \in 1..Len(ft) PROVE ft[i].proto = "TCP" /\ Owned(ft[i])
    <3>1. PICK k \in 1..Len(tcp) : ft[i] = tcp[k]
      BY <1>2
    <3> QED
      BY <1>3, <3>1
  <2>2. ASSUME NEW i \in 1..Len(fu) PROVE fu[i].proto = "UDP" /\ Owned(fu[i])
    <3>1. PICK k \in 1..Len(udp) : fu[i] = udp[k]
      BY <1>2
    <3> QED
      BY <1>3, <3>1
  <2> QED
    BY <2>1, <2>2
<1>5. /\ Len(ft) \in Nat /\ Len(fu) \in Nat /\ Len(lines) = Len(ft) + Len(fu)
      /\ \A i \in 1..Len(lines) : lines[i] = IF i <= Len(ft) THEN ft[i] ELSE fu[i - Len(ft)]
  BY <1>1, <1>2
<1>6. \A i \in 1..Len(ft) : lines[i] = ft[i]
  BY <1>5
<1>7. ASSUME NEW i \in 1..Len(fu) PROVE lines[Len(ft) + i] = fu[i]
  <2>1. /\ Len(ft) + i \in 1..Len(lines) /\ ~(Len(ft) + i <= Len(ft))
        /\ (Len(ft) + i) - Len(ft) = i
    BY <1>5
  <2> QED
    BY <1>5, <2>1
<1>8. ASSUME NEW i \in 1..Len(lines) PROVE Owned(lines[i])
  <2>1. CASE i <= Len(ft)
    <3>1. i \in 1..Len(ft)
      BY <1>5, <2>1
    <3> QED
      BY <1>4, <1>6, <3>1
  <2>2. CASE ~(i <= Len(ft))
    <3>1. i - Len(ft) \in 1..Len(fu) /\ lines[i] = fu[i - Len(ft)]
      BY <1>5, <2>2
    <3> QED
      BY <1>4, <3>1
  <2> QED
    BY <2>1, <2>2
<1>9. \A i \in 1..Len(lines) :
        lines[i].line.pid \in Pids \ reused => proc[lines[i].line.pid] \in {lines[i].by, Gone}
  BY <1>8 DEF Owned
<1> QED
  BY <1>2, <1>4, <1>5, <1>6, <1>7, <1>9 DEF ft, fu

\* The line whose row is the next.
LEMMA CurrentLine ==
  ASSUME SocketInv, stage \in {"cgroup", "crictl"}, Len(rows) < Len(lines)
  PROVE  /\ Len(rows) + 1 \in 1..Len(lines)
         /\ Current \in Seen
<1>1. rows \in Seq(Detail) /\ lines \in Seq(Seen)
  BY SocketParts DEF SocketTypeOK
<1>2. Len(rows) \in Nat /\ Len(lines) \in Nat
  BY <1>1
<1>3. Len(rows) + 1 \in 1..Len(lines)
  BY <1>2
<1> QED
  BY <1>1, <1>3, ElementOfSeq DEF Current

\* A row is added for the next line, under a name that its owner justifies.
LEMMA RowAdded ==
  ASSUME SocketInv, stage \in {"cgroup", "crictl"}, Len(rows) < Len(lines),
         Current.line.port # NoPort,
         NEW name \in Containers \cup {NoName},
         name # NoName /\ Current.line.pid \notin reused => name = Current.by,
         AddRow(name)
  PROVE  SocketInv'
<1>0. SocketTypeOK /\ PrintedInv /\ StageInv /\ RowsInv /\ NamesJustified
  BY SocketParts
<1> DEFINE n == Len(rows) + 1
           row == [proto |-> Current.proto, port |-> Current.line.port, container |-> name]
<1>1. /\ rows' = Append(rows, row) /\ stage' = "cgroup" /\ id' = NoName
      /\ UNCHANGED <<proc, running, reused, tcp, udp, lo, lines, result>>
  BY DEF AddRow, nodeVars
<1>2. rows \in Seq(Detail) /\ Len(rows) \in Nat /\ lines \in Seq(Seen) /\ Len(lines) \in Nat
  BY <1>0 DEF SocketTypeOK
<1>3. n \in 1..Len(lines) /\ Current \in Seen /\ Current = lines[n]
  BY CurrentLine DEF Current
<1>4. row \in Detail
  BY <1>3 DEF Detail, Seen, Line
<1>5. row.proto = lines[n].proto /\ row.port = lines[n].line.port /\ row.container = name
  BY <1>3
<1> HIDE DEF row
<1>6. /\ rows' \in Seq(Detail) /\ Len(rows') = n
      /\ \A i \in 1..Len(rows) : rows'[i] = rows[i]
      /\ rows'[n] = row
  BY <1>1, <1>2, <1>4
<1>7. \A i \in 1..n : i \in 1..Len(rows) \/ i = n
  BY <1>2
<1>8. SocketTypeOK'
  BY <1>0, <1>1, <1>6 DEF SocketTypeOK
<1>9. PrintedInv'
  BY <1>0, <1>1 DEF PrintedInv
<1>10. StageInv'
  BY <1>0, <1>1 DEF StageInv
<1>11. RowsInv'
  <2>1. n <= Len(lines)
    BY <1>2
  <2>2. \A i \in 1..n : rows'[i].proto = lines[i].proto /\ rows'[i].port = lines[i].line.port
    BY <1>0, <1>5, <1>6, <1>7 DEF RowsInv
  <2> HIDE DEF n
  <2> QED
    BY <1>1, <1>6, <2>1, <2>2 DEF RowsInv
<1>12. NamesJustified'
  <2>1. \A i \in 1..Len(rows) :
          rows[i].container # NoName /\ lines[i].line.pid \notin reused
            => rows[i].container = lines[i].by
    BY <1>0 DEF NamesJustified
  <2>2. name # NoName /\ lines[n].line.pid \notin reused => name = lines[n].by
    BY <1>3
  <2>3. \A i \in 1..n :
          rows'[i].container # NoName /\ lines[i].line.pid \notin reused
            => rows'[i].container = lines[i].by
    BY <1>5, <1>6, <1>7, <2>1, <2>2
  <2> HIDE DEF n
  <2> QED
    BY <1>1, <1>6, <2>3 DEF NamesJustified
<1> QED
  BY <1>8, <1>9, <1>10, <1>11, <1>12 DEF SocketInv, StageInv

LEMMA NoContainerStep ==
  ASSUME SocketInv, NoContainer
  PROVE  SocketInv'
BY RowAdded DEF NoContainer, MoreLines

LEMMA AskStep ==
  ASSUME SocketInv, AskRuntime
  PROVE  SocketInv'
<1>0. SocketTypeOK /\ RowsInv
  BY SocketParts
<1>1. stage = "crictl" /\ Len(rows) < Len(lines) /\ Current.line.port # NoPort
  BY <1>0 DEF AskRuntime, RowsInv
<1>2. id \in Containers \cup {NoName}
  BY <1>0 DEF SocketTypeOK
<1>3. Current.line.pid \notin reused => id = Current.by
  BY <1>0, <1>1 DEF RowsInv
<1>4. CASE AddRow(id)
  BY <1>1, <1>2, <1>3, <1>4, RowAdded
<1>5. CASE AddRow(NoName)
  BY <1>1, <1>5, RowAdded
<1> QED
  BY <1>4, <1>5 DEF AskRuntime

\* The number that ss printed is looked up: if no other process got it since,
\* the container found is that of the process ss saw.
LEMMA CgroupStep ==
  ASSUME SocketInv, ReadCgroup
  PROVE  SocketInv'
<1>0. SocketTypeOK /\ PrintedInv /\ StageInv /\ RowsInv /\ NamesJustified
  BY SocketParts
<1> DEFINE p == Current.line.pid
           n == Len(rows) + 1
<1>1. /\ stage = "cgroup" /\ Len(rows) < Len(lines) /\ Current.line.port # NoPort
      /\ p \in Pids /\ proc[p] \in Containers
      /\ id' = proc[p] /\ stage' = "crictl"
      /\ UNCHANGED <<proc, running, reused, tcp, udp, lo, lines, rows, result>>
  BY DEF ReadCgroup, MoreLines, nodeVars
<1>2. n \in 1..Len(lines) /\ Current = lines[n]
  BY <1>1, CurrentLine DEF Current
<1>3. p \notin reused => proc[p] \in {Current.by, Gone}
  BY <1>1, <1>2, LinesAre DEF LookedUp
<1>4. p \notin reused => id' = Current.by
  BY <1>1, <1>3, NamesAssumption
<1>5. id' \in Containers /\ id' # NoName
  BY <1>1, NamesAssumption
<1>6. SocketTypeOK'
  BY <1>0, <1>1, <1>5 DEF SocketTypeOK
<1>7. PrintedInv'
  BY <1>0, <1>1 DEF PrintedInv
<1>8. StageInv' /\ NamesJustified'
  BY <1>0, <1>1 DEF StageInv, NamesJustified
<1>9. RowsInv'
  BY <1>0, <1>1, <1>4, <1>5 DEF RowsInv, Current
<1> QED
  BY <1>6, <1>7, <1>8, <1>9 DEF SocketInv, StageInv

LEMMA EndStep ==
  ASSUME SocketInv, NilDetail \/ RunFails \/ Return
  PROVE  SocketInv'
<1>0. SocketTypeOK /\ PrintedInv /\ StageInv /\ RowsInv /\ NamesJustified
  BY SocketParts
<1>1. UNCHANGED <<proc, running, reused, tcp, udp, lo, lines, id, rows>>
  BY DEF NilDetail, RunFails, Return, nodeVars
<1>2. PrintedInv' /\ NamesJustified'
  BY <1>0, <1>1 DEF PrintedInv, NamesJustified
<1>3. CASE NilDetail \/ RunFails
  <2>1. /\ result' = result
        /\ \/ stage = "cgroup" /\ stage' = "panicked"
           \/ stage \in {"tcp", "udp"} /\ stage' = "failed"
    BY <1>3 DEF NilDetail, RunFails, MoreLines
  <2>2. SocketTypeOK' /\ StageInv' /\ RowsInv'
    BY <1>0, <1>1, <2>1 DEF SocketTypeOK, StageInv, RowsInv
  <2> QED
    BY <1>2, <2>2 DEF SocketInv, StageInv
<1>4. CASE Return
  <2>1. /\ stage = "cgroup" /\ Len(rows) = Len(lines) /\ stage' = "done"
        /\ result' = RowsOf("UDP") \o RowsOf("TCP")
    BY <1>4 DEF Return
  <2>2. ASSUME NEW proto PROVE RowsOf(proto) \in Seq(Detail)
    <3> DEFINE I == {i \in 1..Len(rows) : rows[i].proto = proto}
    <3>1. rows \in Seq(Detail) /\ I \in SUBSET (1..Len(rows))
      BY <1>0 DEF SocketTypeOK
    <3> HIDE DEF I
    <3>2. Select(rows, I) \in Seq(Detail)
      BY <3>1, Selected
    <3> QED
      BY <3>2 DEF RowsOf, I
  <2>3. result' \in Seq(Detail)
    BY <2>1, <2>2
  <2>4. SocketTypeOK'
    BY <1>0, <1>1, <2>1, <2>3 DEF SocketTypeOK
  <2>5. StageInv' /\ RowsInv'
    BY <1>0, <1>1, <2>1 DEF StageInv, RowsInv, RowsOf
  <2> QED
    BY <1>2, <2>4, <2>5 DEF SocketInv, StageInv
<1> QED
  BY <1>3, <1>4

\* For all processes, containers and lists of ss: the rows follow the lines,
\* and what ss printed of a process stays true until its number is used again.
THEOREM SocketInvariance == SocketSpec => []SocketInv
<1>1. SocketInit => SocketInv
  BY SocketInitially
<1>2. SocketInv /\ [SocketNext]_socketVars => SocketInv'
  <2> SUFFICES ASSUME SocketInv, [SocketNext]_socketVars PROVE SocketInv'
    OBVIOUS
  <2>1. CASE Node
    BY <2>1, NodeStep
  <2>2. CASE ListTCP \/ ListUDP
    BY <2>2, ListStep
  <2>3. CASE ListLo
    BY <2>3, LoStep
  <2>4. CASE NilDetail \/ RunFails \/ Return
    BY <2>4, EndStep
  <2>5. CASE NoContainer
    BY <2>5, NoContainerStep
  <2>6. CASE ReadCgroup
    BY <2>6, CgroupStep
  <2>7. CASE AskRuntime
    BY <2>7, AskStep
  <2>8. CASE UNCHANGED socketVars
    <3>1. UNCHANGED <<proc, running, reused, tcp, udp, lo, lines, id, rows, result, stage>>
      BY <2>8 DEF socketVars, nodeVars
    <3> QED
      BY <3>1 DEF SocketInv, SocketTypeOK, PrintedInv, RowsInv, NamesJustified, RowsOf, Current
  <2> QED
    BY <2>1, <2>2, <2>3, <2>4, <2>5, <2>6, <2>7, <2>8 DEF SocketNext
<1> QED
  BY <1>1, <1>2, PTL DEF SocketSpec

\* No socket is given the container of another process, as long as process
\* numbers are not used again between two commands.
THEOREM NamesAreJustified == SocketSpec => []NamesJustified
<1>1. SocketInv => NamesJustified
  BY DEF SocketInv
<1> QED
  BY <1>1, SocketInvariance, PTL

\* Local says of every line what isLoopbackEntry finds.
LEMMA LocalIsLoopback ==
  ASSUME NEW e \in Seen, lo \subseteq OnLo
  PROVE  Local(e) <=> isLoopbackEntry(e, lo)
<1> DEFINE a == e.line.addr
<1>1. a \in Addresses
  BY DEF Seen, Line
<1>2. a.form \in {"plain", "brackets", "star", "zone"}
  BY <1>1, AddressesAssumption
<1>3. CASE a.form = "plain"
  BY <1>3 DEF Local, isLoopbackEntry
<1>4. CASE a.form = "star"
  <2>1. a.text = {} /\ ~a.loopback /\ a \notin lo
    BY <1>1, <1>4, TextsAssumption
  <2> QED
    BY <1>4, <2>1 DEF Local, isLoopbackEntry
<1>5. CASE a.form \in {"brackets", "zone"}
  BY <1>5 DEF Local
<1> QED
  BY <1>2, <1>3, <1>4, <1>5

\* Every socket outside of loopback has its row, in order, whatever became of
\* its process: lookups cost names and never a port.
THEOREM EverySocketHasItsRow == SocketSpec => []RowPerSocket
<1>1. ASSUME SocketInv PROVE RowPerSocket
  <2> DEFINE ft == filterEntries(tcp, lo)
             fu == filterEntries(udp, lo)
             outUDP == Select(udp, {i \in 1..Len(udp) : ~Local(udp[i])})
             outTCP == Select(tcp, {i \in 1..Len(tcp) : ~Local(tcp[i])})
  <2> SUFFICES ASSUME stage = "done"
               PROVE  /\ Len(result) = Len(outUDP \o outTCP)
                      /\ \A i \in 1..Len(result) :
                           /\ result[i].proto = (outUDP \o outTCP)[i].proto
                           /\ result[i].port = (outUDP \o outTCP)[i].line.port
    BY DEF RowPerSocket
  <2>1. /\ tcp \in Seq(Seen) /\ udp \in Seq(Seen) /\ rows \in Seq(Detail) /\ lo \subseteq OnLo
        /\ Len(rows) = Len(lines) /\ result = RowsOf("UDP") \o RowsOf("TCP")
        /\ \A i \in 1..Len(rows) :
             rows[i].proto = lines[i].proto /\ rows[i].port = lines[i].line.port
    BY <1>1, SocketParts DEF SocketTypeOK, StageInv, RowsInv
  <2>2. outUDP = fu /\ outTCP = ft
    <3>1. \A i \in 1..Len(udp) : Local(udp[i]) <=> isLoopbackEntry(udp[i], lo)
      BY <2>1, LocalIsLoopback
    <3>2. \A i \in 1..Len(tcp) : Local(tcp[i]) <=> isLoopbackEntry(tcp[i], lo)
      BY <2>1, LocalIsLoopback
    <3>3. /\ {i \in 1..Len(udp) : ~Local(udp[i])} = {i \in 1..Len(udp) : ~isLoopbackEntry(udp[i], lo)}
          /\ {i \in 1..Len(tcp) : ~Local(tcp[i])} = {i \in 1..Len(tcp) : ~isLoopbackEntry(tcp[i], lo)}
      BY <3>1, <3>2
    <3> QED
      BY <3>3 DEF filterEntries
  <2> DEFINE a == Len(ft)
             b == Len(fu)
  <2> HIDE DEF ft, fu, outUDP, outTCP
  <2>3. /\ ft \in Seq(Seen) /\ fu \in Seq(Seen) /\ a \in Nat /\ b \in Nat
        /\ Len(lines) = a + b
        /\ \A i \in 1..a : lines[i] = ft[i] /\ ft[i].proto = "TCP"
        /\ \A i \in 1..b : lines[a + i] = fu[i] /\ fu[i].proto = "UDP"
    BY <1>1, LinesAre DEF LookedUp, ft, fu
  <2> HIDE DEF a, b
  <2>4. /\ {i \in 1..Len(rows) : rows[i].proto = "TCP"} = 0 + 1..a
        /\ {i \in 1..Len(rows) : rows[i].proto = "UDP"} = a + 1..a + b
    <3>0. Len(rows) = a + b /\ a \in Nat /\ b \in Nat
      BY <2>1, <2>3
    <3>1. \A i \in 1..a : i \in 1..Len(rows) /\ rows[i].proto = "TCP"
      <4>1. \A i \in 1..a : i \in 1..Len(rows)
        BY <3>0
      <4> QED
        BY <2>1, <2>3, <4>1
    <3>2. \A i \in a + 1..a + b : i \in 1..Len(rows) /\ rows[i].proto = "UDP"
      <4> SUFFICES ASSUME NEW i \in a + 1..a + b
                   PROVE  i \in 1..Len(rows) /\ rows[i].proto = "UDP"
        OBVIOUS
      <4>1. i - a \in 1..b /\ a + (i - a) = i /\ i \in 1..a + b
        BY <3>0
      <4>3. i \in 1..Len(rows)
        BY <3>0, <4>1
      <4>2. lines[i] = fu[i - a] /\ fu[i - a].proto = "UDP"
        BY <2>3, <4>1
      <4> QED
        BY <2>1, <4>2, <4>3
    <3>3. \A i \in 1..Len(rows) : i \in 1..a \/ i \in a + 1..a + b
      BY <2>1, <2>3
    <3>4. 0 + 1..a = 1..a
      OBVIOUS
    <3> QED
      BY <3>1, <3>2, <3>3, <3>4
  <2>5. Len(rows) = a + b /\ a <= a + b /\ (a + b) - a = b /\ a - 0 = a /\ 0 <= a /\ a <= Len(rows)
    BY <2>1, <2>3
  <2>6. Len(RowsOf("UDP")) = b /\ \A i \in 1..b : RowsOf("UDP")[i] = rows[a + i]
    <3>1. RowsOf("UDP") = Select(rows, a + 1..a + b)
      BY <2>4 DEF RowsOf
    <3>2. a \in Nat /\ a + b \in Nat /\ a <= a + b /\ a + b <= Len(rows)
      BY <2>3, <2>5
    <3>3. /\ Len(Select(rows, a + 1..a + b)) = (a + b) - a
          /\ \A i \in 1..(a + b) - a : Select(rows, a + 1..a + b)[i] = rows[a + i]
      BY <2>1, <3>2, SelectInterval
    <3> QED
      BY <2>5, <3>1, <3>3
  <2>7. Len(RowsOf("TCP")) = a /\ \A i \in 1..a : RowsOf("TCP")[i] = rows[i]
    <3>1. RowsOf("TCP") = Select(rows, 0 + 1..a)
      BY <2>4 DEF RowsOf
    <3>2. 0 \in Nat /\ a \in Nat /\ 0 <= a /\ a <= Len(rows) /\ \A i \in 1..a : 0 + i = i
      BY <2>3, <2>5
    <3>3. /\ Len(Select(rows, 0 + 1..a)) = a - 0
          /\ \A i \in 1..a - 0 : Select(rows, 0 + 1..a)[i] = rows[0 + i]
      BY <2>1, <3>2, SelectInterval
    <3> QED
      BY <2>5, <3>1, <3>2, <3>3
  <2>8. RowsOf("UDP") \in Seq(Detail) /\ RowsOf("TCP") \in Seq(Detail)
    <3>1. \A x \in {"UDP", "TCP"} :
            {i \in 1..Len(rows) : rows[i].proto = x} \in SUBSET (1..Len(rows))
      OBVIOUS
    <3> QED
      BY <2>1, <3>1, Selected DEF RowsOf
  <2> DEFINE ru == RowsOf("UDP")
             rt == RowsOf("TCP")
  <2> HIDE DEF ru, rt
  <2>9. /\ Len(ru \o rt) = b + a /\ Len(fu \o ft) = b + a
        /\ \A i \in 1..b + a : (ru \o rt)[i] = IF i <= b THEN ru[i] ELSE rt[i - b]
        /\ \A i \in 1..b + a : (fu \o ft)[i] = IF i <= b THEN fu[i] ELSE ft[i - b]
    <3>1. /\ ru \in Seq(Detail) /\ rt \in Seq(Detail) /\ Len(ru) = b /\ Len(rt) = a
          /\ a \in Nat /\ b \in Nat
      BY <2>3, <2>6, <2>7, <2>8 DEF ru, rt
    <3>2. ft \in Seq(Seen) /\ fu \in Seq(Seen) /\ Len(fu) = b /\ Len(ft) = a
      BY <2>3 DEF a, b
    <3>3. /\ Len(ru \o rt) = b + a
          /\ \A i \in 1..b + a : (ru \o rt)[i] = IF i <= b THEN ru[i] ELSE rt[i - b]
      BY <3>1
    <3>4. /\ Len(fu \o ft) = b + a
          /\ \A i \in 1..b + a : (fu \o ft)[i] = IF i <= b THEN fu[i] ELSE ft[i - b]
      BY <3>1, <3>2
    <3> QED
      BY <3>3, <3>4
  <2>10. ASSUME NEW i \in 1..b + a
         PROVE  /\ (ru \o rt)[i].proto = (fu \o ft)[i].proto
                /\ (ru \o rt)[i].port = (fu \o ft)[i].line.port
    <3>1. CASE i <= b
      <4>1. i \in 1..b /\ a + i \in 1..Len(rows)
        BY <2>3, <2>5, <3>1
      <4>2. (ru \o rt)[i] = rows[a + i] /\ (fu \o ft)[i] = lines[a + i]
        BY <2>3, <2>6, <2>9, <3>1, <4>1 DEF ru
      <4> QED
        BY <2>1, <4>1, <4>2
    <3>2. CASE ~(i <= b)
      <4>1. i - b \in 1..a /\ i - b \in 1..Len(rows)
        BY <2>3, <2>5, <3>2
      <4>2. (ru \o rt)[i] = rows[i - b] /\ (fu \o ft)[i] = lines[i - b]
        BY <2>3, <2>7, <2>9, <3>2, <4>1, SMTT(30) DEF rt
      <4> QED
        BY <2>1, <4>1, <4>2
    <3> QED
      BY <3>1, <3>2
  <2>11. result = ru \o rt
    BY <2>1 DEF ru, rt
  <2>12. \A i \in 1..b + a : /\ (ru \o rt)[i].proto = (fu \o ft)[i].proto
                             /\ (ru \o rt)[i].port = (fu \o ft)[i].line.port
    BY <2>10
  <2> QED
    BY <2>2, <2>9, <2>11, <2>12
<1> QED
  BY <1>1, SocketInvariance, PTL

-----------------------------------------------------------------------------
(* The matrix: what a step leaves alone                                    *)

LEMMA SameLoad ==
  ASSUME UNCHANGED <<services, next, sliceInfo>>
  PROVE  LoadInv' <=> LoadInv
BY DEF LoadInv

LEMMA SameFlows ==
  ASSUME UNCHANGED <<services, nodeToGroup>>
  PROVE  ExposedFlows' = ExposedFlows
BY DEF ExposedFlows, Exposes

LEMMA SameExposed ==
  ASSUME UNCHANGED <<services, nodeToGroup, exposed>>
  PROVE  ExposedInv' <=> ExposedInv
<1>1. ExposedFlows' = ExposedFlows
  BY SameFlows
<1> QED
  BY <1>1 DEF ExposedInv, Exposes

LEMMA SameList ==
  ASSUME UNCHANGED setting
  PROVE  StaticList' = StaticList
BY DEF StaticList, IsIPv6Enabled, DHCPEnabled

LEMMA SameStatics ==
  ASSUME UNCHANGED <<setting, relisted, nodeToGroup, statics>>
  PROVE  StaticsInv' <=> StaticsInv
<1>1. StaticList' = StaticList
  BY SameList
<1>2. StaticFlows' = StaticFlows
  BY <1>1 DEF StaticFlows, Roled, StaticEntries
<1> QED
  BY <1>2 DEF StaticsInv

LEMMA SameFile ==
  ASSUME UNCHANGED <<file, custom, ranges>>
  PROVE  FileInv' <=> FileInv
<1>1. FileFlows' = FileFlows
  BY DEF FileFlows
<1> QED
  BY <1>1 DEF FileInv, ParseFails, Decoded

LEMMA SameMatrix ==
  ASSUME UNCHANGED <<statics, custom, exposed, matrix>>
  PROVE  MatrixInv' <=> MatrixInv
BY DEF MatrixInv

LEMMA CreationInitially == Init => IInv
<1> SUFFICES ASSUME Init PROVE IInv
  OBVIOUS
<1>1. ExposedTypeOK
  BY DEF Init, ExposedInit, ExposedTypeOK
<1>2. TypeOK
  BY <1>1 DEF Init, TypeOK
<1> QED
  BY <1>2 DEF Init, ExposedInit, IInv

\* An error, and there is no matrix.
LEMMA FailStep ==
  ASSUME IInv, Fail
  PROVE  IInv'
<1>1. TypeOK
  BY DEF IInv
<1>2. TypeOK' /\ pc' = "error"
  BY <1>1 DEF TypeOK, ExposedTypeOK, Fail, epVars
<1> QED
  BY <1>2 DEF IInv

LEMMA ClusterStep ==
  ASSUME IInv, ClusterChanges
  PROVE  IInv'
<1>1. TypeOK'
  BY DEF IInv, TypeOK, ExposedTypeOK, ClusterChanges, epVars
<1>2. UNCHANGED <<setting, file, relisted, statics, custom, ranges, matrix, services,
                  nodeToGroup, next, sliceInfo, exposed, pc>>
  BY DEF ClusterChanges, epVars
<1>3. LoadInv => LoadInv'
  BY <1>2, SameLoad
<1>4. ExposedInv => ExposedInv'
  BY <1>2, SameExposed
<1>5. StaticsInv => StaticsInv'
  BY <1>2, SameStatics
<1>6. FileInv => FileInv'
  BY <1>2, SameFile
<1>7. MatrixInv => MatrixInv'
  BY <1>2, SameMatrix
<1>8. StaticList' = StaticList
  BY <1>2, SameList
<1>9. statics = Singletons(StaticList) => statics' = Singletons(StaticList')
  BY <1>2, <1>8
<1> QED
  BY <1>1, <1>2, <1>3, <1>4, <1>5, <1>6, <1>7, <1>9 DEF IInv

LEMMA FactsStep ==
  ASSUME IInv, DetectFacts
  PROVE  IInv'
<1>1. CASE Fail
  BY <1>1, FailStep
<1>2. CASE /\ pc = "facts" /\ pc' = "new"
           /\ UNCHANGED <<cluster, setting, file, relisted, statics, custom, ranges, matrix, epVars>>
  <2>1. TypeOK'
    BY <1>2 DEF IInv, TypeOK, ExposedTypeOK, epVars
  <2> QED
    BY <1>2, <2>1 DEF IInv, epVars
<1> QED
  BY <1>1, <1>2 DEF DetectFacts

LEMMA NewStep ==
  ASSUME IInv, New
  PROVE  IInv'
<1>1. CASE Fail
  BY <1>1, FailStep
<1>2. CASE /\ pc = "new" /\ pc' = "services"
           /\ nodeToGroup' = [n \in DOMAIN cluster |-> cluster[n].group]
           /\ UNCHANGED <<cluster, setting, file, relisted, statics, custom, ranges, matrix,
                          services, next, sliceInfo, exposed>>
  <2>1. DOMAIN cluster \subseteq Nodes /\ \A n \in DOMAIN cluster : cluster[n] \in NodeFacts
    BY ListingsAssumption DEF IInv, TypeOK
  <2>2. DOMAIN nodeToGroup' \subseteq Nodes /\ nodeToGroup' \in [DOMAIN nodeToGroup' -> Groups]
    BY <1>2, <2>1 DEF NodeFacts
  <2>3. TypeOK'
    BY <1>2, <2>2 DEF IInv, TypeOK, ExposedTypeOK
  <2> QED
    BY <1>2, <2>3 DEF IInv
<1> QED
  BY <1>1, <1>2 DEF New

-----------------------------------------------------------------------------
(* The matrix: what the endpoint slices expose                             *)

\* What the two filters leave of the endpoint ports.
LEMMA FilteredPorts ==
  ASSUME NEW pod, NEW ports, NEW p
  PROVE  LET infos == getEndpointSlicePortsFromPod(pod, ports)
         IN  /\ p \in filterEndpointPortsByPodHostPort(infos) <=>
                  /\ p \in ports \ {NilPort}
                  /\ \E c \in pod.ports : c.number = Number[p] /\ c.hostPort
             /\ p \in filterOutLocalhostPorts(infos) <=>
                  /\ p \in ports \ {NilPort}
                  /\ \E c \in pod.ports : c.number = Number[p] /\ ~c.local
<1> DEFINE infos == getEndpointSlicePortsFromPod(pod, ports)
<1>1. ASSUME NEW q, NEW c
      PROVE  <<q, c>> \in infos <=> q \in ports \ {NilPort} /\ c \in pod.ports /\ c.number = Number[q]
  <2>1. <<q, c>>[1] = q /\ <<q, c>>[2] = c
    OBVIOUS
  <2> QED
    BY <2>1 DEF getEndpointSlicePortsFromPod
<1>2. \A x \in infos : x = <<x[1], x[2]>>
  BY DEF getEndpointSlicePortsFromPod
<1> HIDE DEF infos
<1>3. p \in filterEndpointPortsByPodHostPort(infos) <=> \E c : <<p, c>> \in infos /\ c.hostPort
  <2>1. p \in filterEndpointPortsByPodHostPort(infos) <=>
          \E x \in infos : x[2].hostPort /\ p = x[1]
    BY DEF filterEndpointPortsByPodHostPort
  <2>2. ASSUME NEW x \in infos, x[2].hostPort, p = x[1]
        PROVE  \E c : <<p, c>> \in infos /\ c.hostPort
    BY <1>2, <2>2
  <2>3. ASSUME NEW c, <<p, c>> \in infos, c.hostPort
        PROVE  \E x \in infos : x[2].hostPort /\ p = x[1]
    BY <2>3
  <2> QED
    BY <2>1, <2>2, <2>3
<1>4. p \in filterOutLocalhostPorts(infos) <=> \E c : <<p, c>> \in infos /\ ~c.local
  <2>1. p \in filterOutLocalhostPorts(infos) <=>
          \E x \in infos : ~x[2].local /\ p = x[1]
    BY DEF filterOutLocalhostPorts
  <2>2. ASSUME NEW x \in infos, ~x[2].local, p = x[1]
        PROVE  \E c : <<p, c>> \in infos /\ ~c.local
    BY <1>2, <2>2
  <2>3. ASSUME NEW c, <<p, c>> \in infos, ~c.local
        PROVE  \E x \in infos : ~x[2].local /\ p = x[1]
    BY <2>3
  <2> QED
    BY <2>1, <2>2, <2>3
<1>5. /\ p \in filterEndpointPortsByPodHostPort(infos) <=>
           /\ p \in ports \ {NilPort}
           /\ \E c \in pod.ports : c.number = Number[p] /\ c.hostPort
      /\ p \in filterOutLocalhostPorts(infos) <=>
           /\ p \in ports \ {NilPort}
           /\ \E c \in pod.ports : c.number = Number[p] /\ ~c.local
  BY <1>1, <1>3, <1>4
<1> QED
  BY <1>5 DEF infos

\* What the filters leave of the ports of a service.
LEMMA PortsOfAre ==
  ASSUME NEW s \in Service, s.slices # <<>>, s.pods # <<>>
  PROVE  /\ Head(s.slices) \in EndpointSlice /\ Head(s.pods) \in Pod
         /\ PortsOf(s) \subseteq Ports
         /\ \A p \in Ports :
              p \in PortsOf(s) <=>
                LET declared == {c \in Head(s.pods).ports : c.number = Number[p]}
                IN  /\ p \in Head(s.slices).ports
                    /\ \E c \in declared : ~c.local
                    /\ Head(s.pods).hostNetwork \/ \E c \in declared : c.hostPort
<1> DEFINE pod == Head(s.pods)
           ports == Head(s.slices).ports
<1>1. Head(s.slices) \in EndpointSlice /\ pod \in Pod
  BY DEF Service
<1>2. ports \subseteq Ports \cup {NilPort}
  BY <1>1 DEF EndpointSlice
<1>3. PortsOf(s) = filterOutLocalhostPorts(getEndpointSlicePortsFromPod(pod, HostPorts(pod, ports)))
  BY DEF PortsOf
<1> HIDE DEF pod, ports
<1>4. \A p : p \in HostPorts(pod, ports) <=>
        \/ pod.hostNetwork /\ p \in ports
        \/ /\ ~pod.hostNetwork /\ p \in ports \ {NilPort}
           /\ \E c \in pod.ports : c.number = Number[p] /\ c.hostPort
  <2>1. CASE pod.hostNetwork
    BY <2>1 DEF HostPorts
  <2>2. CASE ~pod.hostNetwork
    BY <2>2, FilteredPorts DEF HostPorts
  <2> QED
    BY <2>1, <2>2
<1>5. \A p : p \in PortsOf(s) <=>
        /\ p \in HostPorts(pod, ports) \ {NilPort}
        /\ \E c \in pod.ports : c.number = Number[p] /\ ~c.local
  BY <1>3, FilteredPorts
<1>6. PortsOf(s) \subseteq Ports
  BY <1>2, <1>4, <1>5
<1>7. \A p \in Ports : p # NilPort
  BY NilPortAssumption
<1>8. ASSUME NEW p \in Ports
      PROVE  p \in PortsOf(s) <=>
               LET declared == {c \in pod.ports : c.number = Number[p]}
               IN  /\ p \in ports
                   /\ \E c \in declared : ~c.local
                   /\ pod.hostNetwork \/ \E c \in declared : c.hostPort
  BY <1>4, <1>5, <1>7
<1> QED
  BY <1>1, <1>6, <1>8 DEF pod, ports

\* Which flows a service exposes, by what the loop keeps of it.
LEMMA ExposesByPorts ==
  ASSUME NEW s \in Service, NEW g \in Groups, NEW p \in Ports
  PROVE  Exposes(s, <<g, p>>) <=>
           /\ Kept(s) /\ Head(s.slices).owned /\ p \in PortsOf(s)
           /\ \E n \in Head(s.slices).nodes \cap DOMAIN nodeToGroup : nodeToGroup[n] = g
<1>1. <<g, p>>[1] = g /\ <<g, p>>[2] = p
  OBVIOUS
<1>2. CASE s.slices # <<>> /\ s.pods # <<>>
  <2>1. p \in PortsOf(s) <=>
          LET declared == {c \in Head(s.pods).ports : c.number = Number[p]}
          IN  /\ p \in Head(s.slices).ports
              /\ \E c \in declared : ~c.local
              /\ Head(s.pods).hostNetwork \/ \E c \in declared : c.hostPort
    BY <1>2, PortsOfAre
  <2> QED
    BY <1>1, <1>2, <2>1 DEF Exposes, Kept
<1>3. CASE s.slices = <<>> \/ s.pods = <<>>
  BY <1>3 DEF Exposes, Kept
<1> QED
  BY <1>2, <1>3

LEMMA ServicesStep ==
  ASSUME IInv, ListServices,
         UNCHANGED <<cluster, setting, file, relisted, statics, custom, ranges, matrix>>
  PROVE  IInv'
<1>1. services' \in Seq(Service)
  BY ServicesAssumption DEF ListServices
<1>2. TypeOK'
  BY <1>1 DEF IInv, TypeOK, ExposedTypeOK, ListServices
<1>3. next' = 1 /\ sliceInfo' = <<>>
  BY DEF IInv, ListServices
<1>4. LoadInv'
  <2>1. Len(services') \in Nat /\ ToSet(sliceInfo') = {} /\ 1..next' - 1 = {}
    BY <1>1, <1>3 DEF ToSet
  <2>2. next' \in 1..Len(services') + 1
    BY <1>3, <2>1
  <2> QED
    BY <2>1, <2>2 DEF LoadInv
<1>5. pc' = "load"
  BY DEF ListServices
<1> QED
  BY <1>2, <1>4, <1>5 DEF IInv

LEMMA ListFailsStep ==
  ASSUME IInv, ListFails \/ NoControllerName,
         UNCHANGED <<cluster, setting, file, relisted, statics, custom, ranges, matrix>>
  PROVE  IInv'
<1>1. Fail
  BY DEF Fail, ListFails, NoControllerName
<1> QED
  BY <1>1, FailStep

LEMMA AppendElements ==
  ASSUME NEW S, NEW s \in Seq(S), NEW x \in S
  PROVE  ToSet(Append(s, x)) = ToSet(s) \cup {x}
<1>1. /\ Len(s) \in Nat /\ Append(s, x) \in Seq(S) /\ Len(Append(s, x)) = Len(s) + 1
      /\ \A i \in 1..Len(s) : Append(s, x)[i] = s[i]
      /\ Append(s, x)[Len(s) + 1] = x
  OBVIOUS
<1>2. \A i \in 1..Len(s) + 1 : i \in 1..Len(s) \/ i = Len(s) + 1
  BY <1>1
<1>3. \A i \in 1..Len(s) : i \in 1..Len(s) + 1
  BY <1>1
<1>4. Len(s) + 1 \in 1..Len(s) + 1
  BY <1>1
<1>5. \A y : y \in ToSet(s) <=> \E i \in 1..Len(s) : y = s[i]
  BY DEF ToSet
<1>6. \A y : y \in ToSet(Append(s, x)) <=> \E i \in 1..Len(s) + 1 : y = Append(s, x)[i]
  BY <1>1 DEF ToSet
<1> QED
  BY <1>1, <1>2, <1>3, <1>4, <1>5, <1>6

LEMMA LoadStep ==
  ASSUME IInv, LoadService,
         UNCHANGED <<cluster, setting, file, relisted, statics, custom, ranges, matrix>>
  PROVE  IInv'
<1>1. TypeOK /\ LoadInv /\ pc = "load" /\ pc' = "load"
  BY DEF IInv, LoadService
<1>2. /\ services \in Seq(Service) /\ next \in Nat /\ sliceInfo \in Seq(SliceInfo)
      /\ services' = services /\ next' = next + 1
  BY <1>1 DEF TypeOK, ExposedTypeOK, LoadService
<1>3. next \in 1..Len(services) /\ next' \in 1..Len(services) + 1 /\ Len(services) \in Nat
  BY <1>1, <1>2 DEF LoadInv, LoadService
<1>4. services[next] \in Service
  BY <1>2, <1>3
<1> DEFINE info == [service |-> next, ports |-> PortsOf(services[next])]
<1>5. CASE Kept(services[next])
  <2>1. sliceInfo' = Append(sliceInfo, info)
    BY <1>5 DEF LoadService
  <2>2. info \in SliceInfo
    BY <1>2, <1>4, <1>5, PortsOfAre DEF SliceInfo, Kept
  <2>3. info.service = next /\ info.ports = PortsOf(services[next])
    OBVIOUS
  <2> HIDE DEF info
  <2>4. sliceInfo' \in Seq(SliceInfo) /\ ToSet(sliceInfo') = ToSet(sliceInfo) \cup {info}
    BY <1>2, <2>1, <2>2, AppendElements
  <2>5. \A x \in ToSet(sliceInfo') :
          /\ x.service < next' /\ x.service \in DOMAIN services
          /\ Kept(services[x.service])
          /\ x.ports = PortsOf(services[x.service])
    <3> SUFFICES ASSUME NEW x \in ToSet(sliceInfo')
                 PROVE  /\ x.service < next' /\ x.service \in DOMAIN services
                        /\ Kept(services[x.service])
                        /\ x.ports = PortsOf(services[x.service])
      OBVIOUS
    <3>1. CASE x = info
      BY <1>2, <1>3, <1>5, <2>3, <3>1
    <3>2. CASE x \in ToSet(sliceInfo)
      <4>1. /\ x.service < next /\ x.service \in DOMAIN services
            /\ Kept(services[x.service])
            /\ x.ports = PortsOf(services[x.service])
        BY <1>1, <3>2 DEF LoadInv
      <4>2. x.service < next'
        BY <1>2, <1>3, <4>1
      <4> QED
        BY <4>1, <4>2
    <3> QED
      BY <2>4, <3>1, <3>2
  <2>6. \A i \in 1..next' - 1 :
          Kept(services[i]) => \E x \in ToSet(sliceInfo') : x.service = i
    <3> SUFFICES ASSUME NEW i \in 1..next' - 1, Kept(services[i])
                 PROVE  \E x \in ToSet(sliceInfo') : x.service = i
      OBVIOUS
    <3>1. i \in 1..next - 1 \/ i = next
      BY <1>2
    <3>2. CASE i = next
      BY <2>3, <2>4, <3>2
    <3>3. CASE i \in 1..next - 1
      BY <1>1, <2>4, <3>3 DEF LoadInv
    <3> QED
      BY <3>1, <3>2, <3>3
  <2>7. LoadInv'
    BY <1>2, <1>3, <2>5, <2>6 DEF LoadInv
  <2>8. TypeOK'
    BY <1>1, <1>2, <2>4 DEF TypeOK, ExposedTypeOK, LoadService
  <2> QED
    BY <1>1, <2>7, <2>8 DEF IInv
<1>6. CASE ~Kept(services[next])
  <2>1. sliceInfo' = sliceInfo
    BY <1>6 DEF LoadService
  <2>2. ASSUME NEW i \in 1..next' - 1, Kept(services[i])
        PROVE  \E x \in ToSet(sliceInfo) : x.service = i
    <3>1. i \in 1..next - 1
      BY <1>2, <1>6, <2>2
    <3> QED
      BY <1>1, <2>2, <3>1 DEF LoadInv
  <2>3. ASSUME NEW x \in ToSet(sliceInfo)
        PROVE  /\ x.service < next' /\ x.service \in DOMAIN services
               /\ Kept(services[x.service])
               /\ x.ports = PortsOf(services[x.service])
    <3>1. /\ x.service < next /\ x.service \in DOMAIN services
          /\ Kept(services[x.service])
          /\ x.ports = PortsOf(services[x.service])
      BY <1>1, <2>3 DEF LoadInv
    <3>2. x.service < next'
      BY <1>2, <1>3, <3>1
    <3> QED
      BY <3>1, <3>2
  <2>4. LoadInv'
    BY <1>2, <1>3, <2>1, <2>2, <2>3 DEF LoadInv
  <2>5. TypeOK'
    BY <1>1, <1>2, <2>1 DEF TypeOK, ExposedTypeOK, LoadService
  <2> QED
    BY <1>1, <2>4, <2>5 DEF IInv
<1> QED
  BY <1>5, <1>6

LEMMA DetailsStep ==
  ASSUME IInv, ToComDetails,
         UNCHANGED <<cluster, setting, file, relisted, statics, custom, ranges, matrix>>
  PROVE  IInv'
<1>1. TypeOK /\ LoadInv /\ pc = "load" /\ pc' = "statics"
  BY DEF IInv, ToComDetails
<1>2. /\ services \in Seq(Service) /\ next \in Nat /\ sliceInfo \in Seq(SliceInfo)
      /\ nodeToGroup \in [DOMAIN nodeToGroup -> Groups]
      /\ UNCHANGED <<services, nodeToGroup, next, sliceInfo>>
      /\ Len(services) \in Nat
  BY <1>1 DEF TypeOK, ExposedTypeOK, ToComDetails
<1>3. next - 1 = Len(services)
  <2>1. next \in 1..Len(services) + 1 /\ next > Len(services)
    BY <1>1 DEF LoadInv, ToComDetails
  <2> QED
    BY <1>2, <2>1
<1>4. ASSUME NEW info \in OwnedInfos
      PROVE  /\ info \in SliceInfo
             /\ info.service \in DOMAIN services /\ info.service \in Nat
             /\ services[info.service] \in Service
             /\ Kept(services[info.service])
             /\ info.ports = PortsOf(services[info.service])
             /\ info.ports \subseteq Ports
             /\ SliceOf(info) = Head(services[info.service].slices)
             /\ SliceOf(info).owned
             /\ SliceOf(info).optional \in BOOLEAN
             /\ GroupsOf(info) \subseteq Groups
  <2>1. info \in ToSet(sliceInfo) /\ SliceOf(info).owned
    BY DEF OwnedInfos
  <2>2. /\ info.service \in DOMAIN services
        /\ Kept(services[info.service])
        /\ info.ports = PortsOf(services[info.service])
    BY <1>1, <2>1 DEF LoadInv
  <2>3. info \in SliceInfo
    BY <1>2, <2>1 DEF ToSet
  <2>4. services[info.service] \in Service
    BY <1>2, <2>2
  <2>5. SliceOf(info) = Head(services[info.service].slices)
    BY DEF SliceOf
  <2>6. info.ports \subseteq Ports /\ SliceOf(info) \in EndpointSlice
    BY <2>2, <2>4, <2>5, PortsOfAre DEF Kept
  <2>7. GroupsOf(info) \subseteq Groups
    BY <1>2 DEF GroupsOf
  <2> QED
    BY <2>1, <2>2, <2>3, <2>4, <2>5, <2>6, <2>7 DEF EndpointSlice, SliceInfo
<1> DEFINE entry(info, g, p) ==
             [group |-> g, port |-> p, source |-> info.service, optional |-> SliceOf(info).optional]
<1>5. \A e : e \in exposed' <=>
        \E info \in OwnedInfos : \E g \in GroupsOf(info), p \in info.ports : e = entry(info, g, p)
  BY DEF ToComDetails, ComDetailsOf
<1>6. ASSUME NEW info, NEW g, NEW p
      PROVE  /\ Key(entry(info, g, p)) = <<g, p>>
             /\ entry(info, g, p).source = info.service
             /\ entry(info, g, p).optional = SliceOf(info).optional
  BY DEF Key
<1>7. ASSUME NEW e \in exposed'
      PROVE  /\ e \in Entry(Nat)
             /\ Key(e) \in Groups \X Ports
             /\ e.source \in DOMAIN services
             /\ Exposes(services[e.source], Key(e))
             /\ e.optional = Head(services[e.source].slices).optional
             /\ e = [group |-> Key(e)[1], port |-> Key(e)[2], source |-> e.source,
                     optional |-> Head(services[e.source].slices).optional]
  <2>0. PICK info \in OwnedInfos : \E g \in GroupsOf(info), p \in info.ports : e = entry(info, g, p)
    BY <1>5
  <2>1. PICK g \in GroupsOf(info), p \in info.ports : e = entry(info, g, p)
    BY <2>0
  <2>2. g \in Groups /\ p \in Ports
    BY <1>4, <2>1
  <2>3. e \in Entry(Nat)
    BY <1>4, <2>1, <2>2 DEF Entry
  <2>4. Key(e) = <<g, p>> /\ e.source = info.service /\ e.optional = SliceOf(info).optional
    BY <1>6, <2>1
  <2>5. Exposes(services[info.service], <<g, p>>)
    <3>1. \E n \in Head(services[info.service].slices).nodes \cap DOMAIN nodeToGroup :
            nodeToGroup[n] = g
      <4>1. \E n \in SliceOf(info).nodes \cap DOMAIN nodeToGroup : nodeToGroup[n] = g
        BY <2>1 DEF GroupsOf
      <4> QED
        BY <1>4, <4>1
    <3>2. p \in PortsOf(services[info.service])
      BY <1>4, <2>1
    <3> QED
      BY <1>4, <2>2, <3>1, <3>2, ExposesByPorts
  <2> HIDE DEF entry
  <2>6. e = [group |-> g, port |-> p, source |-> e.source,
             optional |-> Head(services[e.source].slices).optional]
    BY <1>4, <2>1, <2>4 DEF entry
  <2>7. <<g, p>>[1] = g /\ <<g, p>>[2] = p /\ <<g, p>> \in Groups \X Ports
    BY <2>2
  <2> QED
    BY <1>4, <2>3, <2>4, <2>5, <2>6, <2>7
<1>8. ASSUME NEW i \in DOMAIN services, NEW g \in Groups, NEW p \in Ports,
             Exposes(services[i], <<g, p>>)
      PROVE  <<g, p>> \in KeysOf(exposed')
  <2>1. services[i] \in Service /\ i \in 1..next - 1
    BY <1>2, <1>3
  <2>2. /\ Kept(services[i]) /\ Head(services[i].slices).owned /\ p \in PortsOf(services[i])
        /\ \E n \in Head(services[i].slices).nodes \cap DOMAIN nodeToGroup : nodeToGroup[n] = g
    BY <1>8, <2>1, ExposesByPorts
  <2>3. PICK info \in ToSet(sliceInfo) : info.service = i
    BY <1>1, <2>1, <2>2 DEF LoadInv
  <2>4. info.ports = PortsOf(services[i])
    BY <1>1, <2>3 DEF LoadInv
  <2>5. SliceOf(info) = Head(services[i].slices)
    BY <2>3 DEF SliceOf
  <2>6. info \in OwnedInfos
    BY <2>2, <2>3, <2>5 DEF OwnedInfos
  <2>7. g \in GroupsOf(info) /\ p \in info.ports
    BY <2>2, <2>4, <2>5 DEF GroupsOf
  <2>8. entry(info, g, p) \in exposed'
    BY <1>5, <2>6, <2>7
  <2> HIDE DEF entry
  <2> QED
    BY <1>6, <2>8 DEF KeysOf
<1> HIDE DEF entry
<1>9. KeysOf(exposed') = ExposedFlows'
  <2>2. ExposedFlows' = ExposedFlows
    BY <1>2, SameFlows
  <2>3. ASSUME NEW flow \in KeysOf(exposed') PROVE flow \in ExposedFlows
    BY <1>7, <2>3 DEF KeysOf, ExposedFlows
  <2>4. ASSUME NEW flow \in ExposedFlows PROVE flow \in KeysOf(exposed')
    <3>1. PICK g \in Groups, p \in Ports, i \in DOMAIN services :
            flow = <<g, p>> /\ Exposes(services[i], flow)
      BY DEF ExposedFlows
    <3> QED
      BY <1>8, <3>1
  <2> QED
    BY <2>2, <2>3, <2>4
<1>10. ASSUME NEW e \in exposed'
       PROVE  /\ e.source \in DOMAIN services'
              /\ Exposes(services[e.source], Key(e))'
              /\ e.optional = Head(services'[e.source].slices).optional
  <2>1. Exposes(services[e.source], Key(e))' <=> Exposes(services[e.source], Key(e))
    BY <1>2 DEF Exposes
  <2> QED
    BY <1>2, <1>7, <2>1
<1>11. ASSUME NEW d \in exposed', NEW e \in exposed', Key(d) = Key(e), d.source = e.source
       PROVE  d = e
  BY <1>7, <1>11
<1>12. ExposedInv'
  BY <1>9, <1>10, <1>11 DEF ExposedInv
<1>13. exposed' \in SUBSET Entry(Nat)
  BY <1>7
<1>14. TypeOK'
  BY <1>1, <1>2, <1>13 DEF TypeOK, ExposedTypeOK
<1> QED
  BY <1>1, <1>12, <1>14 DEF IInv

-----------------------------------------------------------------------------
(* The matrix: static entries                                              *)

LEMMA FunIsASeq ==
  ASSUME NEW n \in Nat, NEW S, NEW f \in [1..n -> S]
  PROVE  f \in Seq(S) /\ Len(f) = n /\ DOMAIN f = 1..n
<1>1. f \in Seq(S) /\ DOMAIN f = 1..n
  BY SeqDef
<1> QED
  BY <1>1

LEMMA IfTyped ==
  ASSUME NEW S, NEW s \in Seq(S), NEW condition
  PROVE  If(condition, s) \in Seq(S)
<1>1. <<>> \in Seq(S)
  OBVIOUS
<1> QED
  BY <1>1 DEF If

LEMMA ConcatTyped ==
  ASSUME NEW S, NEW s \in Seq(S), NEW t \in Seq(S)
  PROVE  s \o t \in Seq(S)
OBVIOUS

LEMMA WiderTyped ==
  ASSUME NEW S, NEW T, S \subseteq T, NEW s \in Seq(S)
  PROVE  s \in Seq(T)
OBVIOUS

LEMMA ListTyped == StaticList \in Seq(StaticEntry)
<1> DEFINE T(t) == StaticTable[t]
           multi == setting.topology # "SingleReplica"
<1>1. \A t \in Tables : T(t) \in Seq(StaticEntry)
  BY TablesAssumption
<1>2. /\ T("BaremetalMaster") \in Seq(StaticEntry) /\ T("BaremetalWorker") \in Seq(StaticEntry)
      /\ T("NoneMaster") \in Seq(StaticEntry) /\ T("NoneWorker") \in Seq(StaticEntry)
      /\ T("GeneralMaster") \in Seq(StaticEntry) /\ T("GeneralIPv6Master") \in Seq(StaticEntry)
      /\ T("GeneralDHCPMaster") \in Seq(StaticEntry) /\ T("Standard") \in Seq(StaticEntry)
      /\ T("GeneralWorker") \in Seq(StaticEntry) /\ T("GeneralIPv6Worker") \in Seq(StaticEntry)
      /\ T("GeneralDHCPWorker") \in Seq(StaticEntry)
  <2> HIDE DEF T
  <2> QED
    BY <1>1 DEF Tables
<1> DEFINE metal == If(setting.platform = "BareMetal",
                       T("BaremetalMaster") \o If(multi, T("BaremetalWorker")))
           none == If(setting.platform = "None", T("NoneMaster") \o If(multi, T("NoneWorker")))
           ipv6Master == If(IsIPv6Enabled, T("GeneralIPv6Master"))
           dhcpMaster == If(DHCPEnabled, T("GeneralDHCPMaster"))
           ipv6Worker == If(IsIPv6Enabled, T("GeneralIPv6Worker"))
           dhcpWorker == If(DHCPEnabled, T("GeneralDHCPWorker"))
           worker == T("Standard") \o T("GeneralWorker") \o ipv6Worker \o dhcpWorker
<1> HIDE DEF T, multi
<1>3. metal \in Seq(StaticEntry) /\ none \in Seq(StaticEntry)
  BY <1>2, IfTyped, ConcatTyped
<1>4. /\ ipv6Master \in Seq(StaticEntry) /\ dhcpMaster \in Seq(StaticEntry)
      /\ ipv6Worker \in Seq(StaticEntry) /\ dhcpWorker \in Seq(StaticEntry)
  BY <1>2, IfTyped
<1> HIDE DEF ipv6Worker, dhcpWorker
<1>5. worker \in Seq(StaticEntry)
  BY <1>2, <1>4, ConcatTyped
<1> HIDE DEF worker
<1>6. If(multi, worker) \in Seq(StaticEntry)
  BY <1>5, IfTyped
<1> HIDE DEF metal, none, ipv6Master, dhcpMaster
<1>7. metal \o none \o T("GeneralMaster") \o ipv6Master \o dhcpMaster \o If(multi, worker)
        \in Seq(StaticEntry)
  BY <1>2, <1>3, <1>4, <1>6, ConcatTyped
<1> QED
  BY <1>7 DEF StaticList, T, multi, metal, none, ipv6Master, dhcpMaster, ipv6Worker, dhcpWorker, worker

LEMMA SingletonsAre ==
  ASSUME NEW S, NEW s \in Seq(S)
  PROVE  /\ Singletons(s) \in Seq(SUBSET S) /\ Len(Singletons(s)) = Len(s)
         /\ \A i \in 1..Len(s) : Singletons(s)[i] = {s[i]}
         /\ UNION ToSet(Singletons(s)) = ToSet(s)
<1>1. Len(s) \in Nat /\ DOMAIN s = 1..Len(s) /\ \A i \in 1..Len(s) : s[i] \in S
  OBVIOUS
<1>2. Singletons(s) \in Seq(SUBSET S) /\ Len(Singletons(s)) = Len(s)
  BY <1>1 DEF Singletons
<1>3. \A i \in 1..Len(s) : Singletons(s)[i] = {s[i]}
  BY <1>1 DEF Singletons
<1>4. DOMAIN Singletons(s) = 1..Len(s)
  BY DEF Singletons
<1>5. UNION ToSet(Singletons(s)) = ToSet(s)
  BY <1>1, <1>3, <1>4 DEF ToSet
<1> QED
  BY <1>2, <1>3, <1>5

LEMMA StaticsStep ==
  ASSUME IInv, GetStaticEntries
  PROVE  IInv'
<1>1. /\ TypeOK /\ ExposedInv /\ pc' = "expand" /\ statics' = Singletons(StaticList)
      /\ UNCHANGED <<setting, services, nodeToGroup, exposed>>
  BY DEF IInv, GetStaticEntries, epVars
<1>2. StaticEntry \subseteq Entry({FromTable})
  BY RolesAssumption DEF StaticEntry, Entry
<1>3. statics' \in Seq(SUBSET Entry({FromTable}))
  <2>1. StaticList \in Seq(Entry({FromTable}))
    BY <1>2, ListTyped, WiderTyped
  <2> QED
    BY <1>1, <2>1, SingletonsAre
<1>4. TypeOK'
  BY <1>1, <1>3 DEF TypeOK, ExposedTypeOK, GetStaticEntries, epVars
<1>5. ExposedInv'
  BY <1>1, SameExposed
<1>6. StaticList' = StaticList
  BY <1>1, SameList
<1>7. statics' = Singletons(StaticList')
  BY <1>1, <1>6
<1> QED
  BY <1>1, <1>4, <1>5, <1>7 DEF IInv

\* The groups of the nodes with a role, and the roles of each.
LEMMA PoolRolesAre ==
  ASSUME NEW nodes, NEW groups
  PROVE  LET roled == {n \in DOMAIN nodes : nodes[n].roles # {}}
             pools == PoolRoles(nodes, groups)
         IN  /\ DOMAIN pools = {GroupIn(groups, n) : n \in roled}
             /\ \A g \in DOMAIN pools : \A r :
                  r \in pools[g] <=>
                    \E n \in roled : GroupIn(groups, n) = g /\ r \in nodes[n].roles
<1> DEFINE roled == {n \in DOMAIN nodes : nodes[n].roles # {}}
           pools == PoolRoles(nodes, groups)
<1> HIDE DEF roled
<1>1. pools = [g \in {GroupIn(groups, n) : n \in roled} |->
                 UNION {nodes[n].roles : n \in {m \in roled : GroupIn(groups, m) = g}}]
  BY DEF PoolRoles, roled
<1> HIDE DEF pools
<1>2. DOMAIN pools = {GroupIn(groups, n) : n \in roled}
  BY <1>1
<1>3. ASSUME NEW g \in DOMAIN pools, NEW r
      PROVE  r \in pools[g] <=> \E n \in roled : GroupIn(groups, n) = g /\ r \in nodes[n].roles
  <2>1. pools[g] = UNION {nodes[n].roles : n \in {m \in roled : GroupIn(groups, m) = g}}
    BY <1>1, <1>2
  <2> QED
    BY <2>1
<1> QED
  BY <1>2, <1>3 DEF roled, pools

LEMMA GroupInTyped ==
  ASSUME TypeOK, NEW n
  PROVE  GroupIn(nodeToGroup, n) \in Groups \cup {""}
BY DEF GroupIn, TypeOK, ExposedTypeOK

LEMMA ExpandStep ==
  ASSUME IInv, ExpandStaticEntries
  PROVE  IInv'
<1>1. CASE Fail
  BY <1>1, FailStep
<1> DEFINE pools == PoolRoles(cluster, nodeToGroup)
           L == StaticList
           G(n) == GroupIn(nodeToGroup, n)
<1>2. CASE ~Fail
  <2>1. /\ TypeOK /\ ExposedInv /\ pc = "expand" /\ pc' = "ranges" /\ statics = Singletons(L)
        /\ relisted' = cluster
        /\ UNCHANGED <<cluster, setting, file, custom, ranges, matrix, epVars>>
        /\ statics' = IF DOMAIN pools = {} THEN statics
                      ELSE [i \in DOMAIN statics |-> UNION {Expand(e, pools) : e \in statics[i]}]
    BY <1>2 DEF IInv, ExpandStaticEntries
  <2>2. UNCHANGED <<setting, services, nodeToGroup, next, sliceInfo, exposed>>
    BY <2>1 DEF epVars
  <2> DEFINE roled == {n \in DOMAIN cluster : cluster[n].roles # {}}
  <2>3. /\ DOMAIN pools = {G(n) : n \in roled}
        /\ \A g \in DOMAIN pools : \A r :
             r \in pools[g] <=> \E n \in roled : G(n) = g /\ r \in cluster[n].roles
    BY PoolRolesAre
  <2>4. /\ L \in Seq(StaticEntry) /\ Len(L) \in Nat /\ DOMAIN L = 1..Len(L)
        /\ \A i \in 1..Len(L) : L[i] \in StaticEntry
    BY ListTyped
  <2>5. /\ DOMAIN statics = 1..Len(L) /\ \A i \in 1..Len(L) : statics[i] = {L[i]}
        /\ UNION ToSet(statics) = ToSet(L)
    <3>1. statics \in Seq(SUBSET StaticEntry) /\ Len(statics) = Len(L)
      BY <2>1, <2>4, SingletonsAre
    <3> QED
      BY <2>1, <2>4, <3>1, SingletonsAre
  <2>6. StaticList' = L
    BY <2>2, SameList
  <2>7. Roled' = roled
    BY <2>1 DEF Roled
  <2>8. /\ roled = {} => StaticFlows' = KeysOf(ToSet(L))
        /\ roled # {} =>
             StaticFlows' = {<<G(x[1]), x[2].port>> :
                               x \in {y \in roled \X ToSet(L) : y[2].group \in cluster[y[1]].roles}}
    BY <2>1, <2>2, <2>6, <2>7 DEF StaticFlows, StaticEntries
  <2> HIDE DEF pools, L, G, roled
  <2>9. CASE roled = {}
    <3>1. statics' = statics
      BY <2>1, <2>3, <2>9
    <3>2. KeysOf(UNION ToSet(statics')) = StaticFlows'
      BY <2>5, <2>8, <2>9, <3>1
    <3>3. \A i \in DOMAIN statics' : \A d, e \in statics'[i] : Key(d) = Key(e) => d = e
      BY <2>5, <3>1
    <3>4. StaticsInv'
      BY <3>2, <3>3 DEF StaticsInv
    <3>5. TypeOK'
      BY <2>1, <2>2, <3>1 DEF TypeOK, ExposedTypeOK
    <3>6. ExposedInv'
      BY <2>1, <2>2, SameExposed
    <3> QED
      BY <2>1, <3>4, <3>5, <3>6 DEF IInv
  <2>10. CASE roled # {}
    <3>1. statics' = [i \in 1..Len(L) |-> Expand(L[i], pools)]
      <4>1. DOMAIN pools # {}
        BY <2>3, <2>10
      <4>2. statics' = [i \in 1..Len(L) |-> UNION {Expand(e, pools) : e \in statics[i]}]
        BY <2>1, <2>5, <4>1
      <4>3. \A i \in 1..Len(L) : UNION {Expand(e, pools) : e \in statics[i]} = Expand(L[i], pools)
        BY <2>5
      <4> QED
        BY <4>2, <4>3
    <3>2. ASSUME NEW i \in 1..Len(L), NEW x
          PROVE  x \in statics'[i] <=>
                   \E n \in roled : /\ L[i].group \in cluster[n].roles
                                    /\ x = [L[i] EXCEPT !.group = G(n)]
      <4>1. x \in statics'[i] <=>
              \E g \in DOMAIN pools : L[i].group \in pools[g] /\ x = [L[i] EXCEPT !.group = g]
        BY <3>1 DEF Expand
      <4> QED
        BY <2>3, <4>1
    <3>3. ASSUME NEW i \in 1..Len(L), NEW n \in roled
          PROVE  LET x == [L[i] EXCEPT !.group = G(n)]
                 IN  x \in Entry({FromTable}) /\ Key(x) = <<G(n), L[i].port>>
      <4>1. L[i] \in StaticEntry /\ G(n) \in Groups \cup {""}
        BY <2>1, <2>4, GroupInTyped DEF G
      <4> QED
        BY <4>1 DEF StaticEntry, Entry, Key
    <3>4. \A i \in 1..Len(L) : \A d, e \in statics'[i] : Key(d) = Key(e) => d = e
      <4> SUFFICES ASSUME NEW i \in 1..Len(L), NEW d \in statics'[i], NEW e \in statics'[i],
                          Key(d) = Key(e)
                   PROVE  d = e
        OBVIOUS
      <4>1. PICK m \in roled : d = [L[i] EXCEPT !.group = G(m)]
        BY <3>2
      <4>2. PICK n \in roled : e = [L[i] EXCEPT !.group = G(n)]
        BY <3>2
      <4>3. Key(d) = <<G(m), L[i].port>> /\ Key(e) = <<G(n), L[i].port>>
        BY <3>3, <4>1, <4>2
      <4>4. G(m) = G(n)
        <5>1. <<G(m), L[i].port>> = <<G(n), L[i].port>>
          BY <4>3
        <5> QED
          BY <5>1
      <4> QED
        BY <4>1, <4>2, <4>4
    <3>5. statics' \in Seq(SUBSET Entry({FromTable})) /\ DOMAIN statics' = 1..Len(L)
      <4>1. ASSUME NEW i \in 1..Len(L), NEW x \in statics'[i] PROVE x \in Entry({FromTable})
        <5>1. PICK n \in roled : x = [L[i] EXCEPT !.group = G(n)]
          BY <3>2
        <5> QED
          BY <3>3, <5>1
      <4>2. \A i \in 1..Len(L) : Expand(L[i], pools) \in SUBSET Entry({FromTable})
        BY <3>1, <4>1
      <4>3. Len(L) \in Nat
        BY <2>4
      <4> DEFINE E == SUBSET Entry({FromTable})
                 n == Len(L)
      <4>4. statics' \in [1..n -> E]
        BY <3>1, <4>2
      <4> HIDE DEF E, n
      <4>5. n \in Nat
        BY <4>3 DEF n
      <4>6. statics' \in Seq(E) /\ DOMAIN statics' = 1..n
        BY <4>4, <4>5, FunIsASeq
      <4> QED
        BY <4>6 DEF E, n
    <3>6. KeysOf(UNION ToSet(statics')) = StaticFlows'
      <4>1. \A flow : flow \in KeysOf(UNION ToSet(statics')) <=>
              \E i \in 1..Len(L) : \E x \in statics'[i] : flow = Key(x)
        BY <3>5 DEF KeysOf, ToSet
      <4>2. \A flow : flow \in StaticFlows' <=>
              \E n \in roled, i \in 1..Len(L) :
                L[i].group \in cluster[n].roles /\ flow = <<G(n), L[i].port>>
        <5>1. \A flow : flow \in StaticFlows' <=>
                \E n \in roled, e \in ToSet(L) :
                  e.group \in cluster[n].roles /\ flow = <<G(n), e.port>>
          <6>1. ASSUME NEW flow
                PROVE  flow \in StaticFlows' <=>
                         \E x \in roled \X ToSet(L) :
                           x[2].group \in cluster[x[1]].roles /\ flow = <<G(x[1]), x[2].port>>
            BY <2>8, <2>10
          <6>2. \A x \in roled \X ToSet(L) : x[1] \in roled /\ x[2] \in ToSet(L)
            OBVIOUS
          <6>3. ASSUME NEW n \in roled, NEW e \in ToSet(L)
                PROVE  /\ <<n, e>> \in roled \X ToSet(L)
                       /\ <<n, e>>[1] = n /\ <<n, e>>[2] = e
            OBVIOUS
          <6>4. ASSUME NEW flow \in StaticFlows'
                PROVE  \E n \in roled, e \in ToSet(L) :
                         e.group \in cluster[n].roles /\ flow = <<G(n), e.port>>
            BY <6>1, <6>2
          <6>5. ASSUME NEW flow, NEW n \in roled, NEW e \in ToSet(L),
                       e.group \in cluster[n].roles, flow = <<G(n), e.port>>
                PROVE  flow \in StaticFlows'
            <7>1. /\ <<n, e>>[2].group \in cluster[<<n, e>>[1]].roles
                  /\ flow = <<G(<<n, e>>[1]), <<n, e>>[2].port>>
              BY <6>3, <6>5
            <7> QED
              BY <6>1, <6>3, <7>1
          <6> QED
            BY <6>4, <6>5
        <5> QED
          BY <2>4, <5>1 DEF ToSet
      <4>3. ASSUME NEW flow, NEW i \in 1..Len(L), NEW x \in statics'[i], flow = Key(x)
            PROVE  flow \in StaticFlows'
        BY <3>2, <3>3, <4>2, <4>3
      <4>4. ASSUME NEW flow, NEW n \in roled, NEW i \in 1..Len(L),
                   L[i].group \in cluster[n].roles, flow = <<G(n), L[i].port>>
            PROVE  flow \in KeysOf(UNION ToSet(statics'))
        BY <3>2, <3>3, <4>1, <4>4
      <4> QED
        BY <4>1, <4>2, <4>3, <4>4
    <3>7. StaticsInv'
      BY <3>4, <3>5, <3>6 DEF StaticsInv
    <3>8. TypeOK'
      BY <2>1, <2>2, <3>5 DEF TypeOK, ExposedTypeOK
    <3>9. ExposedInv'
      BY <2>1, <2>2, SameExposed
    <3> QED
      BY <2>1, <3>7, <3>8, <3>9 DEF IInv
  <2> QED
    BY <2>9, <2>10
<1> QED
  BY <1>1, <1>2

-----------------------------------------------------------------------------
(* The matrix: ranges and custom entries                                   *)

\* The bounds of a text that is a range.
LEMMA RangeTexts ==
  ASSUME NEW text \in Text, IsPortRange(text)
  PROVE  Len(text) = 2 /\ text[1] \in Nat /\ text[2] \in Nat /\ text = <<text[1], text[2]>>
<1>1. Len(text) = 2 /\ text \in Seq(Nat \cup {Blank, Word})
  BY DEF Text, IsPortRange
<1>2. /\ text[1] \in Nat \cup {Blank, Word} /\ text[2] \in Nat \cup {Blank, Word}
      /\ text[1] \notin {Blank, Word} /\ text[2] \notin {Blank, Word}
  BY <1>1 DEF IsPortRange, IsNumber
<1>3. text = <<text[1], text[2]>>
  BY <1>1
<1> QED
  BY <1>1, <1>2, <1>3

LEMMA PairIsASeq ==
  ASSUME NEW S, NEW f \in [1..2 -> S]
  PROVE  f \in Seq(S)
<1>1. \A n \in Nat : f \in [1..n -> S] => f \in Seq(S)
  BY FunIsASeq
<1> QED
  BY <1>1

LEMMA RangesStep ==
  ASSUME IInv, GetDynamicRanges
  PROVE  IInv'
<1>1. CASE Fail
  BY <1>1, FailStep
<1>2. CASE ~Fail
  <2>1. /\ TypeOK /\ ExposedInv /\ StaticsInv /\ pc = "ranges" /\ pc' = "custom"
        /\ setting.nodePorts = <<Blank>> \/ IsPortRange(setting.nodePorts)
        /\ UNCHANGED <<cluster, setting, file, relisted, statics, custom, matrix, services,
                       nodeToGroup, next, sliceInfo, exposed>>
    BY <1>2, SMT DEF IInv, GetDynamicRanges, NodePorts, epVars
  <2>2. setting.nodePorts \in Text
    BY <2>1, SettingsAssumption DEF TypeOK, Setting
  <2>7. \A i \in 1..2 : <<"TCP", "UDP">>[i] \in Protocols
    BY ProtocolAssumption
  <2>3. ranges' \in Seq(DynamicRange)
    <3>1. CASE setting.nodePorts = <<Blank>>
      <4> DEFINE s == [i \in 1..2 |-> [protocol |-> <<"TCP", "UDP">>[i], minPort |-> 30000,
                                        maxPort |-> 32767, source |-> FromCluster, optional |-> TRUE]]
      <4>1. ranges' = s
        BY <1>2, <3>1, SMT DEF GetDynamicRanges, NodePorts
      <4>2. s \in [1..2 -> DynamicRange]
        BY <2>7, SMT DEF DynamicRange, Sources
      <4> HIDE DEF s
      <4> QED
        BY <4>1, <4>2, PairIsASeq
    <3>2. CASE setting.nodePorts # <<Blank>>
      <4>1. setting.nodePorts[1] \in Nat /\ setting.nodePorts[2] \in Nat
        BY <2>1, <2>2, <3>2, RangeTexts
      <4> DEFINE s == [i \in 1..2 |-> [protocol |-> <<"TCP", "UDP">>[i], minPort |-> setting.nodePorts[1],
                                        maxPort |-> setting.nodePorts[2], source |-> FromCluster, optional |-> FALSE]]
      <4>2. ranges' = s
        BY <1>2, <3>2, SMT DEF GetDynamicRanges, NodePorts
      <4>3. s \in [1..2 -> DynamicRange]
        BY <2>7, <4>1, SMT DEF DynamicRange, Sources
      <4> HIDE DEF s
      <4> QED
        BY <4>2, <4>3, PairIsASeq
    <3> QED
      BY <3>1, <3>2
  <2>4. TypeOK'
    BY <2>1, <2>3 DEF TypeOK, ExposedTypeOK
  <2>5. ExposedInv'
    BY <2>1, SameExposed
  <2>6. StaticsInv'
    BY <2>1, SameStatics
  <2> QED
    BY <2>1, <2>4, <2>5, <2>6 DEF IInv
<1> QED
  BY <1>1, <1>2

\* What the two row parsers make of a row that is not malformed.
LEMMA PortRowParsed ==
  ASSUME NEW row \in Row, HasPort(row),
         NEW p \in Ports, Protocol[p] = row.protocol, Number[p] = row.text[1]
  PROVE  /\ parseComDetailsFromCSVRow(row).port = p
         /\ parseComDetailsFromCSVRow(row) \in Entry({row.source})
         /\ Key(parseComDetailsFromCSVRow(row)) = <<row.group, p>>
<1> DEFINE q == CHOOSE q \in Ports : Protocol[q] = row.protocol /\ Number[q] = row.text[1]
<1>1. q \in Ports /\ Protocol[q] = row.protocol /\ Number[q] = row.text[1]
  OBVIOUS
<1>2. q = p
  BY <1>1, ProtocolAssumption
<1> HIDE DEF q
<1>3. parseComDetailsFromCSVRow(row) =
        [group |-> row.group, source |-> row.source, optional |-> row.optional, port |-> p]
  BY <1>2 DEF parseComDetailsFromCSVRow, q
<1>4. row.group \in Groups \cup {""} /\ row.optional \in BOOLEAN
  BY DEF Row
<1>5. parseComDetailsFromCSVRow(row) \in Entry({row.source})
  <2>1. [group |-> row.group, source |-> row.source, optional |-> row.optional, port |-> p]
          = [group |-> row.group, port |-> p, source |-> row.source, optional |-> row.optional]
    OBVIOUS
  <2>2. [group |-> row.group, port |-> p, source |-> row.source, optional |-> row.optional]
          \in Entry({row.source})
    BY <1>4 DEF Entry
  <2> QED
    BY <1>3, <2>1, <2>2
<1>6. /\ parseComDetailsFromCSVRow(row).port = p
      /\ parseComDetailsFromCSVRow(row).group = row.group
  BY <1>3
<1> QED
  BY <1>5, <1>6 DEF Key

LEMMA RangeRowParsed ==
  ASSUME NEW row \in Row, HasHyphen(row), ~Malformed(row)
  PROVE  /\ parseDynamicRangeFromCSVRow(row) \in DynamicRange
         /\ parseDynamicRangeFromCSVRow(row).source = row.source
         /\ row.text = <<parseDynamicRangeFromCSVRow(row).minPort,
                        parseDynamicRangeFromCSVRow(row).maxPort>>
         /\ row.protocol = parseDynamicRangeFromCSVRow(row).protocol
<1>1. IsPortRange(row.text) /\ row.text \in Text
  BY DEF Malformed, Row
<1>2. row.text[1] \in Nat /\ row.text[2] \in Nat /\ row.text = <<row.text[1], row.text[2]>>
  BY <1>1, RangeTexts
<1> QED
  BY <1>2 DEF parseDynamicRangeFromCSVRow, DynamicRange, Row

LEMMA PairIs ==
  ASSUME NEW S, NEW T, NEW x \in S \X T
  PROVE  x[1] \in S /\ x[2] \in T /\ x = <<x[1], x[2]>>
OBVIOUS

LEMMA SinglePort ==
  ASSUME NEW row, NEW n, row.text = <<n>>, n # Blank
  PROVE  HasPort(row) /\ ~HasHyphen(row) /\ row.text[1] = n
<1>1. Len(row.text) = 1 /\ row.text[1] = n
  OBVIOUS
<1> QED
  BY <1>1 DEF HasPort, HasHyphen

\* The rows that become ports and those that become ranges.
LEMMA RowsParsed ==
  ASSUME NEW rs \in Seq(Row)
  PROVE  LET m == parseCSVToComMatrix(rs)
             P == {i \in 1..Len(rs) : HasPort(rs[i])}
             R == {i \in 1..Len(rs) : HasHyphen(rs[i])}
         IN  /\ m = [ports |-> m.ports, ranges |-> m.ranges]
             /\ Select(rs, P) \in Seq(Row) /\ Select(rs, R) \in Seq(Row)
             /\ m.ports = [i \in 1..Len(Select(rs, P)) |-> parseComDetailsFromCSVRow(Select(rs, P)[i])]
             /\ m.ranges = [i \in 1..Len(Select(rs, R)) |-> parseDynamicRangeFromCSVRow(Select(rs, R)[i])]
             /\ \A i \in 1..Len(Select(rs, P)) : \E k \in P : Select(rs, P)[i] = rs[k]
             /\ \A k \in P : \E i \in 1..Len(Select(rs, P)) : Select(rs, P)[i] = rs[k]
             /\ \A i \in 1..Len(Select(rs, R)) : \E k \in R : Select(rs, R)[i] = rs[k]
             /\ \A k \in R : \E i \in 1..Len(Select(rs, R)) : Select(rs, R)[i] = rs[k]
<1> DEFINE m == parseCSVToComMatrix(rs)
           P == {i \in 1..Len(rs) : HasPort(rs[i])}
           R == {i \in 1..Len(rs) : HasHyphen(rs[i])}
<1>1. P \in SUBSET (1..Len(rs)) /\ R \in SUBSET (1..Len(rs))
  OBVIOUS
<1>2. m = [ports |-> Each(Select(rs, P), parseComDetailsFromCSVRow),
           ranges |-> Each(Select(rs, R), parseDynamicRangeFromCSVRow)]
  BY DEF parseCSVToComMatrix
<1> HIDE DEF m, P, R
<1>3. Select(rs, P) \in Seq(Row) /\ Select(rs, R) \in Seq(Row)
  BY <1>1, Selected
<1>4. /\ \A i \in 1..Len(Select(rs, P)) : \E k \in P : Select(rs, P)[i] = rs[k]
      /\ \A k \in P : \E i \in 1..Len(Select(rs, P)) : Select(rs, P)[i] = rs[k]
  BY <1>1, SelectedElements
<1>5. /\ \A i \in 1..Len(Select(rs, R)) : \E k \in R : Select(rs, R)[i] = rs[k]
      /\ \A k \in R : \E i \in 1..Len(Select(rs, R)) : Select(rs, R)[i] = rs[k]
  BY <1>1, SelectedElements
<1>6. /\ DOMAIN Select(rs, P) = 1..Len(Select(rs, P))
      /\ DOMAIN Select(rs, R) = 1..Len(Select(rs, R))
  BY <1>3
<1>7. /\ m.ports = [i \in 1..Len(Select(rs, P)) |-> parseComDetailsFromCSVRow(Select(rs, P)[i])]
      /\ m.ranges = [i \in 1..Len(Select(rs, R)) |-> parseDynamicRangeFromCSVRow(Select(rs, R)[i])]
  BY <1>2, <1>6 DEF Each
<1>8. m = [ports |-> m.ports, ranges |-> m.ranges]
  BY <1>2
<1> QED
  BY <1>3, <1>4, <1>5, <1>7, <1>8 DEF m, P, R

LEMMA CSVTaken ==
  ASSUME NEW f \in CustomFiles, f.format = "csv",
         \A i \in 1..Len(f.rows) : ~Malformed(f.rows[i])
  PROVE  LET m == parseCSVToComMatrix(f.rows)
         IN  /\ f.rows \in Seq({row \in Row : row.source = FromFile})
             /\ m \in [ports : Seq(Entry({FromFile})), ranges : Seq(DynamicRange)]
             /\ KeysOf(ToSet(m.ports)) =
                  {flow \in (Groups \cup {""}) \X Ports : \E row \in ToSet(f.rows) : Says(row, flow)}
             /\ \A i \in 1..Len(f.rows) : HasHyphen(f.rows[i]) =>
                  parseDynamicRangeFromCSVRow(f.rows[i]) \in ToSet(m.ranges)
<1> DEFINE rs == f.rows
           m == parseCSVToComMatrix(rs)
           P == {i \in 1..Len(rs) : HasPort(rs[i])}
           R == {i \in 1..Len(rs) : HasHyphen(rs[i])}
           sp == Select(rs, P)
           sr == Select(rs, R)
           FromRow(i) == parseComDetailsFromCSVRow(rs[i])
<1>1. f \in CSVFile
  <2>1. f \in CSVFile \/ f \in ListsFile \/ f = NoFile \/ f = BadFile
    BY FilesAssumption
  <2>2. f \in ListsFile => f.format \in {"json", "yaml"}
    BY DEF ListsFile
  <2>3. NoFile.format = "none" /\ BadFile.format = "bad"
    BY DEF NoFile, BadFile
  <2>4. f.format # "json" /\ f.format # "yaml" /\ f.format # "none" /\ f.format # "bad"
    OBVIOUS
  <2> QED
    BY <2>1, <2>2, <2>3, <2>4
<1>2. rs \in Seq({row \in Row : row.source = FromFile})
  BY <1>1 DEF CSVFile
<1>3. rs \in Seq(Row) /\ \A i \in 1..Len(rs) : rs[i] \in Row /\ rs[i].source = FromFile
  BY <1>2
<1>4. /\ sp \in Seq(Row) /\ sr \in Seq(Row)
      /\ m = [ports |-> m.ports, ranges |-> m.ranges]
      /\ m.ports = [i \in 1..Len(sp) |-> parseComDetailsFromCSVRow(sp[i])]
      /\ m.ranges = [i \in 1..Len(sr) |-> parseDynamicRangeFromCSVRow(sr[i])]
      /\ \A i \in 1..Len(sp) : \E k \in P : sp[i] = rs[k]
      /\ \A k \in P : \E i \in 1..Len(sp) : sp[i] = rs[k]
      /\ \A i \in 1..Len(sr) : \E k \in R : sr[i] = rs[k]
      /\ \A k \in R : \E i \in 1..Len(sr) : sr[i] = rs[k]
  BY <1>3, RowsParsed
<1>5. /\ \A k \in P : k \in 1..Len(rs) /\ HasPort(rs[k]) /\ ~Malformed(rs[k])
      /\ \A k \in R : k \in 1..Len(rs) /\ HasHyphen(rs[k]) /\ ~Malformed(rs[k])
  OBVIOUS
<1>6. /\ \A k \in 1..Len(rs) : HasPort(rs[k]) => k \in P
      /\ \A k \in 1..Len(rs) : HasHyphen(rs[k]) => k \in R
  OBVIOUS
<1>7. \A k \in P : \E p \in Ports : Protocol[p] = rs[k].protocol /\ Number[p] = rs[k].text[1]
  BY <1>5, PortsAssumption DEF Malformed
<1> HIDE DEF rs, m, P, R, sp, sr
<1>8. ASSUME NEW k \in P
      PROVE  /\ FromRow(k) \in Entry({FromFile})
             /\ FromRow(k).port \in Ports /\ Key(FromRow(k)) = <<rs[k].group, FromRow(k).port>>
             /\ Protocol[FromRow(k).port] = rs[k].protocol
             /\ Number[FromRow(k).port] = rs[k].text[1]
  <2>1. PICK p \in Ports : Protocol[p] = rs[k].protocol /\ Number[p] = rs[k].text[1]
    BY <1>7
  <2>2. rs[k] \in Row /\ HasPort(rs[k]) /\ rs[k].source = FromFile
    BY <1>3, <1>5
  <2>3. /\ FromRow(k).port = p /\ FromRow(k) \in Entry({rs[k].source})
        /\ Key(FromRow(k)) = <<rs[k].group, p>>
    BY <2>1, <2>2, PortRowParsed
  <2> QED
    BY <2>1, <2>2, <2>3
<1>9. m.ports \in Seq(Entry({FromFile}))
  <2>1. \A i \in 1..Len(sp) : parseComDetailsFromCSVRow(sp[i]) \in Entry({FromFile})
    BY <1>4, <1>8
  <2> DEFINE E == Entry({FromFile})
             n == Len(sp)
  <2> HIDE DEF E
  <2>4. \A i \in 1..Len(sp) : parseComDetailsFromCSVRow(sp[i]) \in E
    BY <2>1 DEF E
  <2>2. m.ports \in [1..n -> E] /\ n \in Nat
    BY <1>4, <2>4
  <2> HIDE DEF n
  <2>3. m.ports \in Seq(E)
    BY <2>2, FunIsASeq
  <2> QED
    BY <2>3 DEF E
<1>10. m.ranges \in Seq(DynamicRange)
  <2>1. \A i \in 1..Len(sr) : parseDynamicRangeFromCSVRow(sr[i]) \in DynamicRange
    <3>1. \A k \in R : parseDynamicRangeFromCSVRow(rs[k]) \in DynamicRange
      BY <1>3, <1>5, RangeRowParsed
    <3> QED
      BY <1>4, <3>1
  <2> DEFINE n == Len(sr)
  <2>2. m.ranges \in [1..n -> DynamicRange] /\ n \in Nat
    BY <1>4, <2>1
  <2> HIDE DEF n
  <2> QED
    BY <2>2, FunIsASeq
<1>11. \A e : e \in ToSet(m.ports) <=> \E k \in P : e = FromRow(k)
  <2>1. \A e : e \in ToSet(m.ports) <=> \E i \in 1..Len(sp) : e = parseComDetailsFromCSVRow(sp[i])
    BY <1>4 DEF ToSet
  <2> QED
    BY <1>4, <2>1
<1>12. \A k \in R : parseDynamicRangeFromCSVRow(rs[k]) \in ToSet(m.ranges)
  <2>1. \A e : e \in ToSet(m.ranges) <=> \E i \in 1..Len(sr) : e = parseDynamicRangeFromCSVRow(sr[i])
    BY <1>4 DEF ToSet
  <2> QED
    BY <1>4, <2>1
<1>13. \A flow : flow \in KeysOf(ToSet(m.ports)) <=> \E k \in P : flow = Key(FromRow(k))
  BY <1>11 DEF KeysOf
<1>14. \A row : row \in ToSet(rs) <=> \E k \in 1..Len(rs) : row = rs[k]
  BY <1>3 DEF ToSet
<1>15. ASSUME NEW flow \in KeysOf(ToSet(m.ports))
       PROVE  flow \in (Groups \cup {""}) \X Ports /\ \E row \in ToSet(rs) : Says(row, flow)
  <2>1. PICK k \in P : flow = Key(FromRow(k))
    BY <1>13
  <2>2. rs[k] \in Row /\ HasPort(rs[k]) /\ rs[k] \in ToSet(rs)
    BY <1>3, <1>5, <1>14
  <2>3. rs[k].text = <<rs[k].text[1]>>
    <3>1. rs[k].text \in Seq(Nat \cup {Blank, Word}) /\ rs[k].text # <<>> /\ ~(Len(rs[k].text) > 1)
      BY <2>2 DEF Row, Text, HasPort, HasHyphen
    <3> QED
      BY <3>1
  <2>4. flow[1] = rs[k].group /\ flow[2] = FromRow(k).port
    BY <1>8, <2>1
  <2>5. Says(rs[k], flow)
    BY <1>8, <2>3, <2>4 DEF Says
  <2>6. rs[k].group \in Groups \cup {""}
    BY <2>2 DEF Row
  <2>7. flow = <<rs[k].group, FromRow(k).port>> /\ FromRow(k).port \in Ports
    BY <1>8, <2>1
  <2>8. flow \in (Groups \cup {""}) \X Ports
    BY <2>6, <2>7
  <2> QED
    BY <2>2, <2>5, <2>8
<1>16. ASSUME NEW g \in Groups \cup {""}, NEW p \in Ports, NEW row \in ToSet(rs), Says(row, <<g, p>>)
       PROVE  <<g, p>> \in KeysOf(ToSet(m.ports))
  <2>1. PICK k \in 1..Len(rs) : row = rs[k]
    BY <1>14
  <2>2. rs[k].group = g /\ rs[k].text = <<Number[p]>> /\ rs[k].protocol = Protocol[p]
    BY <1>16, <2>1 DEF Says
  <2>3. Number[p] \in Nat /\ Number[p] # Blank
    BY NumberAssumption, TextAssumption
  <2>4. HasPort(rs[k]) /\ rs[k].text[1] = Number[p]
    BY <2>2, <2>3, SinglePort
  <2>6. k \in P /\ rs[k] \in Row
    BY <1>3, <1>6, <2>4
  <2>7. Key(FromRow(k)) = <<rs[k].group, p>>
    BY <2>2, <2>4, <2>6, PortRowParsed
  <2> QED
    BY <1>13, <2>2, <2>6, <2>7
<1>17. KeysOf(ToSet(m.ports)) =
         {flow \in (Groups \cup {""}) \X Ports : \E row \in ToSet(rs) : Says(row, flow)}
  <2>1. ASSUME NEW flow \in (Groups \cup {""}) \X Ports, \E row \in ToSet(rs) : Says(row, flow)
        PROVE  flow \in KeysOf(ToSet(m.ports))
    <3>1. flow[1] \in Groups \cup {""} /\ flow[2] \in Ports /\ flow = <<flow[1], flow[2]>>
      BY PairIs, ZenonT(30)
    <3> QED
      BY <1>16, <2>1, <3>1
  <2> QED
    BY <1>15, <2>1
<1>18. m \in [ports : Seq(Entry({FromFile})), ranges : Seq(DynamicRange)]
  BY <1>4, <1>9, <1>10
<1>19. \A i \in 1..Len(rs) : HasHyphen(rs[i]) =>
         parseDynamicRangeFromCSVRow(rs[i]) \in ToSet(m.ranges)
  BY <1>6, <1>12
<1> QED
  BY <1>2, <1>17, <1>18, <1>19 DEF rs, m

LEMMA ConcatAre ==
  ASSUME NEW S, NEW s \in Seq(S), NEW t \in Seq(S)
  PROVE  /\ s \o t \in Seq(S) /\ Len(s \o t) = Len(s) + Len(t)
         /\ \A i \in 1..Len(s) + Len(t) :
              (s \o t)[i] = IF i <= Len(s) THEN s[i] ELSE t[i - Len(s)]
OBVIOUS

LEMMA ConcatElements ==
  ASSUME NEW S, NEW s \in Seq(S), NEW t \in Seq(S)
  PROVE  ToSet(s) \subseteq ToSet(s \o t) /\ ToSet(t) \subseteq ToSet(s \o t)
<1>1. /\ Len(s) \in Nat /\ Len(t) \in Nat /\ s \o t \in Seq(S)
      /\ Len(s \o t) = Len(s) + Len(t)
      /\ \A i \in 1..Len(s) + Len(t) :
           (s \o t)[i] = IF i <= Len(s) THEN s[i] ELSE t[i - Len(s)]
  OBVIOUS
<1>2. ASSUME NEW i \in 1..Len(s) PROVE i \in 1..Len(s) + Len(t) /\ (s \o t)[i] = s[i]
  BY <1>1
<1>3. ASSUME NEW i \in 1..Len(t)
      PROVE  Len(s) + i \in 1..Len(s) + Len(t) /\ (s \o t)[Len(s) + i] = t[i]
  <2>1. /\ Len(s) + i \in 1..Len(s) + Len(t) /\ ~(Len(s) + i <= Len(s))
        /\ (Len(s) + i) - Len(s) = i
    BY <1>1
  <2> QED
    BY <1>1, <2>1
<1>4. /\ \A x : x \in ToSet(s) <=> \E i \in 1..Len(s) : x = s[i]
      /\ \A x : x \in ToSet(t) <=> \E i \in 1..Len(t) : x = t[i]
      /\ \A x : x \in ToSet(s \o t) <=> \E i \in 1..Len(s) + Len(t) : x = (s \o t)[i]
  BY <1>1 DEF ToSet
<1> QED
  BY <1>2, <1>3, <1>4

\* What is made of a file that is taken, whatever its format.
LEMMA DecodedAre ==
  ASSUME file \in CustomFiles, ~ParseFails
  PROVE  /\ Decoded \in [ports : Seq(Entry({FromFile})), ranges : Seq(DynamicRange)]
         /\ KeysOf(ToSet(Decoded.ports)) = FileFlows
<1>1. CASE file.format = "csv"
  <2>1. \A i \in 1..Len(file.rows) : ~Malformed(file.rows[i])
    BY <1>1 DEF ParseFails
  <2>2. Decoded = parseCSVToComMatrix(file.rows)
    BY <1>1 DEF Decoded
  <2>3. FileFlows =
          {flow \in (Groups \cup {""}) \X Ports : \E row \in ToSet(file.rows) : Says(row, flow)}
    BY <1>1 DEF FileFlows
  <2> QED
    BY <1>1, <2>1, <2>2, <2>3, CSVTaken
<1>2. CASE file.format # "csv"
  <2>1. file # BadFile
    BY DEF ParseFails
  <2>2. file \notin CSVFile
    BY <1>2 DEF CSVFile
  <2>3. file \in ListsFile \/ file = NoFile
    BY <2>1, <2>2, FilesAssumption
  <2>4. /\ {e \in Entry(Sources) : e.source = FromFile} \subseteq Entry({FromFile})
        /\ {d \in DynamicRange : d.source = FromFile} \subseteq DynamicRange
    BY DEF Entry
  <2>5. file.ports \in Seq(Entry({FromFile})) /\ file.ranges \in Seq(DynamicRange)
    <3>1. CASE file \in ListsFile
      <4>1. /\ file.ports \in Seq({e \in Entry(Sources) : e.source = FromFile})
            /\ file.ranges \in Seq({d \in DynamicRange : d.source = FromFile})
        BY <3>1 DEF ListsFile
      <4> QED
        BY <2>4, <4>1, WiderTyped
    <3>2. CASE file = NoFile
      BY <3>2 DEF NoFile
    <3> QED
      BY <2>3, <3>1, <3>2
  <2>6. Decoded = [ports |-> file.ports, ranges |-> file.ranges]
    BY <1>2 DEF Decoded
  <2>7. FileFlows = KeysOf(ToSet(file.ports))
    BY <1>2 DEF FileFlows
  <2> QED
    BY <2>5, <2>6, <2>7
<1> QED
  BY <1>1, <1>2

LEMMA FileStep ==
  ASSUME IInv, GetComMatrixFromFile
  PROVE  IInv'
<1>1. CASE Fail
  BY <1>1, FailStep
<1>2. CASE ~Fail
  <2>1. /\ TypeOK /\ ExposedInv /\ StaticsInv /\ pc = "custom" /\ pc' = "dedup" /\ ~ParseFails
        /\ custom' = Decoded /\ ranges' = ranges \o custom'.ranges
        /\ UNCHANGED <<cluster, setting, file, relisted, statics, matrix, services,
                       nodeToGroup, next, sliceInfo, exposed>>
    BY <1>2 DEF IInv, GetComMatrixFromFile, epVars
  <2>2. /\ custom' \in [ports : Seq(Entry({FromFile})), ranges : Seq(DynamicRange)]
        /\ KeysOf(ToSet(custom'.ports)) = FileFlows
    BY <2>1, DecodedAre DEF TypeOK
  <2>3. ranges \in Seq(DynamicRange) /\ custom'.ranges \in Seq(DynamicRange)
    BY <2>1, <2>2 DEF TypeOK
  <2>4. ranges' \in Seq(DynamicRange) /\ ToSet(custom'.ranges) \subseteq ToSet(ranges')
    BY <2>1, <2>3, ConcatTyped, ConcatElements
  <2>5. FileFlows' = FileFlows /\ Decoded' = Decoded /\ ParseFails' = ParseFails
    BY <2>1 DEF FileFlows, Decoded, ParseFails
  <2>6. FileInv'
    BY <2>1, <2>2, <2>4, <2>5 DEF FileInv
  <2>7. TypeOK'
    BY <2>1, <2>2, <2>4 DEF TypeOK, ExposedTypeOK
  <2>8. ExposedInv'
    BY <2>1, SameExposed
  <2>9. StaticsInv'
    BY <2>1, SameStatics
  <2> QED
    BY <2>1, <2>6, <2>7, <2>8, <2>9 DEF IInv
<1> QED
  BY <1>1, <1>2

-----------------------------------------------------------------------------
(* The matrix: the first entry of each flow                                *)

LEMMA FirstsAre ==
  ASSUME NEW T, NEW s \in Seq(SUBSET T),
         \A i \in 1..Len(s) : \A d, e \in s[i] : Key(d) = Key(e) => d = e
  PROVE  /\ FirstsOf(s) \subseteq T
         /\ \A flow : (\E i \in 1..Len(s) : flow \in KeysOf(s[i])) <=> flow \in KeysOf(FirstsOf(s))
         /\ \A d, e \in FirstsOf(s) : Key(d) = Key(e) => d = e
         /\ \A e \in FirstsOf(s) : \E i \in 1..Len(s) :
              e \in s[i] /\ \A j \in 1..i - 1 : Key(e) \notin KeysOf(s[j])
<1>1. Len(s) \in Nat /\ DOMAIN s = 1..Len(s) /\ \A i \in 1..Len(s) : s[i] \subseteq T
  OBVIOUS
<1>2. \A e : e \in FirstsOf(s) <=>
        \E i \in 1..Len(s) : e \in s[i] /\ \A j \in 1..i - 1 : Key(e) \notin KeysOf(s[j])
  BY <1>1 DEF FirstsOf
<1>3. \A i : \A flow : flow \in KeysOf(s[i]) <=> \E e \in s[i] : flow = Key(e)
  BY DEF KeysOf
<1>4. \A flow : flow \in KeysOf(FirstsOf(s)) <=> \E e \in FirstsOf(s) : flow = Key(e)
  BY DEF KeysOf
<1>5. ASSUME NEW flow, NEW i \in 1..Len(s), flow \in KeysOf(s[i])
      PROVE  flow \in KeysOf(FirstsOf(s))
  <2> DEFINE N == {j \in 1..Len(s) : flow \in KeysOf(s[j])}
  <2>1. N \subseteq Nat /\ N # {}
    BY <1>5
  <2>2. PICK m \in N : \A j \in N : m <= j
    <3> HIDE DEF N
    <3> QED
      BY <2>1, Least
  <2>3. m \in 1..Len(s) /\ flow \in KeysOf(s[m])
    OBVIOUS
  <2>4. PICK e \in s[m] : flow = Key(e)
    BY <1>3, <2>3
  <2>5. ASSUME NEW j \in 1..m - 1 PROVE flow \notin KeysOf(s[j])
    <3>1. j \in 1..Len(s) /\ ~(m <= j)
      BY <1>1, <2>3
    <3> QED
      BY <2>2, <3>1
  <2> HIDE DEF N
  <2>6. e \in FirstsOf(s)
    BY <1>2, <2>3, <2>4, <2>5
  <2> QED
    BY <1>4, <2>4, <2>6
<1>6. ASSUME NEW flow \in KeysOf(FirstsOf(s)) PROVE \E i \in 1..Len(s) : flow \in KeysOf(s[i])
  BY <1>2, <1>3, <1>4
<1>7. ASSUME NEW d \in FirstsOf(s), NEW e \in FirstsOf(s), Key(d) = Key(e) PROVE d = e
  <2>1. PICK i \in 1..Len(s) : d \in s[i] /\ \A j \in 1..i - 1 : Key(d) \notin KeysOf(s[j])
    BY <1>2
  <2>2. PICK k \in 1..Len(s) : e \in s[k] /\ \A j \in 1..k - 1 : Key(e) \notin KeysOf(s[j])
    BY <1>2
  <2>3. Key(d) \in KeysOf(s[i]) /\ Key(e) \in KeysOf(s[k])
    BY <1>3, <2>1, <2>2
  <2>4. ~(i < k) /\ ~(k < i)
    <3>1. /\ i < k => i \in 1..k - 1
          /\ k < i => k \in 1..i - 1
      BY <1>1
    <3> QED
      BY <1>7, <2>1, <2>2, <2>3, <3>1
  <2>5. i = k
    BY <1>1, <2>4
  <2> QED
    BY <1>7, <2>1, <2>2, <2>5
<1>8. FirstsOf(s) \subseteq T
  BY <1>1, <1>2
<1> QED
  BY <1>2, <1>5, <1>6, <1>7, <1>8

\* One element before two sequences.
LEMMA Stacked ==
  ASSUME NEW S, NEW x \in S, NEW t \in Seq(S), NEW u \in Seq(S)
  PROVE  LET s == <<x>> \o (t \o u)
             a == Len(t)
             b == Len(u)
         IN  /\ s \in Seq(S) /\ a \in Nat /\ b \in Nat /\ Len(s) = 1 + (a + b)
             /\ s[1] = x
             /\ \A i \in 1..a : s[1 + i] = t[i]
             /\ \A i \in 1..b : s[1 + (a + i)] = u[i]
<1> DEFINE a == Len(t)
           b == Len(u)
           r == t \o u
           s == <<x>> \o r
<1>1. /\ a \in Nat /\ b \in Nat /\ r \in Seq(S) /\ Len(r) = a + b
      /\ \A i \in 1..a + b : r[i] = IF i <= a THEN t[i] ELSE u[i - a]
  OBVIOUS
<1> HIDE DEF a, b, r
<1>2. /\ s \in Seq(S) /\ Len(s) = 1 + (a + b) /\ s[1] = x
      /\ \A i \in 1..1 + (a + b) : s[i] = IF i <= 1 THEN x ELSE r[i - 1]
  BY <1>1
<1> HIDE DEF s
<1>3. ASSUME NEW i \in 1..a PROVE s[1 + i] = t[i]
  <2>1. /\ 1 + i \in 1..1 + (a + b) /\ ~(1 + i <= 1) /\ (1 + i) - 1 = i
        /\ i \in 1..a + b /\ i <= a
    BY <1>1
  <2> QED
    BY <1>1, <1>2, <2>1
<1>4. ASSUME NEW i \in 1..b PROVE s[1 + (a + i)] = u[i]
  <2>1. /\ 1 + (a + i) \in 1..1 + (a + b) /\ ~(1 + (a + i) <= 1) /\ (1 + (a + i)) - 1 = a + i
        /\ a + i \in 1..a + b /\ ~(a + i <= a) /\ (a + i) - a = i
    BY <1>1
  <2> QED
    BY <1>1, <1>2, <2>1
<1> QED
  BY <1>1, <1>2, <1>3, <1>4 DEF a, b, r, s

LEMMA DedupStep ==
  ASSUME IInv, SortAndRemoveDuplicates
  PROVE  IInv'
<1>1. /\ TypeOK /\ ExposedInv /\ StaticsInv /\ FileInv /\ pc' = "done"
      /\ UNCHANGED <<cluster, setting, file, relisted, statics, custom, ranges, services,
                     nodeToGroup, next, sliceInfo, exposed>>
  BY DEF IInv, SortAndRemoveDuplicates, epVars
<1>2. PICK winner \in [KeysOf(exposed) -> {e.source : e \in exposed}] :
        LET firsts == {e \in exposed : e.source = winner[Key(e)]}
            rest   == statics \o Singletons(custom.ports)
        IN  /\ KeysOf(firsts) = KeysOf(exposed)
            /\ matrix' = FirstsOf(<<firsts>> \o rest)
  BY DEF SortAndRemoveDuplicates
<1> DEFINE firsts == {e \in exposed : e.source = winner[Key(e)]}
           ones == Singletons(custom.ports)
           s == <<firsts>> \o (statics \o ones)
           T == Entry(Sources)
           static == UNION ToSet(statics)
           listed == ToSet(custom.ports)
<1>3. /\ Entry(Nat) \subseteq T /\ Entry({FromTable}) \subseteq T /\ Entry({FromFile}) \subseteq T
  BY DEF Entry, Sources
<1>4. firsts \in SUBSET T
  BY <1>1, <1>3 DEF TypeOK, ExposedTypeOK
<1>5. statics \in Seq(SUBSET T) /\ custom.ports \in Seq(T)
  <2>1. statics \in Seq(SUBSET Entry({FromTable})) /\ custom.ports \in Seq(Entry({FromFile}))
    BY <1>1 DEF TypeOK
  <2>2. SUBSET Entry({FromTable}) \subseteq SUBSET T
    BY <1>3
  <2> HIDE DEF T
  <2> QED
    BY <1>3, <2>1, <2>2, WiderTyped
<1>6. /\ ones \in Seq(SUBSET T) /\ Len(ones) = Len(custom.ports)
      /\ \A i \in 1..Len(custom.ports) : ones[i] = {custom.ports[i]}
  <2> HIDE DEF T
  <2> QED
    BY <1>5, SingletonsAre
<1>7. \A d, e \in firsts : Key(d) = Key(e) => d = e
  BY <1>1 DEF ExposedInv
<1>8. KeysOf(firsts) = KeysOf(exposed) /\ matrix' = FirstsOf(s) /\ firsts \subseteq exposed
  BY <1>2
<1> DEFINE a == Len(statics)
           b == Len(ones)
<1> HIDE DEF firsts, ones, T
<1>9. /\ s \in Seq(SUBSET T) /\ a \in Nat /\ b \in Nat /\ Len(s) = 1 + (a + b)
      /\ s[1] = firsts
      /\ \A i \in 1..a : s[1 + i] = statics[i]
      /\ \A i \in 1..b : s[1 + (a + i)] = ones[i]
  <2> DEFINE S == SUBSET T
  <2>1. firsts \in S /\ statics \in Seq(S) /\ ones \in Seq(S)
    BY <1>4, <1>5, <1>6
  <2> HIDE DEF S
  <2>2. /\ s \in Seq(S) /\ a \in Nat /\ b \in Nat /\ Len(s) = 1 + (a + b)
        /\ s[1] = firsts
        /\ \A i \in 1..a : s[1 + i] = statics[i]
        /\ \A i \in 1..b : s[1 + (a + i)] = ones[i]
    BY <2>1, Stacked
  <2> QED
    BY <2>2 DEF S
<1>10. /\ \A x : x \in static <=> \E i \in 1..a : x \in statics[i]
       /\ \A x : x \in listed <=> \E i \in 1..b : x \in ones[i]
  <2>1. DOMAIN statics = 1..a /\ DOMAIN custom.ports = 1..b
    BY <1>5, <1>6
  <2> QED
    BY <1>6, <2>1 DEF ToSet
<1>11. /\ \A i \in 1..a : \A d, e \in statics[i] : Key(d) = Key(e) => d = e
       /\ \A i \in 1..b : \A d, e \in ones[i] : Key(d) = Key(e) => d = e
  <2>1. DOMAIN statics = 1..a
    BY <1>5
  <2> QED
    BY <1>1, <1>6, <2>1 DEF StaticsInv
<1> HIDE DEF s, a, b, static, listed
<1>12. \A i \in 1..1 + (a + b) :
         \/ i = 1
         \/ \E j \in 1..a : i = 1 + j
         \/ \E j \in 1..b : i = 1 + (a + j)
  <2> SUFFICES ASSUME NEW i \in 1..1 + (a + b), i # 1, ~(i - 1 \in 1..a)
               PROVE  i - (1 + a) \in 1..b /\ i = 1 + (a + (i - (1 + a)))
    <3>1. \A i \in 1..1 + (a + b) : i = 1 + (i - 1)
      BY <1>9
    <3> QED
      BY <3>1
  <2> QED
    BY <1>9
<1>13. /\ 1 \in 1..1 + (a + b)
       /\ \A j \in 1..a : 1 + j \in 1..1 + (a + b)
       /\ \A j \in 1..b : 1 + (a + j) \in 1..1 + (a + b)
  BY <1>9
<1>14. \A i \in 1..Len(s) : \A d, e \in s[i] : Key(d) = Key(e) => d = e
  <2> SUFFICES ASSUME NEW i \in 1..1 + (a + b)
               PROVE  \A d, e \in s[i] : Key(d) = Key(e) => d = e
    BY <1>9
  <2>1. CASE i = 1
    BY <1>7, <1>9, <2>1
  <2>2. ASSUME NEW j \in 1..a, i = 1 + j
        PROVE  \A d, e \in s[i] : Key(d) = Key(e) => d = e
    BY <1>9, <1>11, <2>2
  <2>3. ASSUME NEW j \in 1..b, i = 1 + (a + j)
        PROVE  \A d, e \in s[i] : Key(d) = Key(e) => d = e
    BY <1>9, <1>11, <2>3, ZenonT(30)
  <2> QED
    BY <1>12, <2>1, <2>2, <2>3
<1>15. /\ matrix' \subseteq T
       /\ \A flow : (\E i \in 1..Len(s) : flow \in KeysOf(s[i])) <=> flow \in KeysOf(matrix')
       /\ \A d, e \in matrix' : Key(d) = Key(e) => d = e
       /\ \A e \in matrix' : \E i \in 1..Len(s) :
            e \in s[i] /\ \A j \in 1..i - 1 : Key(e) \notin KeysOf(s[j])
  BY <1>8, <1>9, <1>14, FirstsAre
<1>16. /\ \A flow : flow \in KeysOf(static) <=> \E i \in 1..a : flow \in KeysOf(statics[i])
       /\ \A flow : flow \in KeysOf(listed) <=> \E i \in 1..b : flow \in KeysOf(ones[i])
  BY <1>10 DEF KeysOf
<1>17. \A flow : flow \in KeysOf(matrix') <=>
         flow \in KeysOf(exposed) \cup KeysOf(static) \cup KeysOf(listed)
  <2>1. ASSUME NEW flow, NEW i \in 1..Len(s), flow \in KeysOf(s[i])
        PROVE  flow \in KeysOf(exposed) \cup KeysOf(static) \cup KeysOf(listed)
    <3>1. CASE i = 1
      BY <1>8, <1>9, <2>1, <3>1
    <3>2. ASSUME NEW j \in 1..a, i = 1 + j PROVE flow \in KeysOf(static)
      BY <1>9, <1>16, <2>1, <3>2
    <3>3. ASSUME NEW j \in 1..b, i = 1 + (a + j) PROVE flow \in KeysOf(listed)
      BY <1>9, <1>16, <2>1, <3>3
    <3>4. i \in 1..1 + (a + b)
      BY <1>9
    <3> QED
      BY <1>12, <3>1, <3>2, <3>3, <3>4
  <2>2. ASSUME NEW flow \in KeysOf(exposed) \cup KeysOf(static) \cup KeysOf(listed)
        PROVE  \E i \in 1..Len(s) : flow \in KeysOf(s[i])
    BY <1>8, <1>9, <1>13, <1>16
  <2> QED
    BY <1>15, <2>1, <2>2
<1>18. ASSUME NEW e \in matrix'
       PROVE  \/ e \in exposed
              \/ e \in static /\ Key(e) \notin KeysOf(exposed)
              \/ e \in listed /\ Key(e) \notin KeysOf(exposed) \cup KeysOf(static)
  <2>1. PICK i \in 1..Len(s) : e \in s[i] /\ \A j \in 1..i - 1 : Key(e) \notin KeysOf(s[j])
    BY <1>15
  <2>2. CASE i = 1
    BY <1>8, <1>9, <2>1, <2>2
  <2>3. ASSUME NEW k \in 1..a, i = 1 + k
        PROVE  e \in static /\ Key(e) \notin KeysOf(exposed)
    <3>1. 1 \in 1..i - 1
      BY <1>9, <2>3
    <3>2. e \in statics[k]
      BY <1>9, <2>1, <2>3
    <3> QED
      BY <1>8, <1>9, <1>10, <2>1, <3>1, <3>2
  <2>4. ASSUME NEW k \in 1..b, i = 1 + (a + k)
        PROVE  e \in listed /\ Key(e) \notin KeysOf(exposed) \cup KeysOf(static)
    <3>1. 1 \in 1..i - 1 /\ \A j \in 1..a : 1 + j \in 1..i - 1
      BY <1>9, <2>4
    <3>2. e \in ones[k]
      BY <1>9, <2>1, <2>4
    <3>3. Key(e) \notin KeysOf(exposed)
      BY <1>8, <1>9, <2>1, <3>1
    <3>4. Key(e) \notin KeysOf(static)
      BY <1>9, <1>16, <2>1, <3>1
    <3> QED
      BY <1>10, <3>2, <3>3, <3>4
  <2> QED
    BY <1>9, <1>12, <2>1, <2>2, <2>3, <2>4
<1>19. MatrixInv'
  <2>1. UNCHANGED <<statics, custom, exposed>>
    BY <1>1
  <2> QED
    BY <1>15, <1>17, <1>18, <2>1 DEF MatrixInv, static, listed
<1>20. TypeOK'
  BY <1>1, <1>15 DEF TypeOK, ExposedTypeOK, T
<1>21. ExposedInv' /\ StaticsInv' /\ FileInv'
  BY <1>1, SameExposed, SameStatics, SameFile
<1> QED
  BY <1>1, <1>19, <1>20, <1>21 DEF IInv

\* What is known of the matrix at every step: the services kept, then the
\* exposed flows, the static flows, those of the file, and their first entries.
THEOREM CreationInvariance == Spec => []IInv
<1>1. Init => IInv
  BY CreationInitially
<1>2. IInv /\ [Next]_vars => IInv'
  <2> SUFFICES ASSUME IInv, [Next]_vars PROVE IInv'
    OBVIOUS
  <2>1. CASE ClusterChanges
    BY <2>1, ClusterStep
  <2>2. CASE DetectFacts
    BY <2>2, FactsStep
  <2>3. CASE New
    BY <2>3, NewStep
  <2>4. CASE Exposure
    BY <2>4, ServicesStep, LoadStep, DetailsStep, ListFailsStep DEF Exposure, ExposedNext
  <2>5. CASE GetStaticEntries
    BY <2>5, StaticsStep
  <2>6. CASE ExpandStaticEntries
    BY <2>6, ExpandStep
  <2>7. CASE GetDynamicRanges
    BY <2>7, RangesStep
  <2>8. CASE GetComMatrixFromFile
    BY <2>8, FileStep
  <2>9. CASE SortAndRemoveDuplicates
    BY <2>9, DedupStep
  <2>10. CASE UNCHANGED vars
    <3>1. UNCHANGED <<cluster, setting, file, relisted, statics, custom, ranges, matrix, services,
                      nodeToGroup, next, sliceInfo, exposed, pc>>
      BY <2>10 DEF vars, epVars
    <3>2. LoadInv => LoadInv'
      BY <3>1, SameLoad
    <3>3. ExposedInv => ExposedInv'
      BY <3>1, SameExposed
    <3>4. StaticsInv => StaticsInv'
      BY <3>1, SameStatics
    <3>5. FileInv => FileInv'
      BY <3>1, SameFile
    <3>6. MatrixInv => MatrixInv'
      BY <3>1, SameMatrix
    <3>7. StaticList' = StaticList
      BY <3>1, SameList
    <3>8. statics = Singletons(StaticList) => statics' = Singletons(StaticList')
      BY <3>1, <3>7
    <3>9. TypeOK => TypeOK'
      BY <3>1 DEF TypeOK, ExposedTypeOK
    <3> QED
      BY <3>1, <3>2, <3>3, <3>4, <3>5, <3>6, <3>8, <3>9 DEF IInv
  <2> QED
    BY <2>1, <2>2, <2>3, <2>4, <2>5, <2>6, <2>7, <2>8, <2>9, <2>10 DEF Next
<1> QED
  BY <1>1, <1>2, PTL DEF Spec

\* The sources of the entries tell them apart.
LEMMA DoneParts ==
  ASSUME IInv, pc = "done"
  PROVE  /\ TypeOK /\ ExposedInv /\ FileInv /\ MatrixInv
         /\ KeysOf(UNION ToSet(statics)) = StaticFlows
         /\ \A e \in exposed : e.source \in Nat
         /\ \A e \in UNION ToSet(statics) : e.source = FromTable
         /\ \A e \in ToSet(custom.ports) : e.source = FromFile
<1>1. TypeOK /\ ExposedInv /\ FileInv /\ MatrixInv /\ StaticsInv
  BY DEF IInv
<1>2. \A e \in exposed : e.source \in Nat
  BY <1>1 DEF TypeOK, ExposedTypeOK, Entry
<1>3. \A e \in UNION ToSet(statics) : e.source = FromTable
  <2>1. statics \in Seq(SUBSET Entry({FromTable}))
    BY <1>1 DEF TypeOK
  <2>2. UNION ToSet(statics) \subseteq Entry({FromTable})
    <3> DEFINE E == Entry({FromTable})
    <3> HIDE DEF E
    <3>1. \A i \in DOMAIN statics : statics[i] \subseteq E
      <4> DEFINE S == SUBSET E
      <4>1. statics \in Seq(S)
        BY <2>1 DEF E
      <4> HIDE DEF S
      <4>2. \A i \in DOMAIN statics : statics[i] \in S
        BY <4>1
      <4> QED
        BY <4>2 DEF S
    <3>2. UNION ToSet(statics) \subseteq E
      BY <3>1 DEF ToSet
    <3> QED
      BY <3>2 DEF E
  <2> QED
    BY <2>2 DEF Entry
<1>4. \A e \in ToSet(custom.ports) : e.source = FromFile
  <2>1. custom.ports \in Seq(Entry({FromFile}))
    BY <1>1 DEF TypeOK
  <2>2. ToSet(custom.ports) \subseteq Entry({FromFile})
    BY <2>1 DEF ToSet
  <2> QED
    BY <2>2 DEF Entry
<1> QED
  BY <1>1, <1>2, <1>3, <1>4 DEF StaticsInv

\* The flows of the matrix are exactly those of its sources, each with one
\* entry, and no row of the file is lost.
THEOREM FlowsAreExact == Spec => []FlowsExact
<1>1. ASSUME IInv PROVE FlowsExact
  <2> SUFFICES ASSUME pc = "done" PROVE FlowsExact
    BY DEF FlowsExact
  <2>1. /\ TypeOK /\ ExposedInv /\ FileInv /\ MatrixInv
        /\ KeysOf(UNION ToSet(statics)) = StaticFlows
    BY <1>1, DoneParts
  <2>2. /\ KeysOf(matrix) = ExposedFlows \cup StaticFlows \cup FileFlows
        /\ \A d, e \in matrix : Key(d) = Key(e) => d = e
    BY <2>1 DEF ExposedInv, FileInv, MatrixInv
  <2>3. ASSUME file.format = "csv", NEW row \in ToSet(file.rows)
        PROVE  \/ row.text = <<Blank>>
               \/ \E flow \in FileFlows : Says(row, flow)
               \/ \E d \in ToSet(ranges) :
                    row.text = <<d.minPort, d.maxPort>> /\ row.protocol = d.protocol
    <3>1. \A i \in 1..Len(file.rows) : ~Malformed(file.rows[i])
      BY <2>1, <2>3 DEF FileInv, ParseFails
    <3>2. file \in CustomFiles /\ custom = parseCSVToComMatrix(file.rows)
      BY <2>1, <2>3 DEF TypeOK, FileInv, Decoded
    <3>3. /\ file.rows \in Seq({r \in Row : r.source = FromFile})
          /\ \A i \in 1..Len(file.rows) : HasHyphen(file.rows[i]) =>
               parseDynamicRangeFromCSVRow(file.rows[i]) \in ToSet(custom.ranges)
      BY <2>3, <3>1, <3>2, CSVTaken
    <3>4. PICK i \in 1..Len(file.rows) : row = file.rows[i]
      BY <3>3 DEF ToSet
    <3>5. row \in Row /\ ~Malformed(row)
      BY <3>1, <3>3, <3>4
    <3>6. CASE HasHyphen(row)
      <4>1. parseDynamicRangeFromCSVRow(row) \in ToSet(ranges)
        BY <2>1, <3>3, <3>4, <3>6 DEF FileInv
      <4> QED
        BY <3>5, <3>6, <4>1, RangeRowParsed
    <3>7. CASE ~HasHyphen(row)
      <4>1. row.text \in Seq(Nat \cup {Blank, Word}) /\ row.text # <<>> /\ ~(Len(row.text) > 1)
        BY <3>5, <3>7 DEF Row, Text, HasHyphen
      <4>2. row.text = <<row.text[1]>>
        BY <4>1
      <4>3. CASE row.text[1] = Blank
        BY <4>2, <4>3
      <4>4. CASE row.text[1] # Blank
        <5>1. HasPort(row) /\ IsNumber(row.text[1])
          BY <3>5, <3>7, <4>4 DEF HasPort, Malformed
        <5>2. PICK p \in Ports : Protocol[p] = row.protocol /\ Number[p] = row.text[1]
          BY <2>3, <3>2, <3>4, <5>1, PortsAssumption
        <5>3. Says(row, <<row.group, p>>) /\ row.group \in Groups \cup {""}
          BY <3>5, <4>2, <5>2 DEF Says, Row
        <5>4. <<row.group, p>> \in FileFlows
          BY <2>3, <5>3 DEF FileFlows
        <5> QED
          BY <5>3, <5>4
      <4> QED
        BY <4>3, <4>4
    <3> QED
      BY <3>6, <3>7
  <2> QED
    BY <2>2, <2>3 DEF FlowsExact
<1> QED
  BY <1>1, CreationInvariance, PTL

\* The static entries follow the roles that the second listing gives the nodes,
\* into the groups of the first.
THEOREM StaticsAreWhereRolesAre == Spec => []StaticsFollowRoles
<1>1. ASSUME IInv PROVE StaticsFollowRoles
  <2> SUFFICES ASSUME pc = "done" PROVE StaticsFollowRoles
    BY DEF StaticsFollowRoles
  <2>1. /\ TypeOK /\ ExposedInv /\ FileInv /\ MatrixInv
        /\ KeysOf(UNION ToSet(statics)) = StaticFlows
        /\ \A e \in exposed : e.source \in Nat
        /\ \A e \in UNION ToSet(statics) : e.source = FromTable
        /\ \A e \in ToSet(custom.ports) : e.source = FromFile
    BY <1>1, DoneParts
  <2>2. Roled # {} => \A flow :
          flow \in StaticFlows <=>
            \E n \in Roled, d \in StaticEntries :
              d.group \in relisted[n].roles /\ flow = <<GroupIn(nodeToGroup, n), d.port>>
    <3> SUFFICES ASSUME Roled # {}, NEW flow
                 PROVE  flow \in StaticFlows <=>
                          \E n \in Roled, d \in StaticEntries :
                            /\ d.group \in relisted[n].roles
                            /\ flow = <<GroupIn(nodeToGroup, n), d.port>>
      OBVIOUS
    <3>1. flow \in StaticFlows <=>
            \E x \in Roled \X StaticEntries :
              x[2].group \in relisted[x[1]].roles /\ flow = <<GroupIn(nodeToGroup, x[1]), x[2].port>>
      BY DEF StaticFlows
    <3>2. ASSUME flow \in StaticFlows
          PROVE  \E n \in Roled, d \in StaticEntries :
                   d.group \in relisted[n].roles /\ flow = <<GroupIn(nodeToGroup, n), d.port>>
      <4>1. PICK x \in Roled \X StaticEntries :
              x[2].group \in relisted[x[1]].roles /\ flow = <<GroupIn(nodeToGroup, x[1]), x[2].port>>
        BY <3>1, <3>2
      <4> QED
        BY <4>1, PairIs
    <3>3. ASSUME NEW n \in Roled, NEW d \in StaticEntries,
                 d.group \in relisted[n].roles, flow = <<GroupIn(nodeToGroup, n), d.port>>
          PROVE  flow \in StaticFlows
      <4>1. <<n, d>> \in Roled \X StaticEntries /\ <<n, d>>[1] = n /\ <<n, d>>[2] = d
        OBVIOUS
      <4> QED
        BY <3>1, <3>3, <4>1
    <3> QED
      BY <3>2, <3>3
  <2>3. ASSUME NEW n \in Roled \cap DOMAIN nodeToGroup, NEW e \in StaticEntries,
               e.group \in relisted[n].roles
        PROVE  <<nodeToGroup[n], e.port>> \in KeysOf(matrix)
    <3>1. GroupIn(nodeToGroup, n) = nodeToGroup[n]
      BY DEF GroupIn
    <3>2. <<nodeToGroup[n], e.port>> \in StaticFlows
      BY <2>2, <2>3, <3>1
    <3> QED
      BY <2>1, <3>2 DEF MatrixInv
  <2>4. ASSUME NEW e \in matrix, e.source = FromTable, Roled # {}
        PROVE  \E n \in Roled, d \in StaticEntries :
                 /\ GroupIn(nodeToGroup, n) = e.group
                 /\ d.port = e.port /\ d.group \in relisted[n].roles
    <3>1. e \in UNION ToSet(statics)
      <4>1. e \in exposed \/ e \in UNION ToSet(statics) \/ e \in ToSet(custom.ports)
        BY <2>1 DEF MatrixInv
      <4> QED
        BY <2>1, <2>4, <4>1, SourcesAssumption
    <3>2. Key(e) \in StaticFlows
      BY <2>1, <3>1 DEF KeysOf
    <3>3. PICK n \in Roled, d \in StaticEntries :
            d.group \in relisted[n].roles /\ Key(e) = <<GroupIn(nodeToGroup, n), d.port>>
      BY <2>2, <2>4, <3>2
    <3>4. GroupIn(nodeToGroup, n) = e.group /\ d.port = e.port
      <4>1. <<e.group, e.port>> = <<GroupIn(nodeToGroup, n), d.port>>
        BY <3>3 DEF Key
      <4> QED
        BY <4>1
    <3> QED
      BY <3>3, <3>4
  <2> QED
    BY <2>3, <2>4 DEF StaticsFollowRoles
<1> QED
  BY <1>1, CreationInvariance, PTL

\* What the cluster says of a flow stands before the tables, and these before
\* the file.
THEOREM ClusterStandsFirst == Spec => []FirstSourceStands
<1>1. ASSUME IInv PROVE FirstSourceStands
  <2> SUFFICES ASSUME pc = "done", NEW e \in matrix
               PROVE  /\ Key(e) \in ExposedFlows =>
                           /\ e.source \in DOMAIN services
                           /\ Exposes(services[e.source], Key(e))
                           /\ e.optional = Head(services[e.source].slices).optional
                      /\ e.source = FromFile => Key(e) \notin StaticFlows
    BY DEF FirstSourceStands
  <2>1. /\ ExposedInv /\ MatrixInv
        /\ KeysOf(UNION ToSet(statics)) = StaticFlows
        /\ \A x \in exposed : x.source \in Nat
        /\ \A x \in UNION ToSet(statics) : x.source = FromTable
        /\ \A x \in ToSet(custom.ports) : x.source = FromFile
    BY <1>1, DoneParts
  <2>2. KeysOf(exposed) = ExposedFlows
    BY <2>1 DEF ExposedInv
  <2>3. \/ e \in exposed
        \/ e \in UNION ToSet(statics) /\ Key(e) \notin ExposedFlows
        \/ e \in ToSet(custom.ports) /\ Key(e) \notin ExposedFlows \cup StaticFlows
    BY <2>1, <2>2 DEF MatrixInv
  <2>4. Key(e) \in ExposedFlows => e \in exposed
    BY <2>3
  <2>5. e.source = FromFile => Key(e) \notin StaticFlows
    BY <2>1, <2>3, SourcesAssumption
  <2> QED
    BY <2>1, <2>4, <2>5 DEF ExposedInv
<1> QED
  BY <1>1, CreationInvariance, PTL

\* The row of an entry is read as the entry, and that of a range as the range.
LEMMA EntryRow ==
  ASSUME NEW e \in Entry(Sources)
  PROVE  /\ PortRow(e) \in Row /\ HasPort(PortRow(e)) /\ ~HasHyphen(PortRow(e))
         /\ ~Malformed(PortRow(e))
         /\ parseComDetailsFromCSVRow(PortRow(e)) = e
<1> DEFINE row == PortRow(e)
<1>1. /\ e.group \in Groups \cup {""} /\ e.port \in Ports /\ e.source \in Sources
      /\ e.optional \in BOOLEAN
      /\ e = [group |-> e.group, port |-> e.port, source |-> e.source, optional |-> e.optional]
  BY DEF Entry
<1>2. /\ Number[e.port] \in Nat /\ Protocol[e.port] \in Protocols
      /\ Number[e.port] # Blank /\ Number[e.port] # Word
  <2>1. Number[e.port] \in Nat /\ Protocol[e.port] \in Protocols
    BY <1>1, NumberAssumption, ProtocolAssumption
  <2>2. \A n \in Nat : n # Blank /\ n # Word
    BY TextAssumption
  <2> QED
    BY <2>1, <2>2
<1>3. /\ row.protocol = Protocol[e.port] /\ row.text = <<Number[e.port]>>
      /\ row.source = e.source /\ row.group = e.group /\ row.optional = e.optional
  BY DEF PortRow
<1>4. row \in Row
  <2>1. <<Number[e.port]>> \in Text
    BY <1>2 DEF Text
  <2> QED
    BY <1>1, <1>2, <2>1 DEF PortRow, Row
<1> HIDE DEF row
<1>5. HasPort(row) /\ ~HasHyphen(row) /\ row.text[1] = Number[e.port]
  BY <1>2, <1>3, SinglePort
<1>6. ~Malformed(row)
  BY <1>2, <1>5 DEF Malformed, IsNumber
<1>7. /\ parseComDetailsFromCSVRow(row).port = e.port
      /\ parseComDetailsFromCSVRow(row) \in Entry({row.source})
  BY <1>1, <1>3, <1>4, <1>5, PortRowParsed
<1>8. parseComDetailsFromCSVRow(row) =
        [group |-> e.group, port |-> e.port, source |-> e.source, optional |-> e.optional]
  <2>1. /\ parseComDetailsFromCSVRow(row).group = e.group
        /\ parseComDetailsFromCSVRow(row).source = e.source
        /\ parseComDetailsFromCSVRow(row).optional = e.optional
    BY <1>3 DEF parseComDetailsFromCSVRow
  <2> QED
    BY <1>7, <2>1 DEF Entry
<1> QED
  BY <1>1, <1>4, <1>5, <1>6, <1>8 DEF row

LEMMA RangeRowRead ==
  ASSUME NEW d \in DynamicRange
  PROVE  /\ RangeRow(d) \in Row /\ HasHyphen(RangeRow(d)) /\ ~HasPort(RangeRow(d))
         /\ ~Malformed(RangeRow(d))
         /\ parseDynamicRangeFromCSVRow(RangeRow(d)) = d
<1> DEFINE row == RangeRow(d)
<1>1. /\ d.protocol \in Protocols /\ d.minPort \in Nat /\ d.maxPort \in Nat
      /\ d.source \in Sources /\ d.optional \in BOOLEAN
      /\ d = [protocol |-> d.protocol, minPort |-> d.minPort, maxPort |-> d.maxPort,
              source |-> d.source, optional |-> d.optional]
  BY DEF DynamicRange
<1>2. /\ row.protocol = d.protocol /\ row.text = <<d.minPort, d.maxPort>>
      /\ row.source = d.source /\ row.group = "" /\ row.optional = d.optional
  BY DEF RangeRow
<1>3. row \in Row
  <2>1. <<d.minPort, d.maxPort>> \in Text
    BY <1>1 DEF Text
  <2> QED
    BY <1>1, <2>1 DEF RangeRow, Row
<1> HIDE DEF row
<1>4. Len(row.text) = 2 /\ row.text[1] = d.minPort /\ row.text[2] = d.maxPort
  <2> DEFINE t == <<d.minPort, d.maxPort>>
  <2>1. Len(t) = 2 /\ t[1] = d.minPort /\ t[2] = d.maxPort
    OBVIOUS
  <2> HIDE DEF t
  <2>2. row.text = t
    BY <1>2 DEF t
  <2> QED
    BY <2>1, <2>2
<1>5. HasHyphen(row) /\ ~HasPort(row)
  BY <1>4 DEF HasHyphen, HasPort
<1>6. \A i \in 1..2 : row.text[i] \in Nat
  BY <1>1, <1>4
<1>7. IsPortRange(row.text)
  BY <1>4, <1>6, TextAssumption DEF IsPortRange, IsNumber
<1>8. ~Malformed(row)
  BY <1>5, <1>7 DEF Malformed
<1>9. parseDynamicRangeFromCSVRow(row) = d
  BY <1>1, <1>2, <1>4 DEF parseDynamicRangeFromCSVRow
<1> QED
  BY <1>3, <1>5, <1>8, <1>9 DEF row

\* What is written of an entry and the ranges is read back as they were.
LEMMA WrittenIsRead ==
  ASSUME NEW e \in Entry(Sources), NEW ds \in Seq(DynamicRange)
  PROVE  LET rs == ToCSV(<<e>>, ds)
         IN  /\ \A i \in DOMAIN rs : ~Malformed(rs[i])
             /\ parseCSVToComMatrix(rs) = [ports |-> <<e>>, ranges |-> ds]
<1> DEFINE n == Len(ds)
           first == Each(<<e>>, PortRow)
           rest == Each(ds, RangeRow)
           rs == ToCSV(<<e>>, ds)
           m == parseCSVToComMatrix(rs)
<1>1. n \in Nat /\ DOMAIN ds = 1..n /\ \A i \in 1..n : ds[i] \in DynamicRange
  OBVIOUS
<1>2. \A i \in 1..n : /\ RangeRow(ds[i]) \in Row /\ HasHyphen(RangeRow(ds[i]))
                      /\ ~HasPort(RangeRow(ds[i])) /\ ~Malformed(RangeRow(ds[i]))
                      /\ parseDynamicRangeFromCSVRow(RangeRow(ds[i])) = ds[i]
  BY <1>1, RangeRowRead
<1>3. rest = [i \in 1..n |-> RangeRow(ds[i])]
  BY <1>1 DEF Each
<1>4. rest \in Seq(Row) /\ Len(rest) = n /\ \A i \in 1..n : rest[i] = RangeRow(ds[i])
  <2>1. rest \in [1..n -> Row]
    BY <1>2, <1>3
  <2> HIDE DEF n, rest
  <2> QED
    BY <1>1, <1>3, <2>1, FunIsASeq
<1>5. first \in Seq(Row) /\ Len(first) = 1 /\ first[1] = PortRow(e)
  <2>1. PortRow(e) \in Row
    BY EntryRow
  <2>2. first = [i \in 1..1 |-> PortRow(<<e>>[i])]
    BY DEF Each
  <2>3. \A i \in 1..1 : <<e>>[i] = e
    OBVIOUS
  <2>4. first \in [1..1 -> Row] /\ first[1] = PortRow(e)
    BY <2>1, <2>2, <2>3
  <2> HIDE DEF first
  <2>5. \A k \in Nat : first \in [1..k -> Row] => first \in Seq(Row) /\ Len(first) = k
    BY FunIsASeq
  <2> QED
    BY <2>4, <2>5
<1> HIDE DEF n, first, rest
<1>6. rs = first \o rest
  BY DEF ToCSV, first, rest
<1>7. /\ rs \in Seq(Row) /\ Len(rs) = 1 + n /\ rs[1] = PortRow(e)
      /\ \A i \in 1..n : rs[1 + i] = RangeRow(ds[i])
  <2>1. /\ first \o rest \in Seq(Row) /\ Len(first \o rest) = 1 + n
        /\ \A i \in 1..1 + n : (first \o rest)[i] = IF i <= 1 THEN first[i] ELSE rest[i - 1]
    <3>1. /\ first \o rest \in Seq(Row) /\ Len(first \o rest) = Len(first) + Len(rest)
          /\ \A i \in 1..Len(first) + Len(rest) :
               (first \o rest)[i] = IF i <= Len(first) THEN first[i] ELSE rest[i - Len(first)]
      BY <1>4, <1>5, ConcatAre
    <3> QED
      BY <1>4, <1>5, <3>1
  <2>2. \A i \in 1..n : 1 + i \in 1..1 + n /\ ~(1 + i <= 1) /\ (1 + i) - 1 = i
    BY <1>1
  <2>3. 1 \in 1..1 + n
    BY <1>1
  <2>4. ASSUME NEW i \in 1..n PROVE rs[1 + i] = RangeRow(ds[i])
    BY <1>4, <1>6, <2>1, <2>2
  <2>5. rs[1] = PortRow(e)
    BY <1>5, <1>6, <2>1, <2>3
  <2> QED
    BY <1>6, <2>1, <2>4, <2>5
<1> HIDE DEF rs
<1>8. \A i \in 1..1 + n : i = 1 \/ \E j \in 1..n : i = 1 + j
  <2> SUFFICES ASSUME NEW i \in 1..1 + n, i # 1 PROVE i - 1 \in 1..n /\ i = 1 + (i - 1)
    BY <1>1
  <2> QED
    BY <1>1
<1>9. \A i \in DOMAIN rs : ~Malformed(rs[i])
  <2>1. DOMAIN rs = 1..1 + n
    BY <1>7
  <2> QED
    BY <1>2, <1>7, <1>8, <2>1, EntryRow
<1> DEFINE P == {i \in 1..Len(rs) : HasPort(rs[i])}
           R == {i \in 1..Len(rs) : HasHyphen(rs[i])}
<1>10. P = 0 + 1..1 /\ R = 1 + 1..1 + n
  <2>1. /\ HasPort(rs[1]) /\ ~HasHyphen(rs[1])
        /\ \A j \in 1..n : ~HasPort(rs[1 + j]) /\ HasHyphen(rs[1 + j])
    BY <1>2, <1>7, EntryRow
  <2>2. 0 + 1..1 = {1} /\ 1 \in 1..1 + n
    BY <1>1
  <2>3. \A i : i \in 1 + 1..1 + n <=> \E j \in 1..n : i = 1 + j
    <3>1. ASSUME NEW i \in 1 + 1..1 + n PROVE i - 1 \in 1..n /\ i = 1 + (i - 1)
      BY <1>1
    <3>2. ASSUME NEW j \in 1..n PROVE 1 + j \in 1 + 1..1 + n
      BY <1>1
    <3> QED
      BY <3>1, <3>2
  <2>4. \A j \in 1..n : 1 + j \in 1..1 + n
    BY <1>1
  <2> QED
    BY <1>7, <1>8, <2>1, <2>2, <2>3, <2>4
<1> HIDE DEF P, R
<1>11. /\ m = [ports |-> m.ports, ranges |-> m.ranges]
       /\ m.ports = [i \in 1..Len(Select(rs, P)) |-> parseComDetailsFromCSVRow(Select(rs, P)[i])]
       /\ m.ranges = [i \in 1..Len(Select(rs, R)) |-> parseDynamicRangeFromCSVRow(Select(rs, R)[i])]
  BY <1>7, RowsParsed DEF P, R
<1>12. Len(Select(rs, P)) = 1 /\ Select(rs, P)[1] = PortRow(e)
  <2>1. 0 \in Nat /\ 1 \in Nat /\ 0 <= 1 /\ 1 <= Len(rs)
    BY <1>1, <1>7
  <2>2. /\ Len(Select(rs, 0 + 1..1)) = 1 - 0
        /\ \A i \in 1..1 - 0 : Select(rs, 0 + 1..1)[i] = rs[0 + i]
    BY <1>7, <2>1, SelectInterval
  <2>3. 1 - 0 = 1 /\ 1 \in 1..1 - 0 /\ 0 + 1 = 1
    OBVIOUS
  <2> QED
    BY <1>7, <1>10, <2>2, <2>3
<1>13. Len(Select(rs, R)) = n /\ \A i \in 1..n : Select(rs, R)[i] = RangeRow(ds[i])
  <2>1. 1 \in Nat /\ 1 + n \in Nat /\ 1 <= 1 + n /\ 1 + n <= Len(rs) /\ (1 + n) - 1 = n
    BY <1>1, <1>7
  <2>2. /\ Len(Select(rs, 1 + 1..1 + n)) = (1 + n) - 1
        /\ \A i \in 1..(1 + n) - 1 : Select(rs, 1 + 1..1 + n)[i] = rs[1 + i]
    BY <1>7, <2>1, SelectInterval
  <2> QED
    BY <1>7, <1>10, <2>1, <2>2
<1>14. m.ports = <<e>>
  <2>1. m.ports = [i \in 1..1 |-> parseComDetailsFromCSVRow(Select(rs, P)[i])]
    BY <1>11, <1>12
  <2>2. \A i \in 1..1 : parseComDetailsFromCSVRow(Select(rs, P)[i]) = e
    BY <1>12, EntryRow
  <2>3. m.ports = [i \in 1..1 |-> e]
    BY <2>1, <2>2
  <2>4. [i \in 1..1 |-> e] = <<e>>
    OBVIOUS
  <2> QED
    BY <2>3, <2>4
<1>15. m.ranges = ds
  <2>1. m.ranges = [i \in 1..n |-> parseDynamicRangeFromCSVRow(Select(rs, R)[i])]
    BY <1>11, <1>13
  <2>2. \A i \in 1..n : parseDynamicRangeFromCSVRow(Select(rs, R)[i]) = ds[i]
    BY <1>2, <1>13
  <2>3. m.ranges = [i \in 1..n |-> ds[i]]
    BY <2>1, <2>2
  <2>4. ds = [i \in 1..n |-> ds[i]]
    BY <1>1
  <2> QED
    BY <2>3, <2>4
<1> QED
  BY <1>9, <1>11, <1>14, <1>15 DEF rs

\* The file of a matrix is one its own parser takes, and for the same matrix.
THEOREM FilesReadBack == Spec => []ReadBack
<1>1. IInv => ReadBack
  <2> SUFFICES ASSUME IInv, NEW e \in matrix
               PROVE  LET rs == ToCSV(<<e>>, ranges)
                      IN  /\ \A i \in DOMAIN rs : ~Malformed(rs[i])
                          /\ parseCSVToComMatrix(rs) = [ports |-> <<e>>, ranges |-> ranges]
    BY DEF ReadBack
  <2>1. e \in Entry(Sources) /\ ranges \in Seq(DynamicRange)
    BY DEF IInv, TypeOK
  <2> QED
    BY <2>1, WrittenIsRead
<1> QED
  BY <1>1, CreationInvariance, PTL

=============================================================================
