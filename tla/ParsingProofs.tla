---------------------------- MODULE ParsingProofs ----------------------------
(***************************************************************************)
(* Proofs about the functions of Parsing, for inputs of any size, any      *)
(* wanted name, characters, rows and members.                              *)
(*                                                                         *)
(* The functions that go over their input member by member are recursive   *)
(* functions on 0..Len(input).  That such a function exists is RunExists,  *)
(* and what it computes is shown by UpTo, induction over 0..n; both come   *)
(* from the least element of a set of numbers.                             *)
(***************************************************************************)
EXTENDS Parsing, FiniteSetTheorems, WellFoundedInduction, TLAPS

-----------------------------------------------------------------------------
(* Induction and recursion over 0..n.                                       *)

\* A nonempty set of numbers has a least element.
LEMMA LeastElement ==
    ASSUME NEW T \in SUBSET Nat, T # {}
    PROVE  \E m \in T : \A k \in T : m <= k
<1>1. PICK m \in T : \A k \in T : ~(<<k, m>> \in OpToRel(<, Nat))
  BY NatLessThanWellFounded, WFMin
<1>2. \A k \in T : k \in Nat /\ m \in Nat
  OBVIOUS
<1>3. ASSUME NEW k \in T, ~(m <= k) PROVE FALSE
  <2>1. k < m
    BY <1>2, <1>3
  <2>2. <<k, m>> \in Nat \X Nat /\ <<k, m>>[1] < <<k, m>>[2]
    BY <1>2, <2>1
  <2>3. <<k, m>> \in OpToRel(<, Nat)
    BY <2>2, Zenon DEF OpToRel
  <2> QED BY <1>1, <2>3, Zenon
<1> QED BY <1>3

\* A bounded nonempty set of numbers has a greatest element: the one that is
\* nearest to the bound.
LEMMA GreatestElement ==
    ASSUME NEW b \in Nat, NEW T \in SUBSET (1..b), T # {}
    PROVE  Max(T) \in T /\ \A k \in T : k <= Max(T)
<1> DEFINE D == {b - k : k \in T}
<1>1. D \in SUBSET Nat /\ D # {}
  <2>1. \A k \in T : b - k \in Nat
    OBVIOUS
  <2>2. PICK k \in T : TRUE
    OBVIOUS
  <2>3. b - k \in D
    BY <2>2
  <2> QED BY <2>1, <2>3
<1>2. PICK d \in D : \A e \in D : d <= e
  BY <1>1, LeastElement
<1>3. PICK m \in T : d = b - m
  BY <1>2
<1>4. \A k \in T : m >= k
  <2> TAKE k \in T
  <2>1. b - m <= b - k
    BY <1>2, <1>3
  <2> QED BY <2>1
<1>5. Max(T) \in T /\ \A k \in T : Max(T) >= k
  BY <1>4 DEF Max
<1> QED BY <1>5

\* The same for the operator that SelectInSeq is defined by.
LEMMA LeastMember ==
    ASSUME NEW T \in SUBSET Nat, T # {}
    PROVE  Min(T) \in T /\ \A k \in T : Min(T) <= k
BY LeastElement DEF Min

\* What holds of 0, and of m + 1 where it holds of m, holds up to n.
LEMMA UpTo ==
    ASSUME NEW n \in Nat, NEW G, 0 \in G,
           \A m \in 0..n : m < n /\ m \in G => m + 1 \in G
    PROVE  \A m \in 0..n : m \in G
<1> SUFFICES ASSUME NEW z \in 0..n, z \notin G PROVE FALSE
  OBVIOUS
<1> DEFINE T == {m \in 0..n : m \notin G}
<1>1. PICK m \in T : \A k \in T : m <= k
  <2>1. T \in SUBSET Nat /\ T # {}
    OBVIOUS
  <2> QED BY <2>1, LeastElement
<1>2. m - 1 \in 0..n /\ m - 1 < n /\ m - 1 \notin T
  BY <1>1
<1>3. m - 1 \in G
  BY <1>2
<1>4. (m - 1) + 1 \in G
  BY <1>2, <1>3
<1> QED BY <1>1, <1>4

IsRun(run, n, D, base, step) ==
    /\ run \in [0..n -> D]
    /\ run[0] = base
    /\ \A m \in 1..n : run[m] = step[<<m, run[m - 1]>>]

\* A step function on D defines a run of any length.
LEMMA RunExists ==
    ASSUME NEW n \in Nat, NEW D, NEW base \in D, NEW step \in [(0..n) \X D -> D]
    PROVE  \E run : IsRun(run, n, D, base, step)
<1> DEFINE Runs(m) == {run \in [0..m -> D] : IsRun(run, m, D, base, step)}
           G == {m \in 0..n : Runs(m) # {}}
<1>1. 0 \in G
  <2>1. [m \in 0..0 |-> base] \in Runs(0)
    BY DEF IsRun
  <2> QED BY <2>1
<1>2. ASSUME NEW m \in 0..n, m < n, m \in G PROVE m + 1 \in G
  <2>1. PICK run : IsRun(run, m, D, base, step)
    BY <1>2
  <2> DEFINE more == [k \in 0..(m + 1) |-> IF k = m + 1 THEN step[<<m + 1, run[m]>>] ELSE run[k]]
  <2>2. run[m] \in D /\ step[<<m + 1, run[m]>>] \in D
    <3>1. run \in [0..m -> D] /\ m \in 0..m
      BY <2>1 DEF IsRun
    <3>2. <<m + 1, run[m]>> \in (0..n) \X D
      BY <1>2, <3>1
    <3> QED BY <3>1, <3>2
  <2>3. more \in [0..(m + 1) -> D]
    BY <2>1, <2>2 DEF IsRun
  <2>4. more[0] = base
    BY <2>1 DEF IsRun
  <2>5. ASSUME NEW k \in 1..(m + 1) PROVE more[k] = step[<<k, more[k - 1]>>]
    <3>1. CASE k = m + 1
      <4>1. k - 1 = m /\ k - 1 \in 0..(m + 1) /\ k - 1 # m + 1 /\ k \in 0..(m + 1)
        BY <3>1
      <4>2. more[k] = step[<<m + 1, run[m]>>] /\ more[k - 1] = run[m]
        BY <3>1, <4>1
      <4> QED BY <3>1, <4>1, <4>2
    <3>2. CASE k # m + 1
      <4>1. k \in 1..m /\ k - 1 \in 0..m /\ k - 1 # m + 1 /\ k - 1 \in 0..(m + 1)
        BY <3>2
      <4>2. more[k] = run[k] /\ more[k - 1] = run[k - 1]
        BY <4>1
      <4> QED BY <2>1, <4>1, <4>2 DEF IsRun
    <3> QED BY <3>1, <3>2
  <2> HIDE DEF more
  <2>6. more \in Runs(m + 1)
    BY <2>3, <2>4, <2>5 DEF IsRun
  <2> QED BY <1>2, <2>6
<1> HIDE DEF G
<1>3. \A m \in 0..n : m \in G
  BY <1>1, <1>2, UpTo
<1>4. n \in G
  BY <1>3
<1> QED BY <1>4 DEF G

-----------------------------------------------------------------------------
(* The route table.                                                         *)

Scan(table, best) ==
    best = [n \in 0..Len(table) |->
               IF n = 0 THEN [gw |-> NoGateway, metric |-> Greatest]
               ELSE Better(best[n - 1], table[n])]

\* linuxDefaultGateway is the last value of a scan of the rows.
LEMMA ScanExists ==
    ASSUME NEW table \in Seq(Rows)
    PROVE  \E best : Scan(table, best) /\ LinuxDefaultGateway(table) = best[Len(table)].gw
<1> DEFINE None == [gw |-> NoGateway, metric |-> Greatest]
           Take(j) == [gw |-> HexLEIPv4(table[j].gw), metric |-> ParseUint(table[j].metric)]
           D == {None} \cup {Take(j) : j \in 1..Len(table)}
           step == [p \in (0..Len(table)) \X D |->
                       IF p[1] = 0 THEN p[2] ELSE Better(p[2], table[p[1]])]
<1>1. \A n \in 1..Len(table), b \in D : Better(b, table[n]) \in D
  BY DEF Better
<1>2. step \in [(0..Len(table)) \X D -> D]
  <2> SUFFICES ASSUME NEW n \in 0..Len(table), NEW b \in D
               PROVE (IF n = 0 THEN b ELSE Better(b, table[n])) \in D
    OBVIOUS
  <2>1. n # 0 => n \in 1..Len(table)
    OBVIOUS
  <2> QED BY <1>1, <2>1
<1>3. PICK run : IsRun(run, Len(table), D, None, step)
  <2>1. Len(table) \in Nat /\ None \in D
    OBVIOUS
  <2> HIDE DEF step, D, None
  <2> QED BY <1>2, <2>1, RunExists
<1> HIDE DEF D
<1>4. Scan(table, run)
  <2>1. ASSUME NEW n \in 0..Len(table)
        PROVE  run[n] = IF n = 0 THEN None ELSE Better(run[n - 1], table[n])
    <3>1. CASE n = 0
      BY <1>3, <3>1 DEF IsRun
    <3>2. CASE n # 0
      <4>1. n \in 1..Len(table) /\ n - 1 \in 0..Len(table) /\ run[n - 1] \in D
        BY <1>3, <3>2 DEF IsRun
      <4>2. step[<<n, run[n - 1]>>] = Better(run[n - 1], table[n])
        BY <4>1, <3>2
      <4> QED BY <1>3, <4>1, <4>2, <3>2 DEF IsRun
    <3> QED BY <3>1, <3>2
  <2> HIDE DEF step
  <2> QED BY <1>3, <2>1 DEF IsRun, Scan
<1> DEFINE best == CHOOSE b : Scan(table, b)
<1>5. Scan(table, best)
  BY <1>4
<1>6. LinuxDefaultGateway(table) = best[Len(table)].gw
  BY Zenon DEF LinuxDefaultGateway, Scan
<1> QED BY <1>5, <1>6, Zenon

\* After n rows the scan holds the first of the best among them.
BestOf(table, n, best) ==
    \/ /\ best = [gw |-> NoGateway, metric |-> Greatest]
       /\ \A m \in 1..n : m \notin Usable(table)
    \/ \E j \in 1..n :
          /\ j \in Usable(table)
          /\ best = [gw |-> HexLEIPv4(table[j].gw), metric |-> ParseUint(table[j].metric)]
          /\ \A m \in 1..n :
                m \in Usable(table) =>
                LET a == ParseUint(table[j].metric)  b == ParseUint(table[m].metric)
                IN a < b \/ (a = b /\ j <= m)

LEMMA MetricIsBounded ==
    ASSUME NEW row \in Rows
    PROVE  ParseUint(row.metric) \in Nat /\ ParseUint(row.metric) <= Greatest
BY RowsAssumption, GreatestAssumption, MarkersAssumption DEF ParseUint

\* After n rows the scan holds the best of the first n.
LEMMA ScanKeepsBest ==
    ASSUME NEW table \in Seq(Rows), NEW best, Scan(table, best)
    PROVE  BestOf(table, Len(table), best[Len(table)])
<1> DEFINE Metric(j) == ParseUint(table[j].metric)
           G == {n \in 0..Len(table) : BestOf(table, n, best[n])}
<1>1. /\ Len(table) \in Nat /\ DOMAIN table = 1..Len(table)
      /\ \A j \in 1..Len(table) : Metric(j) \in Nat /\ Metric(j) <= Greatest
  BY MetricIsBounded
<1>2. 0 \in G
  BY DEF Scan, BestOf
<1>3. ASSUME NEW n \in 0..Len(table), n < Len(table), n \in G
      PROVE  n + 1 \in G
  <2>1. /\ n + 1 \in 1..Len(table) /\ n + 1 \in 0..Len(table) /\ n + 1 # 0 /\ (n + 1) - 1 = n
        /\ 1..(n + 1) = 1..n \cup {n + 1}
        /\ \A m \in 1..n : m <= n + 1 /\ m \in 1..Len(table)
    BY <1>1, <1>3
  <2>2. best[n + 1] = Better(best[n], table[n + 1])
    BY <2>1 DEF Scan
  <2>3. n + 1 \in Usable(table) <=> IsDefault(table[n + 1]) /\ Metric(n + 1) < Greatest
    BY <1>1, <2>1 DEF Usable
  <2>4. BestOf(table, n, best[n])
    BY <1>3
  <2> SUFFICES BestOf(table, n + 1, best[n + 1])
    BY <2>1
  <2>5. CASE /\ best[n] = [gw |-> NoGateway, metric |-> Greatest]
             /\ \A m \in 1..n : m \notin Usable(table)
    <3>1. CASE n + 1 \in Usable(table)
      <4>1. best[n + 1] = [gw |-> HexLEIPv4(table[n + 1].gw), metric |-> Metric(n + 1)]
        BY <2>2, <2>3, <2>5, <3>1 DEF Better
      <4>2. \A m \in 1..(n + 1) : m \in Usable(table) => m = n + 1
        BY <2>1, <2>5
      <4>3. n + 1 \in 1..(n + 1) /\ n + 1 <= n + 1
        BY <2>1
      <4>4. \A m \in 1..(n + 1) :
               m \in Usable(table) =>
               \/ Metric(n + 1) < Metric(m)
               \/ Metric(n + 1) = Metric(m) /\ n + 1 <= m
        BY <4>2, <4>3
      <4> QED BY <3>1, <4>1, <4>3, <4>4 DEF BestOf
    <3>2. CASE n + 1 \notin Usable(table)
      <4>1. best[n + 1] = best[n]
        BY <2>2, <2>3, <2>5, <3>2 DEF Better
      <4> QED BY <2>1, <2>5, <3>2, <4>1 DEF BestOf
    <3> QED BY <3>1, <3>2
  <2>6. ASSUME NEW j \in 1..n, j \in Usable(table),
               best[n] = [gw |-> HexLEIPv4(table[j].gw), metric |-> Metric(j)],
               \A m \in 1..n : m \in Usable(table) =>
                  Metric(j) < Metric(m) \/ (Metric(j) = Metric(m) /\ j <= m)
        PROVE  BestOf(table, n + 1, best[n + 1])
    <3>1. Metric(j) \in Nat /\ Metric(n + 1) \in Nat /\ Metric(j) < Greatest /\ Greatest \in Nat
      BY <1>1, <2>1, <2>6, GreatestAssumption DEF Usable
    <3>2. CASE n + 1 \in Usable(table) /\ Metric(n + 1) < Metric(j)
      <4>1. best[n + 1] = [gw |-> HexLEIPv4(table[n + 1].gw), metric |-> Metric(n + 1)]
        BY <2>2, <2>3, <2>6, <3>2 DEF Better
      <4>2. ASSUME NEW m \in 1..(n + 1), m \in Usable(table)
            PROVE  Metric(n + 1) < Metric(m) \/ (Metric(n + 1) = Metric(m) /\ n + 1 <= m)
        <5>1. CASE m = n + 1
          BY <3>1, <5>1
        <5>2. CASE m \in 1..n
          <6>1. Metric(m) \in Nat /\ Metric(j) <= Metric(m)
            BY <1>1, <2>1, <2>6, <3>1, <4>2, <5>2
          <6> HIDE DEF Metric
          <6> QED BY <3>1, <3>2, <6>1
        <5> QED BY <2>1, <5>1, <5>2
      <4> QED BY <2>1, <3>2, <4>1, <4>2 DEF BestOf
    <3>3. CASE ~(n + 1 \in Usable(table) /\ Metric(n + 1) < Metric(j))
      <4>1. best[n + 1] = best[n]
        <5>1. ~(IsDefault(table[n + 1]) /\ Metric(n + 1) < best[n].metric)
          BY <2>3, <2>6, <3>1, <3>3
        <5> QED BY <2>2, <5>1 DEF Better
      <4>2. n + 1 \in Usable(table) => Metric(j) < Metric(n + 1) \/ Metric(j) = Metric(n + 1)
        BY <3>1, <3>3
      <4>3. ASSUME NEW m \in 1..(n + 1), m \in Usable(table)
            PROVE  Metric(j) < Metric(m) \/ (Metric(j) = Metric(m) /\ j <= m)
        BY <2>1, <2>6, <4>2, <4>3
      <4> QED BY <2>1, <2>6, <4>1, <4>3 DEF BestOf
    <3> QED BY <3>2, <3>3
  <2> QED BY <2>4, <2>5, <2>6 DEF BestOf
<1> HIDE DEF G
<1>4. Len(table) \in G
  <2>1. \A n \in 0..Len(table) : n \in G
    BY <1>1, <1>2, <1>3, UpTo
  <2> QED BY <1>1, <2>1
<1> QED BY <1>4 DEF G

\* The gateway is that of the first default route of the lowest metric
\* (gateway_linux.go:39-61).
LEMMA GatewayFound ==
    ASSUME NEW table \in Seq(Rows)
    PROVE  LET gw == LinuxDefaultGateway(table)
           IN IF gw = NoGateway THEN Usable(table) = {}
              ELSE \E j \in DOMAIN table : IsBestRoute(table, j) /\ gw = Reverse(table[j].gw)
<1>1. PICK best : Scan(table, best) /\ LinuxDefaultGateway(table) = best[Len(table)].gw
  BY ScanExists
<1>2. BestOf(table, Len(table), best[Len(table)])
  BY <1>1, ScanKeepsBest
<1>3. DOMAIN table = 1..Len(table) /\ Usable(table) \subseteq 1..Len(table)
  BY DEF Usable
<1>4. CASE /\ best[Len(table)] = [gw |-> NoGateway, metric |-> Greatest]
           /\ \A m \in 1..Len(table) : m \notin Usable(table)
  <2>1. LinuxDefaultGateway(table) = NoGateway
    BY <1>1, <1>4
  <2>2. Usable(table) = {}
    BY <1>3, <1>4
  <2> QED BY <2>1, <2>2
<1>5. ASSUME NEW j \in 1..Len(table), j \in Usable(table),
             best[Len(table)] = [gw |-> HexLEIPv4(table[j].gw),
                                 metric |-> ParseUint(table[j].metric)],
             \A m \in 1..Len(table) :
                m \in Usable(table) =>
                LET a == ParseUint(table[j].metric)  b == ParseUint(table[m].metric)
                IN a < b \/ (a = b /\ j <= m)
      PROVE  \E i \in DOMAIN table :
                /\ IsBestRoute(table, i) /\ LinuxDefaultGateway(table) = Reverse(table[i].gw)
                /\ LinuxDefaultGateway(table) # NoGateway
  <2>1. IsBestRoute(table, j)
    BY <1>3, <1>5 DEF IsBestRoute
  <2>2. LinuxDefaultGateway(table) = Reverse(table[j].gw)
    BY <1>1, <1>5 DEF HexLEIPv4
  <2>3. Reverse(table[j].gw) \in [1..4 -> Bytes]
    <3>1. /\ table[j].gw \in Seq(Range(table[j].gw)) /\ Len(table[j].gw) = 4
          /\ Range(table[j].gw) \subseteq Bytes
      BY <1>3, <1>5, RowsAssumption DEF Usable, IsDefault, WellFormed, IsSeq
    <3>2. \A i \in 1..4 : table[j].gw[(4 - i) + 1] \in Bytes
      BY <3>1
    <3> QED BY <3>1, <3>2 DEF Reverse
  <2> QED BY <1>3, <2>1, <2>2, <2>3, MarkersAssumption
<1> QED BY <1>2, <1>4, <1>5 DEF BestOf

-----------------------------------------------------------------------------
(* The names of a seed's files.                                             *)

Mangled(c) == IF Fold(c) \in Kept THEN Fold(c) ELSE Underscore

LEMMA CharsDiffer ==
    Semicolon # Dot /\ Semicolon # "1"
BY Zenon DEF Semicolon, Dot

\* Folding and mangling go over a name character by character.
LEMMA Charwise ==
    ASSUME NEW S, NEW name \in Seq(S)
    PROVE  /\ Folded(name) \in Seq({Fold(c) : c \in S}) /\ Len(Folded(name)) = Len(name)
           /\ Mangle(name) \in Seq(Kept \cup {Underscore}) /\ Len(Mangle(name)) = Len(name)
           /\ \A j \in 1..Len(name) :
                 Folded(name)[j] = Fold(name[j]) /\ Mangle(name)[j] = Mangled(name[j])
<1> DEFINE n == Len(name)
<1>1. n \in Nat /\ DOMAIN name = 1..n /\ \A j \in 1..n : name[j] \in S
  OBVIOUS
<1>2. Folded(name) = [j \in 1..n |-> Fold(name[j])]
  BY <1>1 DEF Folded
<1>3. Mangle(name) = [j \in 1..n |-> Mangled(name[j])]
  BY <1>1 DEF Mangle, Mangled
<1> HIDE DEF n
<1>4. /\ [j \in 1..n |-> Fold(name[j])] \in Seq({Fold(c) : c \in S})
      /\ Len([j \in 1..n |-> Fold(name[j])]) = n
  BY <1>1
<1>5. /\ [j \in 1..n |-> Mangled(name[j])] \in Seq(Kept \cup {Underscore})
      /\ Len([j \in 1..n |-> Mangled(name[j])]) = n
  BY <1>1 DEF Mangled
<1> QED BY <1>2, <1>3, <1>4, <1>5 DEF n

\* Either folding, done again or after the other, changes nothing.
LEMMA Idempotent ==
    ASSUME NEW c
    PROVE  Fold(Fold(c)) = Fold(c) /\ Mangled(Mangled(c)) = Mangled(c)
BY LettersAssumption DEF Fold, Mangled, Range

\* What is left of a name is a beginning of it.
LEMMA TrimShortens ==
    ASSUME NEW S, NEW name \in Seq(S)
    PROVE  \E k \in 0..Len(name) : TrimISOSuffix(name) = SubSeq(name, 1, k)
<1> DEFINE semi == SelectLastInSeq(name, LAMBDA c : c = Semicolon)
           base == IF semi = 0 THEN name ELSE SubSeq(name, 1, semi - 1)
<1>1. semi \in 0..Len(name)
  <2> DEFINE I == {i \in 1..Len(name) : name[i] = Semicolon}
  <2>1. semi = IF I # {} THEN Max(I) ELSE 0
    BY DEF SelectLastInSeq
  <2>2. I # {} => Max(I) \in I
    <3>1. Len(name) \in Nat /\ I \in SUBSET (1..Len(name))
      OBVIOUS
    <3> HIDE DEF I
    <3> QED BY <3>1, GreatestElement
  <2> QED BY <2>1, <2>2
<1> HIDE DEF semi
<1>2. PICK k \in 0..Len(name) : base = SubSeq(name, 1, k)
  <2>1. CASE semi = 0
    <3>1. name = SubSeq(name, 1, Len(name)) /\ Len(name) \in 0..Len(name)
      OBVIOUS
    <3>2. base = name
      BY <2>1
    <3> HIDE DEF base
    <3> QED BY <3>1, <3>2
  <2>2. CASE semi # 0
    <3>1. semi - 1 \in 0..Len(name)
      BY <1>1, <2>2
    <3> QED BY <2>2, <3>1
  <2> QED BY <2>1, <2>2
<1>3. base \in Seq(S) /\ Len(base) = k
  <2>1. SubSeq(name, 1, k) \in Seq(S) /\ Len(SubSeq(name, 1, k)) = k
    <3>1. k \in Nat /\ k <= Len(name) /\ \A i \in 1..k : name[i] \in S
      OBVIOUS
    <3>2. SubSeq(name, 1, k) = [i \in 1..k |-> name[i]]
      BY <3>1
    <3> QED BY <3>1, <3>2
  <2> HIDE DEF base
  <2> QED BY <1>2, <2>1
<1>4. TrimISOSuffix(name) = IF base # <<>> /\ Last(base) = Dot THEN Front(base) ELSE base
  BY Zenon DEF TrimISOSuffix, semi
<1> HIDE DEF base
<1>5. base # <<>> => k - 1 \in 0..Len(name) /\ Front(base) = SubSeq(name, 1, k - 1)
  <2> SUFFICES ASSUME base # <<>>
               PROVE  k - 1 \in 0..Len(name) /\ Front(base) = SubSeq(name, 1, k - 1)
    OBVIOUS
  <2>1. k # 0
    BY <1>3
  <2>2. Front(base) = SubSeq(base, 1, k - 1)
    BY <1>3 DEF Front
  <2> QED BY <1>2, <1>3, <2>1, <2>2
<1> QED BY <1>2, <1>4, <1>5

\* A version is all that is dropped.
LEMMA TrimDropsVersion ==
    ASSUME NEW S, NEW base \in Seq(S), base # <<>>, {Semicolon, Dot} \cap Range(base) = {},
           NEW suffix \in Versions
    PROVE  TrimISOSuffix(base \o suffix) = base
<1> DEFINE name == base \o suffix
           I == {i \in 1..Len(name) : name[i] = Semicolon}
           n == Len(base)
<1>1. /\ n \in Nat \ {0} /\ \A i \in 1..n : base[i] # Semicolon /\ base[i] # Dot
      /\ DOMAIN base = 1..n
  BY DEF Range
<1>2. TrimISOSuffix(name) =
        LET semi == IF I # {} THEN Max(I) ELSE 0
            b == IF semi = 0 THEN name ELSE SubSeq(name, 1, semi - 1)
        IN IF b # <<>> /\ Last(b) = Dot THEN Front(b) ELSE b
  BY DEF TrimISOSuffix, SelectLastInSeq
<1>3. CASE suffix = <<>>
  <2>1. name = base
    BY <1>3
  <2>2. I = {}
    BY <1>1, <2>1
  <2> QED BY <1>1, <1>2, <2>1, <2>2 DEF Last
<1>4. CASE suffix = <<Dot>>
  <2>1. /\ Len(name) = n + 1 /\ name[n + 1] = Dot /\ \A i \in 1..n : name[i] = base[i]
        /\ name \in Seq(S \cup {Dot}) /\ name # <<>>
    BY <1>1, <1>4
  <2>2. I = {}
    BY <1>1, <2>1, CharsDiffer
  <2>3. Front(name) = base
    BY <1>1, <2>1 DEF Front
  <2> QED BY <1>2, <2>1, <2>2, <2>3 DEF Last
<1>5. CASE suffix = <<Semicolon, "1">>
  <2>1. /\ Len(name) = n + 2 /\ name[n + 1] = Semicolon /\ name[n + 2] = "1"
        /\ \A i \in 1..n : name[i] = base[i]
        /\ name \in Seq(S \cup {Semicolon, "1"})
    BY <1>1, <1>5
  <2>2. I = {n + 1}
    BY <1>1, <2>1, CharsDiffer
  <2> HIDE DEF I
  <2>3. Max(I) = n + 1
    BY <1>1, <2>2 DEF Max
  <2>4. SubSeq(name, 1, Max(I) - 1) = base
    <3>1. Max(I) - 1 = n
      BY <1>1, <2>3
    <3>2. SubSeq(name, 1, n) = base
      BY <1>1, <2>1
    <3> QED BY <3>1, <3>2
  <2>5. base # <<>> /\ Last(base) # Dot
    BY <1>1 DEF Last
  <2>6. Max(I) # 0 /\ I # {}
    BY <1>1, <2>2, <2>3
  <2> HIDE DEF name
  <2>7. TrimISOSuffix(name) = IF base # <<>> /\ Last(base) = Dot THEN Front(base) ELSE base
    BY <1>2, <2>4, <2>6, Zenon
  <2>8. TrimISOSuffix(name) = base
    BY <2>5, <2>7, Zenon
  <2> QED BY <2>8 DEF name
<1>6. CASE suffix = <<Dot, Semicolon, "1">>
  <2>1. /\ Len(name) = n + 3 /\ name[n + 1] = Dot /\ name[n + 2] = Semicolon /\ name[n + 3] = "1"
        /\ \A i \in 1..n : name[i] = base[i]
        /\ name \in Seq(S \cup {Dot, Semicolon, "1"})
    BY <1>1, <1>6
  <2>2. I = {n + 2}
    BY <1>1, <2>1, CharsDiffer
  <2>3. Max(I) = n + 2
    BY <1>1, <2>2 DEF Max
  <2> DEFINE b == SubSeq(name, 1, (n + 2) - 1)
  <2>4. Len(b) = n + 1 /\ b # <<>> /\ Last(b) = Dot /\ Front(b) = base
    BY <1>1, <2>1 DEF Last, Front
  <2>5. n + 2 # 0 /\ I # {}
    BY <1>1, <2>2
  <2> HIDE DEF I
  <2> QED BY <1>2, <2>3, <2>4, <2>5
<1> QED BY <1>3, <1>4, <1>5, <1>6 DEF Versions

\* The first k members of a sequence.
LEMMA Beginning ==
    ASSUME NEW S, NEW s \in Seq(S), NEW k \in 0..Len(s)
    PROVE  /\ SubSeq(s, 1, k) \in Seq(S) /\ Len(SubSeq(s, 1, k)) = k
           /\ \A j \in 1..k : SubSeq(s, 1, k)[j] = s[j]
<1>1. k \in Nat /\ k <= Len(s) /\ \A i \in 1..k : s[i] \in S
  OBVIOUS
<1>2. SubSeq(s, 1, k) = [i \in 1..k |-> s[i]]
  BY <1>1
<1> QED BY <1>1, <1>2

LEMMA SameMembers ==
    ASSUME NEW S, NEW s \in Seq(S), NEW t \in Seq(S), Len(s) = Len(t),
           \A j \in 1..Len(s) : s[j] = t[j]
    PROVE  s = t
OBVIOUS

\* A prefix agrees with the sequence on every place it has.
LEMMA PrefixPointwise ==
    ASSUME NEW S, NEW s \in Seq(S), NEW t \in Seq(S)
    PROVE  IsPrefix(s, t) <=> Len(s) <= Len(t) /\ \A j \in 1..Len(s) : s[j] = t[j]
<1> SUFFICES ASSUME Len(s) <= Len(t)
             PROVE  SubSeq(s, 1, Len(s)) = SubSeq(t, 1, Len(s))
                    <=> \A j \in 1..Len(s) : s[j] = t[j]
  BY DEF IsPrefix
<1>1. Len(s) \in 0..Len(s) /\ Len(s) \in 0..Len(t)
  OBVIOUS
<1>2. /\ SubSeq(s, 1, Len(s)) \in Seq(S) /\ Len(SubSeq(s, 1, Len(s))) = Len(s)
      /\ \A j \in 1..Len(s) : SubSeq(s, 1, Len(s))[j] = s[j]
  BY <1>1, Beginning
<1>3. /\ SubSeq(t, 1, Len(s)) \in Seq(S) /\ Len(SubSeq(t, 1, Len(s))) = Len(s)
      /\ \A j \in 1..Len(s) : SubSeq(t, 1, Len(s))[j] = t[j]
  BY <1>1, Beginning
<1> DEFINE a == SubSeq(s, 1, Len(s))  b == SubSeq(t, 1, Len(s))
<1>4. (\A j \in 1..Len(s) : s[j] = t[j]) => a = b
  <2> SUFFICES ASSUME \A j \in 1..Len(s) : s[j] = t[j] PROVE a = b
    OBVIOUS
  <2>1. \A j \in 1..Len(a) : a[j] = b[j]
    BY <1>2, <1>3
  <2> HIDE DEF a, b
  <2> QED BY <1>2, <1>3, <2>1, SameMembers DEF a, b
<1>5. a = b => \A j \in 1..Len(s) : s[j] = t[j]
  BY <1>2, <1>3
<1> QED BY <1>4, <1>5

\* Two names that fold to the same are mangled to the same.
LEMMA FoldedDecides ==
    ASSUME NEW S, NEW a \in Seq(S), NEW T, NEW b \in Seq(T), Folded(a) = Folded(b)
    PROVE  Mangle(a) = Mangle(b)
<1>1. /\ Len(a) = Len(b)
      /\ \A j \in 1..Len(a) : Fold(a[j]) = Fold(b[j])
  <2>1. /\ Len(Folded(a)) = Len(a)
        /\ \A j \in 1..Len(a) : Folded(a)[j] = Fold(a[j])
    BY Charwise
  <2>2. /\ Len(Folded(b)) = Len(b)
        /\ \A j \in 1..Len(b) : Folded(b)[j] = Fold(b[j])
    BY Charwise
  <2> QED BY <2>1, <2>2
<1>2. DOMAIN a = 1..Len(a) /\ DOMAIN b = 1..Len(b)
  OBVIOUS
<1> QED BY <1>1, <1>2 DEF Mangle

\* The wanted name, folded and mangled.
LEMMA WantFacts ==
    /\ Want \in Seq(Range(Want)) /\ Len(Want) \in Nat /\ MinPrefix \in 1..Len(Want)
    /\ Mangle(Want) \in Seq(Kept \cup {Underscore}) /\ Len(Mangle(Want)) = Len(Want)
    /\ \A j \in 1..Len(Want) : Mangle(Want)[j] = Mangled(Want[j])
<1>1. Want \in Seq(Range(Want)) /\ MinPrefix \in 1..Len(Want)
  BY WantAssumption
<1>2. \A S, name : name \in Seq(S) =>
         /\ Mangle(name) \in Seq(Kept \cup {Underscore}) /\ Len(Mangle(name)) = Len(name)
         /\ \A j \in 1..Len(name) : Mangle(name)[j] = Mangled(name[j])
  BY Charwise
<1>3. Len(Want) \in Nat
  BY <1>1
<1> QED BY <1>1, <1>2, <1>3, Zenon

\* What is matched, exactly or mangled, looks like user-data.
LEMMA MatchedResembles ==
    ASSUME NEW S, NEW got \in Seq(S), ExactName(got) \/ MangledName(got)
    PROVE  Resembles(got)
<1> DEFINE t == TrimISOSuffix(got)
           M == Kept \cup {Underscore}
<1>1. PICK k \in 0..Len(got) : t = SubSeq(got, 1, k)
  BY TrimShortens
<1>2. t \in Seq(S) /\ Len(t) = k /\ \A j \in 1..k : t[j] = got[j]
  BY <1>1, Beginning
<1> HIDE DEF t
<1>3. Mangle(t) \in Seq(M) /\ Len(Mangle(t)) = k /\ \A j \in 1..k : Mangle(t)[j] = Mangled(t[j])
  BY <1>2, Charwise
<1>4. Mangle(Want) \in Seq(M) /\ Len(Mangle(Want)) = Len(Want) /\ Want \in Seq(Range(Want))
      /\ MinPrefix \in 1..Len(Want) /\ Len(Want) \in Nat
  BY WantFacts
<1>5. Mangle(got) \in Seq(M) /\ Len(Mangle(got)) = Len(got)
      /\ \A j \in 1..Len(got) : Mangle(got)[j] = Mangled(got[j])
  BY Charwise
<1>6. /\ MinPrefix <= k
      /\ k <= Len(Want) /\ \A j \in 1..k : Mangle(t)[j] = Mangle(Want)[j]
  <2>1. CASE Mangle(t) = Mangle(Want)
    BY <1>3, <1>4, <2>1
  <2>2. CASE ExactName(got)
    <3>1. Mangle(t) = Mangle(Want)
      BY <1>2, <1>4, <2>2, FoldedDecides DEF ExactName, t
    <3> QED BY <2>1, <3>1
  <2>3. CASE MangledName(got) /\ Mangle(t) # Mangle(Want)
    <3>1. /\ Len(Mangle(t)) \in MinPrefix..(Len(Mangle(Want)) - 1)
          /\ IsPrefix(Mangle(t), Mangle(Want))
      BY <2>3 DEF MangledName, t
    <3>2. \A j \in 1..Len(Mangle(t)) : Mangle(t)[j] = Mangle(Want)[j]
      <4> HIDE DEF M
      <4> QED BY <1>3, <1>4, <3>1, PrefixPointwise
    <3> QED BY <1>3, <1>4, <3>1, <3>2
  <2> QED BY <2>1, <2>2, <2>3
<1> DEFINE p == SubSeq(Mangle(got), 1, MinPrefix)
<1>7. MinPrefix \in 0..Len(Mangle(got)) /\ Len(got) >= MinPrefix
  BY <1>1, <1>4, <1>5, <1>6
<1>8. p \in Seq(M) /\ Len(p) = MinPrefix /\ \A j \in 1..MinPrefix : p[j] = Mangle(got)[j]
  <2> HIDE DEF M
  <2> QED BY <1>5, <1>7, Beginning
<1>9. \A j \in 1..MinPrefix : Mangle(got)[j] = Mangle(Want)[j]
  <2> SUFFICES ASSUME NEW j \in 1..MinPrefix PROVE Mangle(got)[j] = Mangle(Want)[j]
    OBVIOUS
  <2>1. j \in 1..k /\ j \in 1..Len(got)
    BY <1>1, <1>4, <1>6
  <2> QED BY <1>2, <1>3, <1>5, <1>6, <2>1
<1>10. IsPrefix(p, Mangle(Want))
  <2>1. Len(p) <= Len(Mangle(Want)) /\ \A j \in 1..Len(p) : p[j] = Mangle(Want)[j]
    BY <1>4, <1>8, <1>9
  <2> HIDE DEF M, p
  <2> QED BY <1>4, <1>8, <2>1, PrefixPointwise
<1> QED BY <1>7, <1>10 DEF Resembles

\* Every name that a mastering tool gives user-data is matched.
LEMMA MintedIsMatched ==
    ASSUME NEW got \in Minted
    PROVE  ExactName(got) \/ MangledName(got)
<1> DEFINE M == Kept \cup {Underscore}
           S == Range(Want) \cup Range(Lower) \cup M
           w == Mangle(Want)
<1>1. PICK base \in Stems, suffix \in Versions : got = base \o suffix
  BY DEF Minted
<1>2. /\ Want \in Seq(Range(Want)) /\ Len(Want) \in Nat /\ MinPrefix \in 1..Len(Want)
  BY WantAssumption
<1>3. /\ Folded(Want) \in Seq(S) /\ Len(Folded(Want)) = Len(Want)
      /\ \A j \in 1..Len(Want) : Folded(Want)[j] = Fold(Want[j])
  <2>1. Folded(Want) \in Seq({Fold(c) : c \in Range(Want)})
    BY <1>2, Charwise
  <2>2. {Fold(c) : c \in Range(Want)} \subseteq S
    BY DEF Fold, Range
  <2> HIDE DEF S
  <2> QED BY <1>2, <2>1, <2>2, Charwise
<1>4. /\ w \in Seq(M) /\ w \in Seq(S) /\ Len(w) = Len(Want)
      /\ \A j \in 1..Len(Want) : w[j] = Mangled(Want[j])
  BY WantFacts
<1> DEFINE short == SubSeq(w, 1, MinPrefix)
<1>5. short \in Seq(M) /\ short \in Seq(S) /\ Len(short) = MinPrefix
      /\ \A j \in 1..MinPrefix : short[j] = w[j]
  <2>1. MinPrefix \in 0..Len(w)
    BY <1>2, <1>4
  <2> HIDE DEF M, S, w
  <2> QED BY <1>4, <2>1, Beginning
<1>6. {Semicolon, Dot} \cap S = {}
  BY WantAssumption, LettersAssumption, Zenon DEF Semicolon, Dot, Underscore, S, M
<1> HIDE DEF S
<1>7. base \in Seq(S) /\ base # <<>>
  <2>1. Want \in Seq(S)
    BY <1>2 DEF S
  <2>2. Len(base) # 0
    BY <1>1, <1>2, <1>3, <1>4, <1>5 DEF Stems
  <2> HIDE DEF M
  <2>3. base \in Seq(S)
    BY <1>1, <1>3, <1>4, <1>5, <2>1 DEF Stems
  <2> QED BY <2>2, <2>3
<1>8. TrimISOSuffix(got) = base
  <2>1. {Semicolon, Dot} \cap Range(base) = {}
    BY <1>6, <1>7 DEF Range
  <2> QED BY <1>1, <1>7, <2>1, TrimDropsVersion
<1>9. CASE base = Want
  BY <1>8, <1>9 DEF ExactName
<1>10. CASE base = Folded(Want)
  <2>1. Folded(base) = Folded(Want)
    <3>1. DOMAIN Folded(Want) = 1..Len(Want) /\ DOMAIN Want = 1..Len(Want)
      BY <1>2, <1>3
    <3> QED BY <1>3, <1>10, <3>1, Idempotent DEF Folded
  <2> QED BY <1>8, <2>1 DEF ExactName
<1>11. ASSUME NEW s \in Seq(M) PROVE Mangle(s) = s
  <2>1. \A c \in M : Mangled(c) = c
    BY LettersAssumption DEF Fold, Mangled
  <2>2. /\ Mangle(s) \in Seq(M) /\ Len(Mangle(s)) = Len(s)
        /\ \A j \in 1..Len(s) : Mangle(s)[j] = Mangled(s[j])
    BY <1>11, Charwise
  <2>3. \A j \in 1..Len(s) : s[j] \in M
    BY <1>11
  <2> HIDE DEF M
  <2>4. \A j \in 1..Len(Mangle(s)) : Mangle(s)[j] = s[j]
    BY <2>1, <2>2, <2>3
  <2> QED BY <1>11, <2>2, <2>4, SameMembers
<1>12. CASE base = w
  BY <1>4, <1>8, <1>11, <1>12 DEF MangledName
<1>13. CASE base = short
  <2>1. Mangle(base) = short
    BY <1>5, <1>11, <1>13
  <2>2. CASE MinPrefix = Len(Want)
    <3>1. \A j \in 1..Len(short) : short[j] = w[j]
      BY <1>5
    <3>2. short = w
      <4> HIDE DEF M, w, short
      <4> QED BY <1>4, <1>5, <2>2, <3>1, SameMembers
    <3> QED BY <1>8, <2>1, <3>2 DEF MangledName
  <2>3. CASE MinPrefix # Len(Want)
    <3>1. Len(short) \in MinPrefix..(Len(w) - 1)
      BY <1>2, <1>4, <1>5, <2>3
    <3>2. IsPrefix(short, w)
      <4>1. Len(short) <= Len(w) /\ \A j \in 1..Len(short) : short[j] = w[j]
        BY <1>2, <1>4, <1>5
      <4> HIDE DEF M, w, short
      <4> QED BY <1>4, <1>5, <4>1, PrefixPointwise
    <3> QED BY <1>8, <2>1, <3>1, <3>2 DEF MangledName
  <2> QED BY <2>2, <2>3
<1> QED BY <1>1, <1>9, <1>10, <1>12, <1>13 DEF Stems

LEMMA WantIsExact ==
    ExactName(Want)
<1>1. Want \in Seq(Range(Want)) /\ Want # <<>> /\ {Semicolon, Dot} \cap Range(Want) = {}
  BY WantAssumption
<1>2. <<>> \in Versions /\ Want \o <<>> = Want
  BY <1>1 DEF Versions
<1>3. TrimISOSuffix(Want) = Want
  BY <1>1, <1>2, TrimDropsVersion
<1> QED BY <1>3 DEF ExactName

\* The two passes find an exact match if there is one, else any match.
LEMMA PassesFind ==
    ASSUME NEW entries \in Seq(Entries)
    PROVE  /\ \A i \in 1..Len(entries) : ExactName(entries[i].name) =>
                 /\ FirstMatch(entries) \in 1..Len(entries)
                 /\ ExactName(entries[FirstMatch(entries)].name)
           /\ \A i \in 1..Len(entries) : MangledName(entries[i].name) =>
                 FirstMatch(entries) \in 1..Len(entries)
           /\ FirstMatch(entries) \in 0..Len(entries)
<1> DEFINE E == {i \in 1..Len(entries) : ExactName(entries[i].name)}
           M == {i \in 1..Len(entries) : MangledName(entries[i].name)}
           first(I) == IF I # {} THEN Min(I) ELSE 0
<1>1. FirstMatch(entries) = IF first(E) # 0 THEN first(E) ELSE first(M)
  BY DEF FirstMatch, SelectInSeq
<1>2. ASSUME NEW I \in SUBSET (1..Len(entries))
      PROVE  I # {} => first(I) \in I /\ first(I) # 0
  <2>1. I \in SUBSET Nat /\ 0 \notin I
    OBVIOUS
  <2> QED BY <2>1, LeastMember
<1>3. E \in SUBSET (1..Len(entries)) /\ M \in SUBSET (1..Len(entries)) /\ Len(entries) \in Nat
  OBVIOUS
<1>4. /\ E # {} => first(E) \in E /\ first(E) # 0
      /\ M # {} => first(M) \in M /\ first(M) # 0
      /\ E = {} => first(E) = 0
      /\ M = {} => first(M) = 0
  <2> HIDE DEF E, M
  <2> QED BY <1>2, <1>3
<1> HIDE DEF first
<1>5. ASSUME NEW i \in 1..Len(entries), ExactName(entries[i].name)
      PROVE  FirstMatch(entries) \in E
  <2>1. i \in E
    BY <1>5
  <2> HIDE DEF E, M
  <2> QED BY <1>1, <1>4, <2>1
<1>6. ASSUME NEW i \in 1..Len(entries), MangledName(entries[i].name)
      PROVE  FirstMatch(entries) \in E \cup M
  <2>1. i \in M
    BY <1>6
  <2> HIDE DEF E, M
  <2> QED BY <1>1, <1>4, <2>1
<1>7. FirstMatch(entries) \in 0..Len(entries)
  <2>1. FirstMatch(entries) \in {0} \cup E \cup M
    <3> HIDE DEF E, M
    <3> QED BY <1>1, <1>4
  <2> QED BY <2>1
<1> QED BY <1>5, <1>6, <1>7

\* Next to a file with the plain name, no other file is answered.
LEMMA PlainFileWins ==
    ASSUME NEW entries \in Seq(Entries), NEW listable \in BOOLEAN,
           NEW i \in 1..Len(entries), ExactName(entries[i].name)
    PROVE  \/ ReadNamed(entries, listable) = Failure
           \/ \E e \in Range(entries) : /\ ExactName(e.name)
                                        /\ ReadNamed(entries, listable) = e.data
<1> DEFINE first == FirstMatch(entries)
           Wanted(e) == e.name = Want /\ e.data # Unreadable
<1>1. CASE \E e \in Range(entries) : Wanted(e)
  <2> DEFINE e == CHOOSE e \in Range(entries) : Wanted(e)
  <2>1. e \in Range(entries) /\ Wanted(e)
    BY <1>1, Zenon
  <2>2. ReadNamed(entries, listable) = e.data
    BY <1>1, Zenon DEF ReadNamed
  <2>3. ExactName(e.name)
    BY <2>1, WantIsExact, Zenon
  <2> QED BY <2>1, <2>2, <2>3, Zenon
<1>2. CASE ~\E e \in Range(entries) : Wanted(e)
  <2>1. first \in 1..Len(entries) /\ ExactName(entries[first].name)
    BY PassesFind
  <2>2. entries[first] \in Range(entries)
    BY <2>1 DEF Range
  <2>3. ReadNamed(entries, listable) \in {Failure, entries[first].data}
    <3> HIDE DEF first
    <3> QED BY <1>2, Zenon DEF ReadNamed, first
  <2> HIDE DEF first
  <2> QED BY <2>1, <2>2, <2>3
<1> QED BY <1>1, <1>2, Zenon

\* A file of a minted name is answered when everything is readable.
LEMMA MintedFileIsRead ==
    ASSUME NEW entries \in Seq(Entries), \A e \in Range(entries) : e.data # Unreadable,
           NEW m \in Range(entries), m.name \in Minted
    PROVE  ReadNamed(entries, TRUE) # Failure
<1> DEFINE first == FirstMatch(entries)
           Wanted(e) == e.name = Want /\ e.data # Unreadable
<1>1. /\ Range(entries) = {entries[i] : i \in 1..Len(entries)}
      /\ \A e \in Range(entries) : e \in Entries /\ e.data # Failure
  BY EntriesAssumption DEF Range
<1>2. first \in 1..Len(entries) /\ first # 0 /\ entries[first] \in Range(entries)
  <2>1. PICK i \in 1..Len(entries) : m = entries[i]
    BY <1>1
  <2>2. ExactName(entries[i].name) \/ MangledName(entries[i].name)
    BY <2>1, MintedIsMatched
  <2>3. first \in 1..Len(entries)
    BY <2>2, PassesFind
  <2> QED BY <1>1, <2>3
<1>3. CASE \E e \in Range(entries) : Wanted(e)
  <2> DEFINE e == CHOOSE e \in Range(entries) : Wanted(e)
  <2>1. e \in Range(entries)
    BY <1>3, Zenon
  <2>2. ReadNamed(entries, TRUE) = e.data
    BY <1>3, Zenon DEF ReadNamed
  <2> QED BY <1>1, <2>1, <2>2, Zenon
<1>4. CASE ~\E e \in Range(entries) : Wanted(e)
  <2>1. ReadNamed(entries, TRUE) = entries[first].data
    <3>1. entries[first].data # Unreadable
      BY <1>2
    <3> QED BY <1>2, <1>4, <3>1, Zenon DEF ReadNamed
  <2> QED BY <1>1, <1>2, <2>1, Zenon
<1> QED BY <1>3, <1>4, Zenon

-----------------------------------------------------------------------------
(* The members of a sequence at some places.                                *)

Selecting(seq, places, first) ==
    first = [n \in 0..Len(seq) |->
                IF n = 0 THEN <<>>
                ELSE IF n \in places THEN Append(first[n - 1], seq[n])
                ELSE first[n - 1]]

\* Select is the last value of its recursive function, which exists.
LEMMA SelectRuns ==
    ASSUME NEW T, NEW seq \in Seq(T), NEW places
    PROVE  \E first : /\ first \in [0..Len(seq) -> Seq(T)]
                      /\ Selecting(seq, places, first)
                      /\ Select(seq, places) = first[Len(seq)]
<1> DEFINE Then(n, s) == IF n \in places THEN Append(s, seq[n]) ELSE s
           step == [p \in (0..Len(seq)) \X Seq(T) |->
                       IF p[1] = 0 THEN p[2] ELSE Then(p[1], p[2])]
<1>1. step \in [(0..Len(seq)) \X Seq(T) -> Seq(T)]
  <2> SUFFICES ASSUME NEW n \in 0..Len(seq), NEW s \in Seq(T)
               PROVE  (IF n = 0 THEN s ELSE Then(n, s)) \in Seq(T)
    OBVIOUS
  <2>1. n # 0 => seq[n] \in T
    OBVIOUS
  <2> QED BY <2>1
<1>2. PICK run : IsRun(run, Len(seq), Seq(T), <<>>, step)
  <2>1. Len(seq) \in Nat /\ <<>> \in Seq(T)
    OBVIOUS
  <2> HIDE DEF step
  <2> QED BY <1>1, <2>1, RunExists
<1>3. Selecting(seq, places, run)
  <2>1. ASSUME NEW n \in 0..Len(seq)
        PROVE  run[n] = IF n = 0 THEN <<>> ELSE Then(n, run[n - 1])
    <3>1. CASE n = 0
      BY <1>2, <3>1 DEF IsRun
    <3>2. CASE n # 0
      <4>1. n \in 1..Len(seq) /\ n - 1 \in 0..Len(seq) /\ run[n - 1] \in Seq(T)
        BY <1>2, <3>2 DEF IsRun
      <4>2. step[<<n, run[n - 1]>>] = Then(n, run[n - 1])
        BY <3>2, <4>1
      <4> QED BY <1>2, <3>2, <4>1, <4>2 DEF IsRun
    <3> QED BY <3>1, <3>2
  <2> HIDE DEF step
  <2> QED BY <1>2, <2>1 DEF IsRun, Selecting
<1> DEFINE first == CHOOSE f : Selecting(seq, places, f)
<1>4. Selecting(seq, places, first)
  BY <1>3
<1>5. Select(seq, places) = first[Len(seq)]
  BY Zenon DEF Select, Selecting
<1>6. first \in [0..Len(seq) -> Seq(T)]
  <2> DEFINE G == {n \in 0..Len(seq) : first[n] \in Seq(T)}
  <2> HIDE DEF first
  <2>1. 0 \in G
    BY <1>4 DEF Selecting
  <2>2. ASSUME NEW n \in 0..Len(seq), n < Len(seq), n \in G PROVE n + 1 \in G
    <3>1. n + 1 \in 0..Len(seq) /\ n + 1 # 0 /\ (n + 1) - 1 = n /\ seq[n + 1] \in T
      BY <2>2
    <3>2. first[n + 1] = Then(n + 1, first[n])
      BY <1>4, <3>1 DEF Selecting
    <3>3. first[n] \in Seq(T)
      BY <2>2
    <3>4. first[n + 1] \in Seq(T)
      BY <3>1, <3>2, <3>3
    <3> QED BY <3>1, <3>4
  <2>3. \A n \in 0..Len(seq) : n \in G
    <3>1. Len(seq) \in Nat
      OBVIOUS
    <3> HIDE DEF G
    <3> QED BY <2>1, <2>2, <3>1, UpTo
  <2> QED BY <1>4, <2>3 DEF Selecting
<1> HIDE DEF first
<1> QED BY <1>4, <1>5, <1>6

\* s is the members of seq at these places, each once and in their order.
IsSelection(s, seq, places) ==
    \E at \in [1..Len(s) -> places] :
       /\ \A k \in 1..Len(s) : s[k] = seq[at[k]]
       /\ \A k, l \in 1..Len(s) : k < l => at[k] < at[l]
       /\ \A j \in places : \E k \in 1..Len(s) : at[k] = j

\* What Select gives has one member for each place, in their order.
LEMMA SelectSelects ==
    ASSUME NEW T, NEW seq \in Seq(T), NEW places \in SUBSET (DOMAIN seq)
    PROVE  /\ Select(seq, places) \in Seq(T)
           /\ IsSelection(Select(seq, places), seq, places)
           /\ Len(Select(seq, places)) = Cardinality(places)
<1>1. PICK first \in [0..Len(seq) -> Seq(T)] :
         Selecting(seq, places, first) /\ Select(seq, places) = first[Len(seq)]
  BY SelectRuns
<1> DEFINE upto(n) == places \cap (1..n)
           Good(n) == /\ IsSelection(first[n], seq, upto(n))
                      /\ IsFiniteSet(upto(n)) /\ Cardinality(upto(n)) = Len(first[n])
           G == {n \in 0..Len(seq) : Good(n)}
<1>2. Len(seq) \in Nat /\ DOMAIN seq = 1..Len(seq) /\ first[0] = <<>>
  BY <1>1 DEF Selecting
<1>3. 0 \in G
  <2>1. upto(0) = {}
    OBVIOUS
  <2>2. IsSelection(<<>>, seq, {})
    <3>1. [k \in 1..0 |-> 0] \in [1..0 -> {}]
      OBVIOUS
    <3>2. Len(<<>>) = 0
      OBVIOUS
    <3> QED BY <3>1, <3>2 DEF IsSelection
  <2>3. IsFiniteSet({}) /\ Cardinality({}) = 0
    BY FS_EmptySet
  <2> QED BY <1>2, <2>1, <2>2, <2>3
<1>4. ASSUME NEW n \in 0..Len(seq), n < Len(seq), n \in G
      PROVE  n + 1 \in G
  <2>1. /\ n + 1 \in 0..Len(seq) /\ n + 1 # 0 /\ (n + 1) - 1 = n /\ seq[n + 1] \in T
        /\ 1..(n + 1) = 1..n \cup {n + 1} /\ n + 1 \notin upto(n) /\ first[n] \in Seq(T)
        /\ \A j \in upto(n) : j < n + 1
    BY <1>1, <1>2, <1>4
  <2>2. Good(n)
    BY <1>4
  <2>3. CASE n + 1 \notin places
    <3>1. first[n + 1] = first[n]
      BY <1>1, <2>1, <2>3 DEF Selecting
    <3>2. upto(n + 1) = upto(n)
      BY <2>1, <2>3
    <3> HIDE DEF upto
    <3> QED BY <2>1, <2>2, <3>1, <3>2
  <2>4. CASE n + 1 \in places
    <3> DEFINE s == first[n]  t == first[n + 1]  m == Len(s)
    <3>1. t = Append(s, seq[n + 1])
      BY <1>1, <2>1, <2>4 DEF Selecting
    <3>2. /\ m \in Nat /\ Len(t) = m + 1 /\ t[m + 1] = seq[n + 1]
          /\ \A k \in 1..m : t[k] = s[k]
      BY <2>1, <3>1
    <3>3. upto(n + 1) = upto(n) \cup {n + 1}
      BY <2>1, <2>4
    <3>4. PICK at \in [1..m -> upto(n)] :
             /\ \A k \in 1..m : s[k] = seq[at[k]]
             /\ \A k, l \in 1..m : k < l => at[k] < at[l]
             /\ \A j \in upto(n) : \E k \in 1..m : at[k] = j
      BY <2>2 DEF IsSelection
    <3> DEFINE more == [k \in 1..(m + 1) |-> IF k = m + 1 THEN n + 1 ELSE at[k]]
    <3> HIDE DEF upto, s, t, m
    <3>5. 1..(m + 1) = 1..m \cup {m + 1} /\ m + 1 \notin 1..m /\ \A k \in 1..m : k < m + 1
      BY <3>2
    <3>6. more \in [1..(m + 1) -> upto(n + 1)]
      BY <3>3, <3>4, <3>5
    <3>7. more[m + 1] = n + 1 /\ \A k \in 1..m : more[k] = at[k] /\ at[k] \in upto(n)
      BY <3>4, <3>5
    <3> HIDE DEF more
    <3>8. \A k \in 1..(m + 1) : t[k] = seq[more[k]]
      BY <3>2, <3>4, <3>5, <3>7 DEF s, t
    <3>9. ASSUME NEW k \in 1..(m + 1), NEW l \in 1..(m + 1), k < l
          PROVE  more[k] < more[l]
      <4>1. k \in 1..m
        BY <3>2, <3>9
      <4>2. CASE l \in 1..m
        BY <3>4, <3>7, <3>9, <4>1, <4>2
      <4>3. CASE l = m + 1
        BY <2>1, <3>7, <4>1, <4>3
      <4> QED BY <3>5, <4>2, <4>3
    <3>10. \A j \in upto(n + 1) : \E k \in 1..(m + 1) : more[k] = j
      BY <3>3, <3>4, <3>5, <3>7
    <3>11. IsSelection(t, seq, upto(n + 1))
      <4>1. 1..Len(t) = 1..(m + 1)
        BY <3>2
      <4>2. \A k, l \in 1..(m + 1) : k < l => more[k] < more[l]
        BY <3>9
      <4>3. more \in [1..Len(t) -> upto(n + 1)]
        BY <3>6, <4>1
      <4>4. /\ \A k \in 1..Len(t) : t[k] = seq[more[k]]
            /\ \A k, l \in 1..Len(t) : k < l => more[k] < more[l]
            /\ \A j \in upto(n + 1) : \E k \in 1..Len(t) : more[k] = j
        BY <3>8, <3>10, <4>1, <4>2
      <4> QED BY <4>3, <4>4, Zenon DEF IsSelection
    <3>12. IsFiniteSet(upto(n + 1)) /\ Cardinality(upto(n + 1)) = m + 1
      <4>1. IsFiniteSet(upto(n)) /\ Cardinality(upto(n)) = m
        BY <2>2 DEF m, s
      <4> QED BY <2>1, <3>3, <4>1, FS_AddElement
    <3> QED BY <2>1, <3>2, <3>11, <3>12 DEF t
  <2> QED BY <2>3, <2>4
<1>5. Good(Len(seq))
  <2>1. \A n \in 0..Len(seq) : n \in G
    <3> HIDE DEF G
    <3> QED BY <1>2, <1>3, <1>4, UpTo
  <2> QED BY <1>2, <2>1
<1>6. upto(Len(seq)) = places /\ first[Len(seq)] \in Seq(T)
  BY <1>1, <1>2
<1> HIDE DEF upto
<1> QED BY <1>1, <1>5, <1>6

\* The members that Select gives are those at the places.
LEMMA SelectedMembers ==
    ASSUME NEW T, NEW seq \in Seq(T), NEW places \in SUBSET (DOMAIN seq)
    PROVE  Range(Select(seq, places)) = {seq[j] : j \in places}
<1> DEFINE s == Select(seq, places)
<1>1. s \in Seq(T) /\ IsSelection(s, seq, places)
  BY SelectSelects
<1> HIDE DEF s
<1>2. PICK at \in [1..Len(s) -> places] :
         /\ \A k \in 1..Len(s) : s[k] = seq[at[k]]
         /\ \A j \in places : \E k \in 1..Len(s) : at[k] = j
  BY <1>1 DEF IsSelection
<1>3. DOMAIN s = 1..Len(s)
  BY <1>1
<1>4. Range(s) = {s[k] : k \in 1..Len(s)}
  BY <1>3 DEF Range
<1>5. ASSUME NEW k \in 1..Len(s) PROVE s[k] \in {seq[j] : j \in places}
  BY <1>2
<1>6. ASSUME NEW j \in places PROVE seq[j] \in {s[k] : k \in 1..Len(s)}
  BY <1>2
<1> QED BY <1>4, <1>5, <1>6 DEF s

\* What is kept are names, and as many as there are.
LEMMA NamesSelected ==
    ASSUME NEW T, NEW seq \in Seq(T)
    PROVE  /\ Select(seq, Named(seq)) \in Seq(T)
           /\ \A x \in Range(Select(seq, Named(seq))) : IsName(x)
           /\ Len(Select(seq, Named(seq))) = Cardinality(Named(seq))
<1>1. Named(seq) \in SUBSET (DOMAIN seq) /\ \A j \in Named(seq) : IsName(seq[j])
  BY DEF Named
<1> QED BY <1>1, SelectSelects, SelectedMembers

\* The groups of a user are those that are named, and all of them.
LEMMA GroupsNormalised ==
    ASSUME NEW u \in Users
    PROVE  /\ \E T : NormaliseGroups(u.groups) \in Seq(T)
           /\ \A x \in Range(NormaliseGroups(u.groups)) : IsName(x)
           /\ Len(NormaliseGroups(u.groups)) = Cardinality(Named(u.groups.v))
<1> DEFINE g == u.groups
<1>1. /\ g.kind \in {"string", "list", "other"} /\ g.v \in Seq(Range(g.v))
      /\ g.kind = "other" => g.v = <<>>
  BY MembersAssumption DEF IsSeq
<1> HIDE DEF g
<1>2. CASE g.kind \in {"string", "list"}
  <2>1. NormaliseGroups(g) = Select(g.v, Named(g.v))
    BY <1>2 DEF NormaliseGroups
  <2> QED BY <1>1, <2>1, NamesSelected DEF g
<1>3. CASE g.kind = "other"
  <2>1. NormaliseGroups(g) = <<>> /\ Named(g.v) = {}
    BY <1>1, <1>3 DEF NormaliseGroups, Named
  <2>2. <<>> \in Seq({}) /\ Range(<<>>) = {} /\ Len(<<>>) = 0
    BY DEF Range
  <2>3. Cardinality({}) = 0
    BY FS_EmptySet
  <2> QED BY <2>1, <2>2, <2>3 DEF g
<1> QED BY <1>1, <1>2, <1>3

\* No package without a name is left, and none with a name is dropped.
LEMMA PackagesFlattened ==
    ASSUME NEW entries \in Seq(Packages)
    PROVE  /\ \A x \in Range(FlattenPackages(entries)) : IsName(x)
           /\ \A p \in Range(entries) :
                 IsName(PackageName(p)) => PackageName(p) \in Range(FlattenPackages(entries))
<1> DEFINE names == [j \in DOMAIN entries |-> PackageName(entries[j])]
           T == {PackageName(p) : p \in Packages}
<1>1. names \in Seq(T)
  <2>1. DOMAIN entries = 1..Len(entries) /\ Len(entries) \in Nat
    OBVIOUS
  <2>2. \A j \in 1..Len(entries) : PackageName(entries[j]) \in T
    OBVIOUS
  <2> HIDE DEF T
  <2> QED BY <2>1, <2>2
<1>2. FlattenPackages(entries) = Select(names, Named(names))
  BY Zenon DEF FlattenPackages
<1>3. ASSUME NEW p \in Range(entries), IsName(PackageName(p))
      PROVE  \E j \in Named(names) : names[j] = PackageName(p)
  <2>1. PICK j \in DOMAIN entries : entries[j] = p
    BY DEF Range
  <2>2. j \in DOMAIN names /\ names[j] = PackageName(p)
    BY <2>1
  <2> QED BY <1>3, <2>2 DEF Named
<1> HIDE DEF names, T
<1>4. Range(Select(names, Named(names))) = {names[j] : j \in Named(names)}
  <2>1. Named(names) \in SUBSET (DOMAIN names)
    BY DEF Named
  <2> QED BY <1>1, <2>1, SelectedMembers
<1>5. \A p \in Range(entries) :
         IsName(PackageName(p)) => PackageName(p) \in Range(FlattenPackages(entries))
  BY <1>2, <1>3, <1>4
<1> QED BY <1>1, <1>2, <1>5, NamesSelected

\* The users of the config are those of the document that are named.
LEMMA UsersConverted ==
    ASSUME NEW raw, raw.users \in Seq(Users)
    PROVE  Range(CloudToConfig(raw).users)
             = {User(u) : u \in {v \in Range(raw.users) : IsName(v.name)}}
<1> DEFINE places == {j \in DOMAIN raw.users : IsName(raw.users[j].name)}
           named == Select(raw.users, places)
           users == [j \in DOMAIN named |-> User(named[j])]
<1>1. CloudToConfig(raw).users = users
  BY DEF CloudToConfig
<1>2. Range(named) = {raw.users[j] : j \in places}
  <2>1. places \in SUBSET (DOMAIN raw.users)
    OBVIOUS
  <2> HIDE DEF places
  <2> QED BY <2>1, SelectedMembers
<1>3. {raw.users[j] : j \in places} = {v \in Range(raw.users) : IsName(v.name)}
  BY DEF Range
<1> HIDE DEF named, places
<1>4. Range(users) = {User(u) : u \in Range(named)}
  BY DEF Range
<1> QED BY <1>1, <1>2, <1>3, <1>4

\* No empty name reaches Apply and none that is a name is dropped
\* (cloudconfig.go:72-162).
LEMMA NamesConverted ==
    ASSUME NEW raw, raw.users \in Seq(Users), raw.packages \in Seq(Packages)
    PROVE  LET config == CloudToConfig(raw)
           IN /\ \A u \in Range(config.users) :
                    Range(<<u.name>> \o u.groups) \cap {Empty, NotString} = {}
              /\ Range(config.packages) \cap {Empty, NotString} = {}
              /\ \A u \in Range(raw.users) : IsName(u.name) =>
                    \E c \in Range(config.users) :
                       c.name = u.name /\ Len(c.groups) = Cardinality(Named(u.groups.v))
              /\ \A p \in Range(raw.packages) :
                    LET name == PackageName(p)
                    IN IsName(name) => name \in Range(config.packages)
<1> DEFINE config == CloudToConfig(raw)
<1>1. Range(config.users) = {User(u) : u \in {v \in Range(raw.users) : IsName(v.name)}}
  BY UsersConverted
<1>2. Range(raw.users) \subseteq Users
  BY DEF Range
<1>3. config.packages = FlattenPackages(raw.packages)
  BY DEF CloudToConfig
<1> HIDE DEF config
<1>4. ASSUME NEW u \in Range(config.users)
      PROVE  Range(<<u.name>> \o u.groups) \cap {Empty, NotString} = {}
  <2>1. PICK v \in Users : u = User(v) /\ IsName(v.name)
    BY <1>1, <1>2
  <2>2. u.name = v.name /\ u.groups = NormaliseGroups(v.groups)
    BY <2>1 DEF User
  <2>3. PICK T : u.groups \in Seq(T)
    BY <2>2, GroupsNormalised
  <2>4. \A x \in Range(u.groups) : IsName(x)
    BY <2>2, GroupsNormalised
  <2> DEFINE s == u.groups  n == u.name
  <2> HIDE DEF s, n
  <2>5. Range(<<n>> \o s) \subseteq {n} \cup Range(s)
    <3>1. s \in Seq(T)
      BY <2>3 DEF s
    <3>2. /\ DOMAIN (<<n>> \o s) = 1..(Len(s) + 1) /\ Len(s) \in Nat
          /\ DOMAIN s = 1..Len(s)
          /\ \A k \in 1..(Len(s) + 1) : (<<n>> \o s)[k] = IF k = 1 THEN n ELSE s[k - 1]
      BY <3>1
    <3>3. \A k \in 1..(Len(s) + 1) : k # 1 => k - 1 \in 1..Len(s)
      BY <3>2
    <3> QED BY <3>2, <3>3 DEF Range
  <2> QED BY <2>1, <2>2, <2>4, <2>5 DEF IsName, s, n
<1>5. Range(config.packages) \cap {Empty, NotString} = {}
  BY <1>3, PackagesFlattened DEF IsName
<1>6. ASSUME NEW u \in Range(raw.users), IsName(u.name)
      PROVE  \E c \in Range(config.users) :
                c.name = u.name /\ Len(c.groups) = Cardinality(Named(u.groups.v))
  <2>1. User(u) \in Range(config.users)
    BY <1>1, <1>6
  <2>2. User(u).name = u.name /\ User(u).groups = NormaliseGroups(u.groups)
    BY DEF User
  <2>3. Len(NormaliseGroups(u.groups)) = Cardinality(Named(u.groups.v))
    BY <1>2, GroupsNormalised
  <2> QED BY <2>1, <2>2, <2>3
<1>7. \A p \in Range(raw.packages) :
         IsName(PackageName(p)) => PackageName(p) \in Range(config.packages)
  BY <1>3, PackagesFlattened
<1> QED BY <1>4, <1>5, <1>6, <1>7 DEF config

\* The first k + 1 members are the first k and one more.
LEMMA Growing ==
    ASSUME NEW S, NEW s \in Seq(S)
    PROVE  /\ SubSeq(s, 1, 0) = <<>> /\ SubSeq(s, 1, Len(s)) = s
           /\ \A k \in 0..Len(s) :
                 k < Len(s) =>
                 /\ k + 1 \in 1..Len(s) /\ s[k + 1] \in S /\ SubSeq(s, 1, k) \in Seq(S)
                 /\ SubSeq(s, 1, k + 1) = Append(SubSeq(s, 1, k), s[k + 1])
<1>1. SubSeq(s, 1, 0) = <<>> /\ SubSeq(s, 1, Len(s)) = s
  OBVIOUS
<1>2. ASSUME NEW k \in 0..Len(s), k < Len(s)
      PROVE  /\ k + 1 \in 1..Len(s) /\ s[k + 1] \in S /\ SubSeq(s, 1, k) \in Seq(S)
             /\ SubSeq(s, 1, k + 1) = Append(SubSeq(s, 1, k), s[k + 1])
  <2> DEFINE a == SubSeq(s, 1, k)  b == SubSeq(s, 1, k + 1)  c == Append(a, s[k + 1])
  <2>1. k \in Nat /\ k + 1 \in 0..Len(s) /\ k + 1 \in 1..Len(s) /\ s[k + 1] \in S
    BY <1>2
  <2>2. a \in Seq(S) /\ Len(a) = k /\ \A j \in 1..k : a[j] = s[j]
    BY Beginning
  <2>3. b \in Seq(S) /\ Len(b) = k + 1 /\ \A j \in 1..(k + 1) : b[j] = s[j]
    BY <2>1, Beginning
  <2> HIDE DEF a, b
  <2>4. c \in Seq(S) /\ Len(c) = k + 1 /\ c[k + 1] = s[k + 1] /\ \A j \in 1..k : c[j] = a[j]
    BY <2>1, <2>2
  <2> HIDE DEF c
  <2>5. ASSUME NEW j \in 1..Len(b) PROVE b[j] = c[j]
    <3>1. CASE j = k + 1
      BY <2>3, <2>4, <3>1
    <3>2. CASE j # k + 1
      <4>1. j \in 1..k /\ j \in 1..(k + 1)
        BY <2>1, <2>3, <3>2
      <4> QED BY <2>2, <2>3, <2>4, <4>1
    <3> QED BY <3>1, <3>2
  <2>6. b = c
    BY <2>3, <2>4, <2>5, SameMembers
  <2> QED BY <2>1, <2>2, <2>6 DEF a, b, c
<1> QED BY <1>1, <1>2

-----------------------------------------------------------------------------
(* The shell.                                                               *)

States(C) ==
    [mode : {"plain", "quote", "escape"}, open : BOOLEAN, odd : BOOLEAN,
     bare : BOOLEAN, taken : BOOLEAN, word : Seq(C), words : Seq(Seq(C))]

LEMMA CharsOfShell ==
    /\ Blank # Quote /\ Blank # Backslash /\ Quote # Backslash /\ Tab # Quote /\ Tab # Backslash
    /\ {Blank, Tab, Quote, Backslash, "="} \cap Special = {}
    /\ "=" \notin {Blank, Tab, Quote, Backslash}
    /\ \A c : c \notin Unsafe =>
          c \notin {Blank, Tab} /\ c # Quote /\ c # Backslash /\ c \notin Special
<1>1. /\ Blank # Quote /\ Blank # Backslash /\ Quote # Backslash
      /\ Tab # Quote /\ Tab # Backslash /\ "=" \notin {Blank, Tab, Quote, Backslash}
  BY Zenon DEF Blank, Quote, Backslash, Tab
<1>2. {Blank, Tab, Quote, Backslash} \subseteq Unsafe /\ Special \subseteq Unsafe
  BY Zenon DEF Unsafe, Special
<1>3. {Blank, Tab, Quote, Backslash, "="} \cap Special = {}
  <2>1. \A c \in {Blank, Tab, Quote, Backslash, "="} : c \notin Special
    BY DEF Blank, Tab, Quote, Backslash, Backquote, Special
  <2> QED BY <2>1
<1> QED BY <1>1, <1>2, <1>3

\* What a character does outside quotes, and anywhere.
LEMMA ReadCases ==
    ASSUME NEW st, NEW c
    PROVE  LET assigned == FirstBare(st) /\ IsAssignment(Append(st.word, c))
               taken == [Put(st, c) EXCEPT !.taken = st.taken \/ assigned]
           IN /\ st.mode = "plain" =>
                 /\ c \in {Blank, Tab} => Read(st, c) = Ended(st)
                 /\ c = Quote => Read(st, c) = [Begun(st) EXCEPT !.mode = "quote", !.bare = FALSE]
                 /\ c = Backslash =>
                       Read(st, c) = [Begun(st) EXCEPT !.mode = "escape", !.bare = FALSE]
                 /\ c \notin Unsafe => Read(st, c) \in {Put(st, c), taken}
              /\ Read(st, c) \in {[st EXCEPT !.mode = "plain"], Put(st, c), Ended(st),
                                  [Put(st, c) EXCEPT !.mode = "plain"],
                                  [Begun(st) EXCEPT !.mode = "quote", !.bare = FALSE],
                                  [Begun(st) EXCEPT !.mode = "escape", !.bare = FALSE],
                                  [st EXCEPT !.odd = TRUE], taken}
<1> DEFINE put == Put(st, c)
           assigned == FirstBare(st) /\ IsAssignment(Append(st.word, c))
           taken == [Put(st, c) EXCEPT !.taken = st.taken \/ assigned]
           unquoted == [st EXCEPT !.mode = "plain"]
           escaped == [Put(st, c) EXCEPT !.mode = "plain"]
           quotes == [Begun(st) EXCEPT !.mode = "quote", !.bare = FALSE]
           escapes == [Begun(st) EXCEPT !.mode = "escape", !.bare = FALSE]
           odd == [st EXCEPT !.odd = TRUE]
           read == IF st.mode = "quote" THEN IF c = Quote THEN unquoted ELSE put
                   ELSE IF st.mode = "escape" THEN escaped
                   ELSE CASE c \in {Blank, Tab} -> Ended(st)
                          [] c = Quote -> quotes
                          [] c = Backslash -> escapes
                          [] c \in Special -> odd
                          [] c = "=" -> taken
                          [] OTHER -> put
<1>1. Read(st, c) = read
  BY DEF Read
<1> HIDE DEF put, taken, unquoted, escaped, quotes, escapes, odd
<1>2. read \in {unquoted, put, Ended(st), escaped, quotes, escapes, odd, taken}
  OBVIOUS
<1>3. ASSUME st.mode = "plain", c \in {Blank, Tab} PROVE read = Ended(st)
  BY <1>3, CharsOfShell
<1>4. ASSUME st.mode = "plain", c = Quote PROVE read = quotes
  BY <1>4, CharsOfShell
<1>5. ASSUME st.mode = "plain", c = Backslash PROVE read = escapes
  BY <1>5, CharsOfShell
<1>6. ASSUME st.mode = "plain", c \notin Unsafe PROVE read \in {put, taken}
  BY <1>6, CharsOfShell
<1> HIDE DEF read
<1> QED BY <1>1, <1>2, <1>3, <1>4, <1>5, <1>6, Zenon DEF put, taken, unquoted, escaped, quotes, escapes, odd

\* The shell reads a character to one of its states.
LEMMA ReadTyped ==
    ASSUME NEW C, NEW st \in States(C), NEW c \in C
    PROVE  Read(st, c) \in States(C)
<1>1. Begun(st) \in States(C)
  <2>1. <<>> \in Seq(C)
    OBVIOUS
  <2> DEFINE none == <<>>
  <2>2. Begun(st) = IF st.open THEN st
                    ELSE [st EXCEPT !.open = TRUE, !.word = none, !.bare = TRUE]
    BY DEF Begun
  <2>3. none \in Seq(C)
    BY <2>1
  <2> HIDE DEF none
  <2> QED BY <2>2, <2>3 DEF States
<1>2. Put(st, c) \in States(C)
  <2> DEFINE b == Begun(st)
  <2>1. b \in States(C) /\ Put(st, c) = [b EXCEPT !.word = Append(b.word, c)]
    BY <1>1 DEF Put
  <2> HIDE DEF b
  <2>2. Append(b.word, c) \in Seq(C)
    BY <2>1 DEF States
  <2> QED BY <2>1, <2>2 DEF States
<1>3. Ended(st) \in States(C)
  <2> DEFINE more == Append(st.words, st.word)
             reserved == FirstBare(st) /\ IsReserved(st.word)
  <2>1. more \in Seq(Seq(C))
    BY DEF States
  <2>2. (st.taken \/ reserved) \in BOOLEAN
    OBVIOUS
  <2>3. Ended(st) = IF st.open
                    THEN [st EXCEPT !.open = FALSE, !.words = more,
                                    !.taken = st.taken \/ reserved]
                    ELSE st
    BY DEF Ended
  <2> HIDE DEF more, reserved
  <2> QED BY <2>1, <2>2, <2>3 DEF States
<1>4. /\ [st EXCEPT !.mode = "plain"] \in States(C)
      /\ [st EXCEPT !.odd = TRUE] \in States(C)
      /\ [Put(st, c) EXCEPT !.mode = "plain"] \in States(C)
      /\ [Begun(st) EXCEPT !.mode = "quote", !.bare = FALSE] \in States(C)
      /\ [Begun(st) EXCEPT !.mode = "escape", !.bare = FALSE] \in States(C)
  BY <1>1, <1>2 DEF States
<1>5. \A taken \in BOOLEAN : [Put(st, c) EXCEPT !.taken = taken] \in States(C)
  BY <1>2 DEF States
<1> DEFINE assigned == st.taken \/ (FirstBare(st) /\ IsAssignment(Append(st.word, c)))
<1>6. [Put(st, c) EXCEPT !.taken = assigned] \in States(C)
  <2>1. assigned \in BOOLEAN
    OBVIOUS
  <2> HIDE DEF assigned
  <2> QED BY <1>5, <2>1
<1>7. Read(st, c) \in {[st EXCEPT !.mode = "plain"], Put(st, c), Ended(st),
                      [Put(st, c) EXCEPT !.mode = "plain"],
                      [Begun(st) EXCEPT !.mode = "quote", !.bare = FALSE],
                      [Begun(st) EXCEPT !.mode = "escape", !.bare = FALSE],
                      [st EXCEPT !.odd = TRUE], [Put(st, c) EXCEPT !.taken = assigned]}
  BY ReadCases, Zenon
<1> HIDE DEF assigned
<1> QED BY <1>2, <1>3, <1>4, <1>6, <1>7

Reading(st, line, after) ==
    after = [n \in 0..Len(line) |-> IF n = 0 THEN st ELSE Read(after[n - 1], line[n])]

\* After is the last value of its recursive function, which exists.
LEMMA ReadingRuns ==
    ASSUME NEW C, NEW st \in States(C), NEW line \in Seq(C)
    PROVE  \E after : Reading(st, line, after) /\ After(st, line) = after[Len(line)]
<1> DEFINE D == States(C)
           step == [p \in (0..Len(line)) \X D |->
                       IF p[1] = 0 THEN p[2] ELSE Read(p[2], line[p[1]])]
<1>1. step \in [(0..Len(line)) \X D -> D]
  <2> SUFFICES ASSUME NEW n \in 0..Len(line), NEW s \in D
               PROVE  (IF n = 0 THEN s ELSE Read(s, line[n])) \in D
    OBVIOUS
  <2>1. n # 0 => line[n] \in C
    OBVIOUS
  <2> QED BY <2>1, ReadTyped
<1>2. PICK run : IsRun(run, Len(line), D, st, step)
  <2>1. Len(line) \in Nat
    OBVIOUS
  <2> HIDE DEF step, D
  <2>2. st \in D
    BY DEF D
  <2> QED BY <1>1, <2>1, <2>2, RunExists
<1> HIDE DEF D
<1>3. Reading(st, line, run)
  <2>1. ASSUME NEW n \in 0..Len(line)
        PROVE  run[n] = IF n = 0 THEN st ELSE Read(run[n - 1], line[n])
    <3>1. CASE n = 0
      BY <1>2, <3>1 DEF IsRun
    <3>2. CASE n # 0
      <4>1. n \in 1..Len(line) /\ n - 1 \in 0..Len(line) /\ run[n - 1] \in D
        BY <1>2, <3>2 DEF IsRun
      <4>2. step[<<n, run[n - 1]>>] = Read(run[n - 1], line[n])
        BY <3>2, <4>1
      <4> QED BY <1>2, <3>2, <4>1, <4>2 DEF IsRun
    <3> QED BY <3>1, <3>2
  <2> HIDE DEF step
  <2> QED BY <1>2, <2>1 DEF IsRun, Reading
<1> DEFINE after == CHOOSE f : Reading(st, line, f)
<1>4. Reading(st, line, after)
  BY <1>3
<1>5. After(st, line) = after[Len(line)]
  BY Zenon DEF After, Reading
<1> QED BY <1>4, <1>5, Zenon

\* The shell reads one character after the other.
LEMMA AfterAppend ==
    ASSUME NEW C, NEW st \in States(C), NEW line \in Seq(C), NEW c \in C
    PROVE  After(st, Append(line, c)) = Read(After(st, line), c)
<1> DEFINE more == Append(line, c)
           m == Len(line)
<1>1. /\ more \in Seq(C) /\ Len(more) = m + 1 /\ more[m + 1] = c /\ m \in Nat
      /\ \A n \in 1..m : more[n] = line[n]
  OBVIOUS
<1>2. PICK a : Reading(st, line, a) /\ After(st, line) = a[m]
  BY ReadingRuns
<1>3. PICK b : Reading(st, more, b) /\ After(st, more) = b[Len(more)]
  BY <1>1, ReadingRuns
<1> HIDE DEF more, m
<1> DEFINE G == {n \in 0..m : a[n] = b[n]}
<1>4. /\ a = [n \in 0..m |-> IF n = 0 THEN st ELSE Read(a[n - 1], line[n])]
      /\ b = [n \in 0..(m + 1) |-> IF n = 0 THEN st ELSE Read(b[n - 1], more[n])]
  BY <1>1, <1>2, <1>3 DEF Reading, m
<1>5. 0 \in G
  BY <1>1, <1>4
<1>6. ASSUME NEW n \in 0..m, n < m, n \in G PROVE n + 1 \in G
  <2>1. n + 1 \in 1..m /\ n + 1 \in 0..m /\ n + 1 \in 0..(m + 1) /\ n + 1 # 0 /\ (n + 1) - 1 = n
    BY <1>1, <1>6
  <2>2. a[n + 1] = Read(a[n], line[n + 1]) /\ b[n + 1] = Read(b[n], more[n + 1])
    BY <1>4, <2>1
  <2> QED BY <1>1, <1>6, <2>1, <2>2
<1>7. a[m] = b[m]
  <2>1. \A n \in 0..m : n \in G
    <3> HIDE DEF G
    <3> QED BY <1>1, <1>5, <1>6, UpTo
  <2> QED BY <1>1, <2>1
<1>8. b[m + 1] = Read(b[m], c)
  <2>1. m + 1 \in 0..(m + 1) /\ m + 1 # 0 /\ (m + 1) - 1 = m
    BY <1>1
  <2> QED BY <1>1, <1>4, <2>1
<1> QED BY <1>1, <1>2, <1>3, <1>7, <1>8 DEF more

\* The shell stays where it is on an empty line.
LEMMA AfterNothing ==
    ASSUME NEW C, NEW st \in States(C)
    PROVE  After(st, <<>>) = st
<1>1. <<>> \in Seq(C) /\ Len(<<>>) = 0 /\ 0 \in 0..0
  OBVIOUS
<1>2. PICK a : Reading(st, <<>>, a) /\ After(st, <<>>) = a[0]
  BY <1>1, ReadingRuns
<1> QED BY <1>1, <1>2 DEF Reading

\* The shell is in one of its states after any line.
LEMMA AfterTyped ==
    ASSUME NEW C, NEW st \in States(C), NEW line \in Seq(C)
    PROVE  After(st, line) \in States(C)
<1> DEFINE G == {k \in 0..Len(line) : After(st, SubSeq(line, 1, k)) \in States(C)}
<1>1. /\ SubSeq(line, 1, 0) = <<>> /\ SubSeq(line, 1, Len(line)) = line
      /\ Len(line) \in Nat
  BY Growing
<1>2. 0 \in G
  <2>1. After(st, <<>>) = st
    BY AfterNothing
  <2>2. After(st, SubSeq(line, 1, 0)) = st
    BY <1>1, <2>1, Zenon
  <2> QED BY <1>1, <2>2
<1>3. ASSUME NEW k \in 0..Len(line), k < Len(line), k \in G PROVE k + 1 \in G
  <2>1. /\ k + 1 \in 1..Len(line) /\ line[k + 1] \in C /\ SubSeq(line, 1, k) \in Seq(C)
        /\ SubSeq(line, 1, k + 1) = Append(SubSeq(line, 1, k), line[k + 1])
    BY <1>3, Growing
  <2>2. After(st, SubSeq(line, 1, k + 1)) = Read(After(st, SubSeq(line, 1, k)), line[k + 1])
    <3> DEFINE x == SubSeq(line, 1, k)  c == line[k + 1]
    <3>1. x \in Seq(C) /\ c \in C /\ SubSeq(line, 1, k + 1) = Append(x, c)
      BY <2>1
    <3> HIDE DEF x, c
    <3>2. After(st, Append(x, c)) = Read(After(st, x), c)
      BY <3>1, AfterAppend
    <3> QED BY <3>1, <3>2 DEF x, c
  <2>3. After(st, SubSeq(line, 1, k)) \in States(C)
    BY <1>3
  <2> QED BY <2>1, <2>2, <2>3, ReadTyped
<1> HIDE DEF G
<1>4. Len(line) \in G
  <2>1. \A k \in 0..Len(line) : k \in G
    BY <1>1, <1>2, <1>3, UpTo
  <2> QED BY <1>1, <2>1
<1> QED BY <1>1, <1>4 DEF G

\* A word is begun where none is, and a character is put into it.
LEMMA BegunAt ==
    ASSUME NEW C, NEW st \in States(C)
    PROVE  /\ Begun(st) \in States(C)
           /\ Begun(st).mode = st.mode /\ Begun(st).open /\ Begun(st).odd = st.odd
           /\ Begun(st).words = st.words /\ Begun(st).taken = st.taken
           /\ Begun(st).word = IF st.open THEN st.word ELSE <<>>
<1> DEFINE none == <<>>
<1>1. none \in Seq(C)
  OBVIOUS
<1>2. Begun(st) = IF st.open THEN st
                  ELSE [st EXCEPT !.open = TRUE, !.word = none, !.bare = TRUE]
  BY DEF Begun
<1> HIDE DEF none
<1>3. /\ Begun(st) \in States(C)
      /\ Begun(st).mode = st.mode /\ Begun(st).open /\ Begun(st).odd = st.odd
      /\ Begun(st).words = st.words /\ Begun(st).taken = st.taken
      /\ Begun(st).word = IF st.open THEN st.word ELSE none
  BY <1>1, <1>2 DEF States
<1> QED BY <1>3 DEF none

LEMMA PutAt ==
    ASSUME NEW C, NEW st \in States(C), NEW c \in C
    PROVE  /\ Put(st, c) \in States(C)
           /\ Put(st, c).mode = st.mode /\ Put(st, c).open /\ Put(st, c).odd = st.odd
           /\ Put(st, c).words = st.words /\ Put(st, c).taken = st.taken
           /\ Put(st, c).word = Append(IF st.open THEN st.word ELSE <<>>, c)
<1> DEFINE b == Begun(st)
           w == Append(b.word, c)
<1>1. /\ b \in States(C) /\ b.mode = st.mode /\ b.open /\ b.odd = st.odd
      /\ b.words = st.words /\ b.taken = st.taken /\ b.word = IF st.open THEN st.word ELSE <<>>
  BY BegunAt
<1>2. Put(st, c) = [b EXCEPT !.word = w]
  BY DEF Put
<1>3. w \in Seq(C)
  <2> HIDE DEF b
  <2> QED BY <1>1 DEF States
<1>4. w = Append(IF st.open THEN st.word ELSE <<>>, c)
  BY <1>1
<1> HIDE DEF b, w
<1>5. /\ Put(st, c) \in States(C)
      /\ Put(st, c).mode = b.mode /\ Put(st, c).open = b.open /\ Put(st, c).odd = b.odd
      /\ Put(st, c).words = b.words /\ Put(st, c).word = w /\ Put(st, c).taken = b.taken
  BY <1>1, <1>2, <1>3 DEF States
<1> QED BY <1>1, <1>4, <1>5

\* A word that is longer by a character is an assignment if the word is.
LEMMA AssignmentGrows ==
    ASSUME NEW C, NEW w \in Seq(C), NEW c \in C, IsAssignment(w)
    PROVE  IsAssignment(Append(w, c))
<1> DEFINE x == Append(w, c)
<1>1. PICK n \in 2..Len(w) :
         w[n] = "=" /\ w[1] \notin Digits /\ \A j \in 1..(n - 1) : w[j] \in NameChars
  BY DEF IsAssignment
<1>2. Len(x) = Len(w) + 1 /\ Len(w) \in Nat /\ \A j \in 1..Len(w) : x[j] = w[j]
  OBVIOUS
<1> HIDE DEF x
<1>3. n \in 2..Len(x) /\ 1 \in 1..Len(w) /\ \A j \in 1..(n - 1) : j \in 1..Len(w)
  BY <1>2
<1>4. x[n] = "=" /\ x[1] \notin Digits /\ \A j \in 1..(n - 1) : x[j] \in NameChars
  BY <1>1, <1>2, <1>3
<1> QED BY <1>3, <1>4 DEF IsAssignment, x

\* Only an assignment or a reserved word in front takes the place of a command.
TakenRightly(st) ==
    st.taken => IF st.words = <<>> THEN st.open /\ IsAssignment(st.word)
                ELSE IsAssignment(st.words[1]) \/ IsReserved(st.words[1])

\* The end of a word leaves it so.
LEMMA EndedRightly ==
    ASSUME NEW C, NEW st \in States(C), TakenRightly(st)
    PROVE  TakenRightly(Ended(st))
<1> DEFINE more == Append(st.words, st.word)
           reserved == FirstBare(st) /\ IsReserved(st.word)
<1>1. CASE ~st.open
  <2>1. Ended(st) = st
    BY <1>1 DEF Ended
  <2> QED BY <2>1
<1>2. CASE st.open
  <2>1. Ended(st) = [st EXCEPT !.open = FALSE, !.words = more, !.taken = st.taken \/ reserved]
    BY <1>2 DEF Ended
  <2>2. more # <<>> /\ more[1] = IF st.words = <<>> THEN st.word ELSE st.words[1]
    <3> DEFINE W == Seq(C)
               ws == st.words
    <3>1. ws \in Seq(W) /\ st.word \in W
      BY DEF States
    <3>2. more = Append(ws, st.word)
      OBVIOUS
    <3> HIDE DEF W, ws, more
    <3>3. CASE ws = <<>>
      BY <3>1, <3>2, <3>3 DEF ws
    <3>4. CASE ws # <<>>
      BY <3>1, <3>2, <3>4 DEF ws
    <3> QED BY <3>3, <3>4
  <2>3. reserved => st.words = <<>> /\ IsReserved(st.word)
    BY DEF FirstBare
  <2> HIDE DEF more, reserved
  <2>4. Ended(st).words = more /\ (Ended(st).taken <=> st.taken \/ reserved)
    BY <2>1 DEF States
  <2>5. ASSUME st.taken \/ reserved PROVE IsAssignment(more[1]) \/ IsReserved(more[1])
    BY <2>2, <2>3, <2>5 DEF TakenRightly
  <2> QED BY <2>2, <2>4, <2>5 DEF TakenRightly
<1> QED BY <1>1, <1>2

\* And so does a character put into a word.
LEMMA PutRightly ==
    ASSUME NEW C, NEW st \in States(C), NEW c \in C, TakenRightly(st)
    PROVE  TakenRightly(Put(st, c))
<1> DEFINE w == Append(Begun(st).word, c)
<1>1. CASE st.open
  <2>1. Begun(st) = st
    BY <1>1 DEF Begun
  <2>2. Put(st, c) = [st EXCEPT !.word = w] /\ w = Append(st.word, c)
    BY <2>1 DEF Put
  <2>3. st.word \in Seq(C)
    BY DEF States
  <2>4. IsAssignment(st.word) => IsAssignment(w)
    BY <2>2, <2>3, AssignmentGrows
  <2> HIDE DEF w
  <2>5. /\ Put(st, c).taken = st.taken /\ Put(st, c).words = st.words
        /\ Put(st, c).open = st.open /\ Put(st, c).word = w
    BY <2>2 DEF States
  <2> QED BY <2>4, <2>5 DEF TakenRightly
<1>2. CASE ~st.open
  <2>1. st.taken => st.words # <<>> /\ (IsAssignment(st.words[1]) \/ IsReserved(st.words[1]))
    BY <1>2 DEF TakenRightly
  <2>2. Put(st, c).taken = st.taken /\ Put(st, c).words = st.words
    <3> DEFINE none == <<>>
               b == [st EXCEPT !.open = TRUE, !.word = none, !.bare = TRUE]
    <3>1. Begun(st) = b
      BY <1>2 DEF Begun
    <3>2. Put(st, c) = [b EXCEPT !.word = w]
      BY <3>1 DEF Put
    <3> HIDE DEF none, w
    <3> QED BY <3>2 DEF States
  <2> QED BY <2>1, <2>2 DEF TakenRightly
<1> QED BY <1>1, <1>2

\* So does every character that the shell reads.
LEMMA ReadRightly ==
    ASSUME NEW C, NEW st \in States(C), NEW c \in C, TakenRightly(st)
    PROVE  TakenRightly(Read(st, c))
<1> DEFINE put == Put(st, c)
           begun == Begun(st)
           assigned == FirstBare(st) /\ IsAssignment(Append(st.word, c))
<1>1. put \in States(C) /\ begun \in States(C)
  BY PutAt, BegunAt
<1>2. TakenRightly(put)
  BY PutRightly
<1>3. begun.taken = st.taken /\ begun.words = st.words /\ (st.open => begun = st)
  BY DEF Begun, States
<1>4. TakenRightly(Ended(st))
  BY EndedRightly
<1>5. TakenRightly([st EXCEPT !.mode = "plain"]) /\ TakenRightly([st EXCEPT !.odd = TRUE])
  BY DEF TakenRightly, States
<1>6. assigned => put.words = <<>> /\ put.open /\ IsAssignment(put.word)
  <2>1. FirstBare(st) => st.words = <<>> /\ st.open
    BY DEF FirstBare
  <2>2. put.words = st.words /\ put.open /\ (st.open => put.word = Append(st.word, c))
    <3> HIDE DEF put
    <3>1. /\ put.words = st.words /\ put.open
          /\ put.word = Append(IF st.open THEN st.word ELSE <<>>, c)
      BY PutAt DEF put
    <3> QED BY <3>1
  <2> HIDE DEF put
  <2> QED BY <2>1, <2>2
<1> HIDE DEF put, begun, assigned
<1>7. TakenRightly([put EXCEPT !.mode = "plain"])
  BY <1>1, <1>2 DEF TakenRightly, States
<1>8. /\ TakenRightly([begun EXCEPT !.mode = "quote", !.bare = FALSE])
      /\ TakenRightly([begun EXCEPT !.mode = "escape", !.bare = FALSE])
  <2>1. TakenRightly(begun)
    BY <1>3 DEF TakenRightly
  <2> QED BY <1>1, <2>1 DEF TakenRightly, States
<1>9. TakenRightly([put EXCEPT !.taken = st.taken \/ assigned])
  <2> DEFINE taken == st.taken \/ assigned
             new == [put EXCEPT !.taken = taken]
  <2>1. put.taken = st.taken
    BY PutAt DEF put
  <2>2. /\ new.taken = taken /\ new.words = put.words
        /\ new.open = put.open /\ new.word = put.word
    <3> HIDE DEF taken
    <3> QED BY <1>1 DEF States
  <2> HIDE DEF new
  <2>3. CASE assigned
    BY <1>6, <2>2, <2>3 DEF TakenRightly
  <2>4. CASE ~assigned
    <3>1. new.taken <=> put.taken
      BY <2>1, <2>2, <2>4
    <3> HIDE DEF taken
    <3>2. TakenRightly(new)
      BY <1>2, <2>2, <3>1 DEF TakenRightly
    <3> QED BY <3>2 DEF new, taken
  <2> QED BY <2>3, <2>4 DEF new
<1>10. Read(st, c) \in {[st EXCEPT !.mode = "plain"], put, Ended(st),
                       [put EXCEPT !.mode = "plain"],
                       [begun EXCEPT !.mode = "quote", !.bare = FALSE],
                       [begun EXCEPT !.mode = "escape", !.bare = FALSE],
                       [st EXCEPT !.odd = TRUE],
                       [put EXCEPT !.taken = st.taken \/ assigned]}
  BY ReadCases, Zenon DEF put, begun, assigned
<1> QED BY <1>2, <1>4, <1>5, <1>7, <1>8, <1>9, <1>10

\* So the shell is still right about it after any line.
LEMMA AfterRightly ==
    ASSUME NEW C, NEW st \in States(C), TakenRightly(st), NEW line \in Seq(C)
    PROVE  TakenRightly(After(st, line))
<1> DEFINE x(k) == SubSeq(line, 1, k)
           Good(k) == TakenRightly(After(st, x(k)))
           G == {k \in 0..Len(line) : Good(k)}
<1>1. x(0) = <<>> /\ x(Len(line)) = line /\ Len(line) \in Nat
  BY Growing
<1>2. Good(0)
  <2>1. After(st, <<>>) = st
    BY AfterNothing
  <2> HIDE DEF x
  <2> QED BY <1>1, <2>1
<1>3. ASSUME NEW k \in 0..Len(line), k < Len(line), Good(k) PROVE Good(k + 1)
  <2> DEFINE c == line[k + 1]
  <2>1. c \in C /\ x(k) \in Seq(C) /\ x(k + 1) = Append(x(k), c)
    BY <1>3, Growing
  <2> HIDE DEF x, c
  <2>2. After(st, x(k + 1)) = Read(After(st, x(k)), c)
    <3> DEFINE y == x(k)
    <3>1. y \in Seq(C) /\ c \in C /\ x(k + 1) = Append(y, c)
      BY <2>1
    <3> HIDE DEF y
    <3>2. After(st, Append(y, c)) = Read(After(st, y), c)
      BY <3>1, AfterAppend
    <3> QED BY <3>1, <3>2 DEF y
  <2>3. After(st, x(k)) \in States(C)
    BY <2>1, AfterTyped
  <2> QED BY <1>3, <2>1, <2>2, <2>3, ReadRightly
<1>4. Good(Len(line))
  <2> HIDE DEF Good
  <2>1. 0 \in G /\ \A k \in 0..Len(line) : k < Len(line) /\ k \in G => k + 1 \in G
    BY <1>1, <1>2, <1>3
  <2>2. \A k \in 0..Len(line) : k \in G
    <3> HIDE DEF G
    <3> QED BY <1>1, <2>1, UpTo
  <2> QED BY <1>1, <2>2
<1> HIDE DEF x
<1> QED BY <1>1, <1>4

LEMMA AppendToTail ==
    ASSUME NEW C, NEW s \in Seq(C), NEW p \in Seq(C), NEW c \in C
    PROVE  s \o p \in Seq(C) /\ s \o Append(p, c) = Append(s \o p, c)
OBVIOUS

\* The shell reads two lines in a row as the one made of both.
LEMMA AfterConcat ==
    ASSUME NEW C, NEW st \in States(C), NEW s \in Seq(C), NEW t \in Seq(C)
    PROVE  After(st, s \o t) = After(After(st, s), t)
<1> DEFINE mid == After(st, s)
           part(k) == SubSeq(t, 1, k)
           Good(k) == After(st, s \o part(k)) = After(mid, part(k))
           G == {k \in 0..Len(t) : Good(k)}
<1>1. mid \in States(C)
  BY AfterTyped
<1>2. part(0) = <<>> /\ part(Len(t)) = t /\ Len(t) \in Nat
  BY Growing
<1> HIDE DEF mid
<1>3. 0 \in G
  <2>1. After(mid, <<>>) = mid
    BY <1>1, AfterNothing
  <2>2. s \o <<>> = s
    OBVIOUS
  <2>3. Good(0)
    <3> HIDE DEF part
    <3> QED BY <1>2, <2>1, <2>2 DEF mid
  <2> HIDE DEF Good
  <2> QED BY <1>2, <2>3
<1>4. ASSUME NEW k \in 0..Len(t), k < Len(t), k \in G PROVE k + 1 \in G
  <2> DEFINE c == t[k + 1]
  <2>1. /\ k + 1 \in 0..Len(t) /\ c \in C /\ part(k) \in Seq(C)
        /\ part(k + 1) = Append(part(k), c)
    BY <1>4, Growing
  <2>2. Good(k)
    BY <1>4
  <2> HIDE DEF part, c
  <2>3. s \o part(k + 1) = Append(s \o part(k), c) /\ s \o part(k) \in Seq(C)
    <3> DEFINE p == part(k)
    <3>1. p \in Seq(C) /\ part(k + 1) = Append(p, c)
      BY <2>1
    <3> HIDE DEF p
    <3>2. s \o p \in Seq(C) /\ s \o Append(p, c) = Append(s \o p, c)
      BY <2>1, <3>1, AppendToTail
    <3> QED BY <3>1, <3>2 DEF p
  <2>4. After(st, Append(s \o part(k), c)) = Read(After(st, s \o part(k)), c)
    <3> DEFINE u == s \o part(k)
    <3>1. u \in Seq(C)
      BY <2>3
    <3> HIDE DEF u
    <3>2. After(st, Append(u, c)) = Read(After(st, u), c)
      BY <2>1, <3>1, AfterAppend
    <3> QED BY <3>2 DEF u
  <2>5. After(mid, Append(part(k), c)) = Read(After(mid, part(k)), c)
    BY <1>1, <2>1, AfterAppend
  <2>6. Good(k + 1)
    BY <2>1, <2>2, <2>3, <2>4, <2>5, Zenon
  <2> QED BY <2>1, <2>6
<1>5. Good(Len(t))
  <2>1. \A k \in 0..Len(t) : k \in G
    <3> HIDE DEF G
    <3> QED BY <1>2, <1>3, <1>4, UpTo
  <2> QED BY <1>2, <2>1
<1> HIDE DEF part
<1> QED BY <1>2, <1>5 DEF mid

-----------------------------------------------------------------------------
(* Concatenation.                                                           *)

Concatenating(seqs, first) ==
    first = [n \in 0..Len(seqs) |->
                IF n = 0 THEN <<>> ELSE first[n - 1] \o seqs[n]]

\* Concat is the last value of its recursive function, which exists.
LEMMA ConcatRuns ==
    ASSUME NEW C, NEW seqs \in Seq(Seq(C))
    PROVE  \E first : Concatenating(seqs, first) /\ Concat(seqs) = first[Len(seqs)]
<1> DEFINE step == [p \in (0..Len(seqs)) \X Seq(C) |->
                       IF p[1] = 0 THEN p[2] ELSE p[2] \o seqs[p[1]]]
<1>1. step \in [(0..Len(seqs)) \X Seq(C) -> Seq(C)]
  <2> SUFFICES ASSUME NEW n \in 0..Len(seqs), NEW s \in Seq(C)
               PROVE  (IF n = 0 THEN s ELSE s \o seqs[n]) \in Seq(C)
    OBVIOUS
  <2>1. n # 0 => seqs[n] \in Seq(C)
    OBVIOUS
  <2> DEFINE t == seqs[n]
  <2>2. n # 0 => t \in Seq(C)
    BY <2>1
  <2> HIDE DEF t
  <2>3. (IF n = 0 THEN s ELSE s \o t) \in Seq(C)
    BY <2>2
  <2> QED BY <2>3 DEF t
<1>2. PICK run : IsRun(run, Len(seqs), Seq(C), <<>>, step)
  <2>1. Len(seqs) \in Nat /\ <<>> \in Seq(C)
    OBVIOUS
  <2> HIDE DEF step
  <2> QED BY <1>1, <2>1, RunExists
<1>3. Concatenating(seqs, run)
  <2>1. ASSUME NEW n \in 0..Len(seqs)
        PROVE  run[n] = IF n = 0 THEN <<>> ELSE run[n - 1] \o seqs[n]
    <3>1. CASE n = 0
      BY <1>2, <3>1 DEF IsRun
    <3>2. CASE n # 0
      <4> HIDE DEF step
      <4>1. n \in 1..Len(seqs) /\ n - 1 \in 0..Len(seqs)
        BY <3>2
      <4>2. run[n - 1] \in Seq(C)
        <5> DEFINE D == Seq(C)
        <5>1. run \in [0..Len(seqs) -> D]
          BY <1>2, Zenon DEF IsRun
        <5> HIDE DEF D
        <5>2. run[n - 1] \in D
          BY <4>1, <5>1
        <5> QED BY <5>2 DEF D
      <4>3. step[<<n, run[n - 1]>>] = run[n - 1] \o seqs[n]
        BY <3>2, <4>1, <4>2 DEF step
      <4>4. run[n] = step[<<n, run[n - 1]>>]
        BY <1>2, <4>1, Zenon DEF IsRun
      <4> QED BY <3>2, <4>3, <4>4
    <3> QED BY <3>1, <3>2
  <2> HIDE DEF step
  <2> QED BY <1>2, <2>1 DEF IsRun, Concatenating
<1> DEFINE first == CHOOSE f : Concatenating(seqs, f)
<1>4. Concatenating(seqs, first)
  BY <1>3
<1>5. Concat(seqs) = first[Len(seqs)]
  BY Zenon DEF Concat, Concatenating
<1> QED BY <1>4, <1>5, Zenon

LEMMA ConcatNothing ==
    Concat(<<>>) = <<>>
<1>1. <<>> \in Seq(Seq({})) /\ Len(<<>>) = 0 /\ 0 \in 0..0
  OBVIOUS
<1>2. PICK a : Concatenating(<<>>, a) /\ Concat(<<>>) = a[0]
  BY <1>1, ConcatRuns
<1> QED BY <1>1, <1>2 DEF Concatenating

LEMMA ConcatAppend ==
    ASSUME NEW C, NEW seqs \in Seq(Seq(C)), NEW s \in Seq(C)
    PROVE  Concat(Append(seqs, s)) = Concat(seqs) \o s
<1> DEFINE more == Append(seqs, s)
           m == Len(seqs)
<1>1. /\ more \in Seq(Seq(C)) /\ Len(more) = m + 1 /\ more[m + 1] = s /\ m \in Nat
      /\ \A n \in 1..m : more[n] = seqs[n]
  OBVIOUS
<1>2. PICK a : Concatenating(seqs, a) /\ Concat(seqs) = a[m]
  BY ConcatRuns
<1> HIDE DEF more
<1>3. PICK b : Concatenating(more, b) /\ Concat(more) = b[Len(more)]
  BY <1>1, ConcatRuns
<1> HIDE DEF m
<1> DEFINE G == {n \in 0..m : a[n] = b[n]}
<1>4. /\ a = [n \in 0..m |-> IF n = 0 THEN <<>> ELSE a[n - 1] \o seqs[n]]
      /\ b = [n \in 0..(m + 1) |-> IF n = 0 THEN <<>> ELSE b[n - 1] \o more[n]]
  BY <1>1, <1>2, <1>3 DEF Concatenating, m
<1>5. 0 \in G
  BY <1>1, <1>4
<1>6. ASSUME NEW n \in 0..m, n < m, n \in G PROVE n + 1 \in G
  <2>1. n + 1 \in 1..m /\ n + 1 \in 0..m /\ n + 1 \in 0..(m + 1) /\ n + 1 # 0 /\ (n + 1) - 1 = n
    BY <1>1, <1>6
  <2>2. a[n + 1] = a[n] \o seqs[n + 1] /\ b[n + 1] = b[n] \o more[n + 1]
    BY <1>4, <2>1
  <2> QED BY <1>1, <1>6, <2>1, <2>2
<1>7. a[m] = b[m]
  <2>1. \A n \in 0..m : n \in G
    <3> HIDE DEF G
    <3> QED BY <1>1, <1>5, <1>6, UpTo
  <2> QED BY <1>1, <2>1
<1>8. b[m + 1] = b[m] \o s
  <2>1. m + 1 \in 0..(m + 1) /\ m + 1 # 0 /\ (m + 1) - 1 = m
    BY <1>1
  <2> QED BY <1>1, <1>4, <2>1
<1> QED BY <1>1, <1>2, <1>3, <1>7, <1>8 DEF more

\* The concatenation of sequences over C is one.
LEMMA ConcatTyped ==
    ASSUME NEW C, NEW seqs \in Seq(Seq(C))
    PROVE  Concat(seqs) \in Seq(C)
<1> DEFINE part(k) == SubSeq(seqs, 1, k)
           Good(k) == Concat(part(k)) \in Seq(C)
           G == {k \in 0..Len(seqs) : Good(k)}
<1>1. part(0) = <<>> /\ part(Len(seqs)) = seqs /\ Len(seqs) \in Nat
  BY Growing
<1>2. 0 \in G
  <2>1. Concat(part(0)) = <<>>
    BY <1>1, ConcatNothing, Zenon
  <2>2. <<>> \in Seq(C)
    OBVIOUS
  <2>3. Good(0)
    BY <2>1, <2>2, Zenon
  <2> HIDE DEF Good
  <2> QED BY <1>1, <2>3
<1>3. ASSUME NEW k \in 0..Len(seqs), k < Len(seqs), k \in G PROVE k + 1 \in G
  <2> DEFINE s == seqs[k + 1]
  <2>1. /\ k + 1 \in 0..Len(seqs) /\ s \in Seq(C) /\ part(k) \in Seq(Seq(C))
        /\ part(k + 1) = Append(part(k), s)
    BY <1>3, Growing
  <2>2. Good(k)
    BY <1>3
  <2> HIDE DEF part, s
  <2>3. Concat(part(k + 1)) = Concat(part(k)) \o s
    BY <2>1, ConcatAppend
  <2> DEFINE p == Concat(part(k))
  <2>4. p \o s \in Seq(C)
    <3>1. p \in Seq(C)
      BY <2>2
    <3> HIDE DEF p
    <3> QED BY <2>1, <3>1
  <2>5. Good(k + 1)
    BY <2>3, <2>4, Zenon
  <2> HIDE DEF Good
  <2> QED BY <2>1, <2>5
<1>4. Good(Len(seqs))
  <2>1. \A k \in 0..Len(seqs) : k \in G
    <3> HIDE DEF G
    <3> QED BY <1>1, <1>2, <1>3, UpTo
  <2> QED BY <1>1, <2>1
<1> HIDE DEF part
<1> QED BY <1>1, <1>4

-----------------------------------------------------------------------------
(* The words of a line.                                                     *)

\* The shell is at this point of a line in which nothing was odd so far.
IsAt(C, st, mode, open, word, words) ==
    /\ st \in States(C) /\ ~st.odd
    /\ st.mode = mode /\ (st.open <=> open) /\ st.word = word /\ st.words = words

\* In quotes every character but a quote is itself.
LEMMA ReadInQuotes ==
    ASSUME NEW C, NEW st, NEW w, NEW ws, IsAt(C, st, "quote", TRUE, w, ws), NEW c \in C
    PROVE  IF c = Quote THEN IsAt(C, Read(st, c), "plain", TRUE, w, ws)
           ELSE IsAt(C, Read(st, c), "quote", TRUE, Append(w, c), ws)
<1>1. CASE c = Quote
  <2>1. Read(st, c) = [st EXCEPT !.mode = "plain"]
    BY <1>1 DEF Read, IsAt
  <2> QED BY <1>1, <2>1 DEF IsAt, States
<1>2. CASE c # Quote
  <2>1. Read(st, c) = Put(st, c)
    BY <1>2 DEF Read, IsAt
  <2> QED BY <1>2, <2>1, PutAt DEF IsAt
<1> QED BY <1>1, <1>2

\* Behind a backslash every character is itself.
LEMMA ReadEscaped ==
    ASSUME NEW C, NEW st, NEW w, NEW ws, IsAt(C, st, "escape", TRUE, w, ws), NEW c \in C
    PROVE  IsAt(C, Read(st, c), "plain", TRUE, Append(w, c), ws)
<1> DEFINE p == Put(st, c)
<1>1. Read(st, c) = [p EXCEPT !.mode = "plain"]
  BY DEF Read, IsAt
<1>2. IsAt(C, p, "escape", TRUE, Append(w, c), ws)
  BY PutAt DEF IsAt
<1> HIDE DEF p
<1> QED BY <1>1, <1>2 DEF IsAt, States

\* Outside quotes a blank ends a word, a quote opens quotes, a backslash escapes,
\* and a character that is not unsafe is itself.
LEMMA ReadPlain ==
    ASSUME NEW C, NEW st, NEW open \in BOOLEAN, NEW w, NEW ws,
           IsAt(C, st, "plain", open, w, ws), NEW c \in C
    PROVE  /\ c = Blank /\ open => IsAt(C, Read(st, c), "plain", FALSE, w, Append(ws, w))
           /\ c = Quote => IsAt(C, Read(st, c), "quote", TRUE, IF open THEN w ELSE <<>>, ws)
           /\ c = Backslash => IsAt(C, Read(st, c), "escape", TRUE, IF open THEN w ELSE <<>>, ws)
           /\ c \notin Unsafe =>
                 IsAt(C, Read(st, c), "plain", TRUE, Append(IF open THEN w ELSE <<>>, c), ws)
<1> DEFINE b == Begun(st)
<1>1. IsAt(C, b, "plain", TRUE, IF open THEN w ELSE <<>>, ws)
  BY BegunAt DEF IsAt
<1>2. st.mode = "plain" /\ st \in States(C) /\ (st.open <=> open)
      /\ st.word = w /\ st.words = ws
  BY DEF IsAt
<1> DEFINE reserved == FirstBare(st) /\ IsReserved(st.word)
           assigned == FirstBare(st) /\ IsAssignment(Append(st.word, c))
<1>3. /\ c = Blank => Read(st, c) = Ended(st)
      /\ c = Quote => Read(st, c) = [b EXCEPT !.mode = "quote", !.bare = FALSE]
      /\ c = Backslash => Read(st, c) = [b EXCEPT !.mode = "escape", !.bare = FALSE]
      /\ c \notin Unsafe =>
            Read(st, c) \in {Put(st, c), [Put(st, c) EXCEPT !.taken = st.taken \/ assigned]}
  BY <1>2, ReadCases, Zenon
<1>7. ASSUME c = Blank, open
      PROVE  IsAt(C, Read(st, c), "plain", FALSE, w, Append(ws, w))
  <2> DEFINE more == Append(st.words, st.word)
  <2>1. Read(st, c) = [st EXCEPT !.open = FALSE, !.words = more,
                                 !.taken = st.taken \/ reserved]
    BY <1>2, <1>3, <1>7 DEF Ended
  <2>2. more \in Seq(Seq(C)) /\ more = Append(ws, w)
    BY <1>2 DEF States
  <2>3. (st.taken \/ reserved) \in BOOLEAN
    OBVIOUS
  <2> HIDE DEF more, reserved
  <2> QED BY <2>1, <2>2, <2>3 DEF IsAt, States
<1> HIDE DEF b
<1>8. /\ IsAt(C, [b EXCEPT !.mode = "quote", !.bare = FALSE], "quote", TRUE,
              IF open THEN w ELSE <<>>, ws)
      /\ IsAt(C, [b EXCEPT !.mode = "escape", !.bare = FALSE], "escape", TRUE,
              IF open THEN w ELSE <<>>, ws)
  BY <1>1 DEF IsAt, States
<1>9. IsAt(C, Put(st, c), "plain", TRUE, Append(IF open THEN w ELSE <<>>, c), ws)
  BY PutAt DEF IsAt
<1>10. IsAt(C, [Put(st, c) EXCEPT !.taken = st.taken \/ assigned], "plain", TRUE,
            Append(IF open THEN w ELSE <<>>, c), ws)
  <2> DEFINE put == Put(st, c)
             taken == st.taken \/ assigned
  <2>1. taken \in BOOLEAN
    OBVIOUS
  <2>2. IsAt(C, put, "plain", TRUE, Append(IF open THEN w ELSE <<>>, c), ws)
    BY <1>9
  <2> HIDE DEF put, taken
  <2>3. IsAt(C, [put EXCEPT !.taken = taken], "plain", TRUE,
             Append(IF open THEN w ELSE <<>>, c), ws)
    BY <2>1, <2>2 DEF IsAt, States
  <2> QED BY <2>3 DEF put, taken
<1> HIDE DEF assigned
<1> QED BY <1>3, <1>7, <1>8, <1>9, <1>10

LEMMA AfterOne ==
    ASSUME NEW C, NEW st \in States(C), NEW c \in C
    PROVE  After(st, <<c>>) = Read(st, c)
<1>1. After(st, <<>>) = st
  BY AfterNothing
<1>2. <<>> \in Seq(C) /\ Append(<<>>, c) = <<c>>
  OBVIOUS
<1>3. After(st, Append(<<>>, c)) = Read(After(st, <<>>), c)
  BY <1>2, AfterAppend
<1> QED BY <1>1, <1>2, <1>3

\* What the code writes for a quote inside quotes: it ends the word's quotes,
\* puts an escaped quote and begins quotes anew.
Escape == <<Quote, Backslash, Quote, Quote>>

\* A quote written that way is a quote in the word.
LEMMA AfterEscape ==
    ASSUME NEW C, {Quote, Backslash} \subseteq C, NEW st, NEW w, NEW ws,
           IsAt(C, st, "quote", TRUE, w, ws)
    PROVE  IsAt(C, After(st, Escape), "quote", TRUE, Append(w, Quote), ws)
<1> DEFINE a == <<Quote>>  b == <<Quote, Backslash>>  d == <<Quote, Backslash, Quote>>
<1>1. /\ a \in Seq(C) /\ b \in Seq(C) /\ d \in Seq(C) /\ Escape \in Seq(C)
      /\ b = Append(a, Backslash) /\ d = Append(b, Quote) /\ Escape = Append(d, Quote)
  BY DEF Escape
<1>2. st \in States(C) /\ Quote \in C /\ Backslash \in C
  BY DEF IsAt
<1>3. IsAt(C, After(st, a), "plain", TRUE, w, ws)
  <2>1. After(st, a) = Read(st, Quote)
    BY <1>2, AfterOne
  <2> QED BY <1>2, <2>1, ReadInQuotes
<1> HIDE DEF a, b, d
<1>4. IsAt(C, After(st, b), "escape", TRUE, w, ws)
  <2>1. After(st, b) = Read(After(st, a), Backslash)
    BY <1>1, <1>2, AfterAppend
  <2> QED BY <1>2, <1>3, <2>1, ReadPlain
<1>5. IsAt(C, After(st, d), "plain", TRUE, Append(w, Quote), ws)
  <2>1. After(st, d) = Read(After(st, b), Quote)
    BY <1>1, <1>2, AfterAppend
  <2> QED BY <1>2, <1>4, <2>1, ReadEscaped
<1>6. After(st, Escape) = Read(After(st, d), Quote)
  <2>1. d \in Seq(C) /\ Escape = Append(d, Quote)
    BY <1>1
  <2>2. After(st, Append(d, Quote)) = Read(After(st, d), Quote)
    BY <1>2, <2>1, AfterAppend, Zenon
  <2> QED BY <2>1, <2>2, Zenon
<1> QED BY <1>2, <1>5, <1>6, ReadPlain

Pieces(s) == [j \in DOMAIN s |-> IF s[j] = Quote THEN Escape ELSE <<s[j]>>]

LEMMA PiecesTyped ==
    ASSUME NEW C, {Quote, Backslash} \subseteq C, NEW s \in Seq(C)
    PROVE  /\ Pieces(s) \in Seq(Seq(C)) /\ Len(Pieces(s)) = Len(s)
           /\ \A j \in 1..Len(s) : Pieces(s)[j] = IF s[j] = Quote THEN Escape ELSE <<s[j]>>
<1> DEFINE p == Pieces(s)  D == Seq(C)
<1>1. DOMAIN s = 1..Len(s) /\ Len(s) \in Nat /\ \A j \in 1..Len(s) : s[j] \in C
  OBVIOUS
<1>2. Escape \in Seq(C)
  BY DEF Escape
<1>3. \A j \in 1..Len(s) : (IF s[j] = Quote THEN Escape ELSE <<s[j]>>) \in D
  BY <1>1, <1>2
<1>4. p = [j \in 1..Len(s) |-> IF s[j] = Quote THEN Escape ELSE <<s[j]>>]
  BY <1>1 DEF Pieces
<1> HIDE DEF p, D
<1>5. p \in Seq(D) /\ Len(p) = Len(s)
  BY <1>1, <1>3, <1>4
<1> QED BY <1>1, <1>4, <1>5 DEF p, D

\* What is written between the quotes is read as the argument.
LEMMA AfterPieces ==
    ASSUME NEW C, {Quote, Backslash} \subseteq C, NEW s \in Seq(C),
           NEW st, NEW ws, IsAt(C, st, "quote", TRUE, <<>>, ws)
    PROVE  IsAt(C, After(st, Concat(Pieces(s))), "quote", TRUE, s, ws)
<1> DEFINE p == Pieces(s)
           Good(k) == IsAt(C, After(st, Concat(SubSeq(p, 1, k))),
                           "quote", TRUE, SubSeq(s, 1, k), ws)
           G == {k \in 0..Len(s) : Good(k)}
<1>1. /\ p \in Seq(Seq(C)) /\ Len(p) = Len(s) /\ Len(s) \in Nat
      /\ \A j \in 1..Len(s) : p[j] = IF s[j] = Quote THEN Escape ELSE <<s[j]>>
  BY PiecesTyped
<1> HIDE DEF p
<1>2. /\ SubSeq(s, 1, 0) = <<>> /\ SubSeq(s, 1, Len(s)) = s
      /\ SubSeq(p, 1, 0) = <<>> /\ SubSeq(p, 1, Len(s)) = p
  BY <1>1, Growing
<1>3. st \in States(C)
  BY DEF IsAt
<1>4. Good(0)
  <2>1. After(st, <<>>) = st
    BY <1>3, AfterNothing
  <2> QED BY <1>2, <2>1, ConcatNothing, Zenon
<1>5. ASSUME NEW k \in 0..Len(s), k < Len(s), Good(k) PROVE Good(k + 1)
  <2> DEFINE x == SubSeq(s, 1, k)  y == SubSeq(p, 1, k)  c == s[k + 1]  q == p[k + 1]
             mid == After(st, Concat(y))
  <2>1. /\ k + 1 \in 1..Len(s) /\ c \in C /\ x \in Seq(C)
        /\ SubSeq(s, 1, k + 1) = Append(x, c)
    BY <1>5, Growing
  <2>2. q \in Seq(C) /\ y \in Seq(Seq(C)) /\ SubSeq(p, 1, k + 1) = Append(y, q)
    BY <1>1, <1>5, Growing
  <2>3. q = IF c = Quote THEN Escape ELSE <<c>>
    BY <1>1, <2>1
  <2>4. IsAt(C, mid, "quote", TRUE, x, ws)
    BY <1>5
  <2> HIDE DEF x, y, c, q, mid
  <2>5. Concat(y) \in Seq(C) /\ Concat(Append(y, q)) = Concat(y) \o q
    BY <2>2, ConcatTyped, ConcatAppend
  <2>6. After(st, Concat(y) \o q) = After(mid, q)
    BY <1>3, <2>2, <2>5, AfterConcat DEF mid
  <2>7. IsAt(C, After(mid, q), "quote", TRUE, Append(x, c), ws)
    <3>1. CASE c = Quote
      BY <2>3, <2>4, <3>1, AfterEscape
    <3>2. CASE c # Quote
      <4>1. After(mid, <<c>>) = Read(mid, c)
        BY <2>1, <2>4, AfterOne DEF IsAt
      <4> QED BY <2>1, <2>3, <2>4, <3>2, <4>1, ReadInQuotes
    <3> QED BY <3>1, <3>2
  <2> QED BY <2>1, <2>2, <2>5, <2>6, <2>7, Zenon
<1>6. Good(Len(s))
  <2> HIDE DEF Good
  <2>1. 0 \in G /\ \A k \in 0..Len(s) : k < Len(s) /\ k \in G => k + 1 \in G
    BY <1>1, <1>4, <1>5
  <2>2. \A k \in 0..Len(s) : k \in G
    <3> HIDE DEF G
    <3> QED BY <1>1, <2>1, UpTo
  <2> QED BY <1>1, <2>2
<1> QED BY <1>2, <1>6, Zenon DEF p

\* An argument without unsafe characters is read as it is.
LEMMA AfterPlain ==
    ASSUME NEW C, NEW s \in Seq(C), s # <<>>, Range(s) \cap Unsafe = {},
           NEW st, NEW w, NEW ws, IsAt(C, st, "plain", FALSE, w, ws)
    PROVE  IsAt(C, After(st, s), "plain", TRUE, s, ws)
<1> DEFINE Good(k) == IF k = 0 THEN After(st, SubSeq(s, 1, k)) = st
                      ELSE IsAt(C, After(st, SubSeq(s, 1, k)), "plain", TRUE, SubSeq(s, 1, k), ws)
           G == {k \in 0..Len(s) : Good(k)}
<1>1. Len(s) \in Nat /\ Len(s) # 0 /\ \A j \in 1..Len(s) : s[j] \notin Unsafe
  BY DEF Range
<1>2. SubSeq(s, 1, 0) = <<>> /\ SubSeq(s, 1, Len(s)) = s
  BY Growing
<1>3. st \in States(C)
  BY DEF IsAt
<1>4. Good(0)
  <2>1. After(st, <<>>) = st
    BY <1>3, AfterNothing
  <2> QED BY <1>2, <2>1, Zenon
<1>5. ASSUME NEW k \in 0..Len(s), k < Len(s), Good(k) PROVE Good(k + 1)
  <2> DEFINE x == SubSeq(s, 1, k)  c == s[k + 1]  mid == After(st, x)
  <2>1. /\ k + 1 \in 1..Len(s) /\ k + 1 # 0 /\ c \in C /\ x \in Seq(C)
        /\ SubSeq(s, 1, k + 1) = Append(x, c)
    BY <1>5, Growing
  <2>2. c \notin Unsafe
    BY <1>1, <2>1
  <2>3. IF k = 0 THEN mid = st ELSE IsAt(C, mid, "plain", TRUE, x, ws)
    BY <1>5
  <2>4. k = 0 => x = <<>>
    BY <1>2
  <2> HIDE DEF x, c
  <2>5. After(st, Append(x, c)) = Read(mid, c)
    BY <1>3, <2>1, AfterAppend
  <2> HIDE DEF mid
  <2>6. IsAt(C, Read(mid, c), "plain", TRUE, Append(x, c), ws)
    <3>1. CASE k = 0
      <4>1. IsAt(C, Read(st, c), "plain", TRUE, Append(<<>>, c), ws)
        BY <2>1, <2>2, ReadPlain
      <4> QED BY <2>3, <2>4, <3>1, <4>1
    <3>2. CASE k # 0
      BY <2>1, <2>2, <2>3, <3>2, ReadPlain
    <3> QED BY <3>1, <3>2
  <2> QED BY <2>1, <2>5, <2>6, Zenon
<1>6. Good(Len(s))
  <2> HIDE DEF Good
  <2>1. 0 \in G /\ \A k \in 0..Len(s) : k < Len(s) /\ k \in G => k + 1 \in G
    BY <1>1, <1>4, <1>5
  <2>2. \A k \in 0..Len(s) : k \in G
    <3> HIDE DEF G
    <3> QED BY <1>1, <2>1, UpTo
  <2> QED BY <1>1, <2>2
<1> QED BY <1>1, <1>2, <1>6, Zenon

\* The three ways in which an argument is written.
LEMMA QuotedTyped ==
    ASSUME NEW C, {Blank, Quote, Backslash} \subseteq C, NEW s \in Seq(C)
    PROVE  /\ ShellQuote(s) = IF s = <<>> THEN <<Quote, Quote>>
                              ELSE IF Range(s) \cap Unsafe = {} THEN s
                              ELSE <<Quote>> \o Concat(Pieces(s)) \o <<Quote>>
           /\ Concat(Pieces(s)) \in Seq(C) /\ ShellQuote(s) \in Seq(C)
<1> DEFINE q == Concat(Pieces(s))
<1>1. ShellQuote(s) = IF s = <<>> THEN <<Quote, Quote>>
                      ELSE IF Range(s) \cap Unsafe = {} THEN s
                      ELSE <<Quote>> \o q \o <<Quote>>
  BY Zenon DEF ShellQuote, Quoted, Pieces, Escape
<1>2. q \in Seq(C)
  BY PiecesTyped, ConcatTyped
<1> HIDE DEF q
<1>3. <<Quote, Quote>> \in Seq(C) /\ <<Quote>> \o q \o <<Quote>> \in Seq(C)
  BY <1>2
<1> QED BY <1>1, <1>2, <1>3 DEF q

\* An argument as shellQuote writes it is read as one word, itself.
LEMMA AfterQuoted ==
    ASSUME NEW C, {Blank, Quote, Backslash} \subseteq C, NEW s \in Seq(C),
           NEW st, NEW w, NEW ws, IsAt(C, st, "plain", FALSE, w, ws)
    PROVE  IsAt(C, After(st, ShellQuote(s)), "plain", TRUE, s, ws)
<1> DEFINE a == <<Quote>>
           in == After(st, a)
<1>1. st \in States(C) /\ Quote \in C /\ a \in Seq(C)
  BY DEF IsAt
<1>2. IsAt(C, in, "quote", TRUE, <<>>, ws)
  <2>1. in = Read(st, Quote)
    BY <1>1, AfterOne
  <2> QED BY <1>1, <2>1, ReadPlain
<1>3. in \in States(C)
  BY <1>2 DEF IsAt
<1>4. CASE s = <<>>
  <2>1. ShellQuote(s) = Append(a, Quote)
    <3>1. ShellQuote(s) = <<Quote, Quote>>
      BY <1>4, Zenon DEF ShellQuote
    <3> QED BY <3>1
  <2> HIDE DEF a
  <2>2. After(st, Append(a, Quote)) = Read(in, Quote)
    BY <1>1, AfterAppend, Zenon
  <2> HIDE DEF in
  <2>3. IsAt(C, Read(in, Quote), "plain", TRUE, <<>>, ws)
    BY <1>1, <1>2, ReadInQuotes
  <2> QED BY <1>4, <2>1, <2>2, <2>3, Zenon
<1>5. CASE s # <<>> /\ Range(s) \cap Unsafe = {}
  BY <1>5, QuotedTyped, AfterPlain
<1>6. CASE s # <<>> /\ Range(s) \cap Unsafe # {}
  <2> DEFINE q == Concat(Pieces(s))
             mid == After(in, q)
  <2>1. ShellQuote(s) = (a \o q) \o a /\ q \in Seq(C)
    BY <1>6, QuotedTyped
  <2>2. IsAt(C, mid, "quote", TRUE, s, ws)
    <3> HIDE DEF in, a
    <3> QED BY <1>2, AfterPieces
  <2>3. a \o q \in Seq(C)
    <3> HIDE DEF q, a
    <3> QED BY <1>1, <2>1
  <2> HIDE DEF q, a
  <2>4. After(st, a \o q) = mid
    BY <1>1, <2>1, AfterConcat
  <2>5. After(st, (a \o q) \o a) = After(mid, a)
    <3> DEFINE u == a \o q
    <3>1. u \in Seq(C) /\ After(st, u) = mid
      BY <2>3, <2>4
    <3> HIDE DEF u
    <3>2. After(st, u \o a) = After(After(st, u), a)
      BY <1>1, <3>1, AfterConcat
    <3> QED BY <3>1, <3>2 DEF u
  <2>6. After(mid, a) = Read(mid, Quote)
    BY <1>1, <2>2, AfterOne DEF IsAt, a
  <2>7. IsAt(C, Read(mid, Quote), "plain", TRUE, s, ws)
    <3> HIDE DEF mid
    <3> QED BY <1>1, <2>2, ReadInQuotes
  <2> QED BY <2>1, <2>5, <2>6, <2>7, Zenon
<1> QED BY <1>4, <1>5, <1>6

\* The parts of a command line, each after the first behind a blank.
Parts(strs) ==
    [j \in DOMAIN strs |->
        LET part == ShellQuote(strs[j]) IN IF j = 1 THEN part ELSE <<Blank>> \o part]

LEMMA PartsTyped ==
    ASSUME NEW C, {Blank, Quote, Backslash} \subseteq C, NEW strs \in Seq(Seq(C))
    PROVE  /\ Parts(strs) \in Seq(Seq(C)) /\ Len(Parts(strs)) = Len(strs)
           /\ \A j \in 1..Len(strs) :
                 Parts(strs)[j] = IF j = 1 THEN ShellQuote(strs[j])
                                  ELSE <<Blank>> \o ShellQuote(strs[j])
<1> DEFINE p == Parts(strs)  D == Seq(C)
           part(j) == IF j = 1 THEN ShellQuote(strs[j])
                      ELSE <<Blank>> \o ShellQuote(strs[j])
<1>1. DOMAIN strs = 1..Len(strs) /\ Len(strs) \in Nat
  OBVIOUS
<1>2. \A j \in 1..Len(strs) : part(j) \in D
  <2> SUFFICES ASSUME NEW j \in 1..Len(strs) PROVE part(j) \in D
    OBVIOUS
  <2> DEFINE q == ShellQuote(strs[j])
  <2>1. q \in Seq(C)
    <3>1. strs[j] \in Seq(C)
      OBVIOUS
    <3> QED BY <3>1, QuotedTyped
  <2> HIDE DEF q
  <2>2. <<Blank>> \o q \in Seq(C)
    BY <2>1
  <2> QED BY <2>1, <2>2 DEF q
<1>3. p = [j \in 1..Len(strs) |-> part(j)]
  BY <1>1 DEF Parts
<1> HIDE DEF p, D, part
<1>4. p \in Seq(D) /\ Len(p) = Len(strs)
  BY <1>1, <1>2, <1>3
<1>5. \A j \in 1..Len(strs) : p[j] = part(j)
  BY <1>3
<1> QED BY <1>4, <1>5 DEF p, D, part
\* Of a whole line the shell has read every argument, the last one still open.
LEMMA LineRead ==
    ASSUME NEW C, {Blank, Quote, Backslash} \subseteq C, NEW strs \in Seq(Seq(C))
    PROVE  LET n == Len(strs)
               end == After(Between, Concat(Parts(strs)))
           IN IF n = 0 THEN end = Between
              ELSE IsAt(C, end, "plain", TRUE, strs[n], SubSeq(strs, 1, n - 1))
<1> DEFINE p == Parts(strs)
           D == Seq(C)
           end(k) == After(Between, Concat(SubSeq(p, 1, k)))
           done(k) == SubSeq(strs, 1, k)
           Good(k) == IF k = 0 THEN end(k) = Between
                      ELSE IsAt(C, end(k), "plain", TRUE, strs[k], done(k - 1))
           G == {k \in 0..Len(strs) : Good(k)}
<1>1. /\ p \in Seq(D) /\ Len(p) = Len(strs)
      /\ \A j \in 1..Len(strs) : p[j] = IF j = 1 THEN ShellQuote(strs[j])
                                       ELSE <<Blank>> \o ShellQuote(strs[j])
  BY PartsTyped, Zenon
<1> HIDE DEF p
<1>2. Len(strs) \in Nat /\ SubSeq(p, 1, 0) = <<>> /\ SubSeq(p, 1, Len(strs)) = p
  BY <1>1, Growing
<1>3. IsAt(C, Between, "plain", FALSE, <<>>, <<>>)
  BY DEF IsAt, States, Between
<1>4. Between \in States(C) /\ Blank \in C /\ <<Blank>> \in Seq(C)
  BY <1>3 DEF IsAt
<1>5. Good(0)
  <2>1. After(Between, <<>>) = Between
    BY <1>4, AfterNothing
  <2> QED BY <1>2, <2>1, ConcatNothing, Zenon
<1>6. ASSUME NEW k \in 0..Len(strs), k < Len(strs), Good(k) PROVE Good(k + 1)
  <2> DEFINE y == SubSeq(p, 1, k)  q == p[k + 1]  s == strs[k + 1]  quoted == ShellQuote(s)
             mid == end(k)
  <2>1. /\ q \in Seq(C) /\ y \in Seq(D) /\ SubSeq(p, 1, k + 1) = Append(y, q)
    <3> HIDE DEF D
    <3>1. q \in D /\ y \in Seq(D) /\ SubSeq(p, 1, k + 1) = Append(y, q)
      BY <1>1, <1>6, Growing
    <3> QED BY <3>1 DEF D
  <2>2. k + 1 \in 1..Len(strs) /\ s \in Seq(C)
    BY <1>6
  <2>3. quoted \in Seq(C)
    BY <2>2, QuotedTyped
  <2>4. q = IF k = 0 THEN quoted ELSE <<Blank>> \o quoted
    <3>1. q = IF k + 1 = 1 THEN quoted ELSE <<Blank>> \o quoted
      BY <1>1, <2>2, Zenon
    <3> HIDE DEF q, quoted
    <3>2. k + 1 = 1 <=> k = 0
      OBVIOUS
    <3> QED BY <3>1, <3>2
  <2>5. IF k = 0 THEN mid = Between ELSE IsAt(C, mid, "plain", TRUE, strs[k], done(k - 1))
    BY <1>6
  <2>6. mid \in States(C)
    BY <1>4, <2>5 DEF IsAt
  <2>7. done(k) = IF k = 0 THEN <<>> ELSE Append(done(k - 1), strs[k])
    <3>1. CASE k = 0
      BY <3>1
    <3>2. CASE k # 0
      <4>1. k - 1 \in 0..Len(strs) /\ k - 1 < Len(strs) /\ (k - 1) + 1 = k
        BY <1>6, <3>2
      <4>2. done((k - 1) + 1) = Append(done(k - 1), strs[(k - 1) + 1])
        <5> HIDE DEF D
        <5>1. strs \in Seq(D)
          BY DEF D
        <5> QED BY <4>1, <5>1, Growing
      <4> QED BY <3>2, <4>1, <4>2
    <3> QED BY <3>1, <3>2
  <2> HIDE DEF done, y, q, s
  <2>8. end(k + 1) = After(mid, q)
    <3>1. Concat(y) \in Seq(C) /\ Concat(Append(y, q)) = Concat(y) \o q
      BY <2>1, ConcatTyped, ConcatAppend
    <3>2. After(Between, Concat(y) \o q) = After(After(Between, Concat(y)), q)
      BY <1>4, <2>1, <3>1, AfterConcat
    <3>3. After(Between, Concat(y)) = mid
      BY DEF y
    <3> QED BY <2>1, <3>1, <3>2, <3>3, Zenon
  <2> HIDE DEF mid, quoted, end
  <2>9. IsAt(C, After(mid, q), "plain", TRUE, s, done(k))
    <3>1. CASE k = 0
      BY <1>3, <2>2, <2>4, <2>5, <2>7, <3>1, AfterQuoted DEF quoted
    <3>2. CASE k # 0
      <4> DEFINE sep == After(mid, <<Blank>>)
      <4>1. sep = Read(mid, Blank)
        BY <1>4, <2>6, AfterOne
      <4>2. IsAt(C, mid, "plain", TRUE, strs[k], done(k - 1))
        BY <2>5, <3>2
      <4>3. IsAt(C, sep, "plain", FALSE, strs[k], done(k))
        BY <1>4, <2>7, <3>2, <4>1, <4>2, ReadPlain
      <4>4. After(mid, q) = After(sep, quoted)
        <5>1. After(mid, <<Blank>> \o quoted) = After(After(mid, <<Blank>>), quoted)
          <6> DEFINE b == <<Blank>>
          <6>1. b \in Seq(C)
            BY <1>4
          <6> HIDE DEF b
          <6>2. After(mid, b \o quoted) = After(After(mid, b), quoted)
            BY <2>3, <2>6, <6>1, AfterConcat
          <6> QED BY <6>2 DEF b
        <5> QED BY <2>4, <3>2, <5>1, Zenon
      <4> HIDE DEF sep
      <4> QED BY <2>2, <4>3, <4>4, AfterQuoted DEF quoted
    <3> QED BY <3>1, <3>2
  <2>10. k + 1 # 0 /\ (k + 1) - 1 = k
    BY <1>6
  <2>11. IsAt(C, end(k + 1), "plain", TRUE, strs[k + 1], done((k + 1) - 1))
    BY <2>8, <2>9, <2>10 DEF s
  <2> QED BY <2>10, <2>11
<1>7. Good(Len(strs))
  <2> HIDE DEF Good
  <2>1. 0 \in G /\ \A k \in 0..Len(strs) : k < Len(strs) /\ k \in G => k + 1 \in G
    BY <1>2, <1>5, <1>6
  <2>2. \A k \in 0..Len(strs) : k \in G
    <3> HIDE DEF G
    <3> QED BY <1>2, <2>1, UpTo
  <2> QED BY <1>2, <2>2
<1> QED BY <1>2, <1>7, Zenon DEF p

\* The words of the line are the strings of the command.
LEMMA CommandRead ==
    ASSUME NEW args \in Seq(Arguments)
    PROVE  LET shell == Shell(CommandLine(args))
               strings == Strings(args)
           IN /\ shell.words = strings /\ shell.mode = "plain" /\ ~shell.odd
              /\ shell.taken => strings # <<>> /\ (\/ IsAssignment(Head(strings))
                                                 \/ IsReserved(Head(strings)))
<1> DEFINE C == (UNION {Range(a) : a \in Arguments \ {NotString}})
                \cup {Blank, Quote, Backslash}
           places == {j \in DOMAIN args : args[j] # NotString}
           strs == Strings(args)
           n == Len(strs)
           end == After(Between, Concat(Parts(strs)))
           W == Seq(C)
<1>1. strs \in Seq(W)
  <2>1. strs = Select(args, places) /\ places \in SUBSET (DOMAIN args)
    BY DEF Strings
  <2>2. strs \in Seq(Arguments) /\ Range(strs) = {args[j] : j \in places}
    BY <2>1, SelectSelects, SelectedMembers
  <2>3. ASSUME NEW a \in Arguments \ {NotString} PROVE a \in W
    <3>1. a \in Seq(Range(a)) /\ Range(a) \subseteq C
      BY ArgumentsAssumption DEF IsSeq
    <3> HIDE DEF C
    <3> QED BY <3>1
  <2>4. ASSUME NEW j \in 1..n PROVE strs[j] \in W
    <3>1. strs[j] \in Range(strs) /\ strs[j] \in Arguments
      BY <2>2 DEF Range
    <3>2. PICK i \in places : strs[j] = args[i]
      BY <2>2, <3>1
    <3>3. strs[j] # NotString
      BY <3>2
    <3> HIDE DEF strs, W
    <3> QED BY <2>3, <3>1, <3>3
  <2> HIDE DEF strs, W
  <2> QED BY <2>2, <2>4
<1>2. {Blank, Quote, Backslash} \subseteq C
  OBVIOUS
<1>3. CommandLine(args) = Concat(Parts(strs))
  BY Zenon DEF CommandLine, Parts
<1>4. Shell(CommandLine(args)) = Ended(end)
  BY <1>3 DEF Shell
<1> HIDE DEF C, strs, end
<1>5. IF n = 0 THEN end = Between
      ELSE IsAt(C, end, "plain", TRUE, strs[n], SubSeq(strs, 1, n - 1))
  BY <1>1, <1>2, LineRead DEF end
<1>6. CASE n = 0
  <2>1. strs = <<>> /\ Ended(end) = Between
    <3> HIDE DEF W
    <3> QED BY <1>1, <1>5, <1>6 DEF Ended, Between
  <2> QED BY <1>4, <2>1 DEF Between, strs
<1>7. CASE n # 0
  <2> DEFINE ws == SubSeq(strs, 1, n - 1)  w == strs[n]
  <2>1. IsAt(C, end, "plain", TRUE, w, ws)
    BY <1>5, <1>7
  <2>2. Append(ws, w) = strs
    <3> HIDE DEF W
    <3>1. n \in Nat /\ SubSeq(strs, 1, n) = strs
      BY <1>1, Growing
    <3>2. n - 1 \in 0..n /\ n - 1 < n /\ (n - 1) + 1 = n
      BY <1>7, <3>1
    <3>3. SubSeq(strs, 1, (n - 1) + 1) = Append(SubSeq(strs, 1, n - 1), strs[(n - 1) + 1])
      BY <1>1, <3>2, Growing
    <3> QED BY <3>1, <3>2, <3>3
  <2> HIDE DEF w, ws
  <2> DEFINE all == Append(end.words, end.word)
  <2>3. all = strs
    BY <2>1, <2>2 DEF IsAt
  <2>4. \E taken : Ended(end) = [end EXCEPT !.open = FALSE, !.words = all, !.taken = taken]
    BY <2>1 DEF IsAt, Ended
  <2> HIDE DEF all
  <2>5. Ended(end).words = all /\ Ended(end).mode = "plain" /\ ~Ended(end).odd
    BY <2>1, <2>4 DEF IsAt, States
  <2>6. Between \in States(C) /\ TakenRightly(Between)
    BY DEF States, Between, TakenRightly
  <2>7. Concat(Parts(strs)) \in Seq(C)
    <3>1. Parts(strs) \in Seq(Seq(C))
      BY <1>1, <1>2, PartsTyped
    <3> QED BY <3>1, ConcatTyped
  <2>8. TakenRightly(end)
    BY <2>6, <2>7, AfterRightly DEF end
  <2>9. TakenRightly(Ended(end))
    BY <2>1, <2>8, EndedRightly DEF IsAt
  <2>10. strs # <<>> /\ Head(strs) = strs[1]
    BY <1>1, <1>7
  <2> QED BY <1>4, <2>3, <2>5, <2>9, <2>10 DEF TakenRightly, strs
<1> QED BY <1>6, <1>7

-----------------------------------------------------------------------------
(* The theorems.                                                            *)

\* The input of every kind is made of the members that this kind grows by: a
\* table of rows, a name of characters, a root of entries, a command of
\* arguments, a document of users, packages and commands.
THEOREM TypeCorrect == Spec => []TypeOK
<1>1. Init => TypeOK
  BY DEF Init, TypeOK, Kinds, Documents, NoDocument
<1>2. TypeOK /\ [Next]_vars => TypeOK'
  <2> SUFFICES ASSUME TypeOK, [Next]_vars PROVE TypeOK'
    OBVIOUS
  <2>1. ASSUME NEW k, NEW max, NEW S, Grow(k, max, S),
               NEW T, input \in Seq(T), S \subseteq T
        PROVE  input' \in Seq(T) /\ kind' = k /\ kind = k
    BY <2>1 DEF Grow
  <2>2. CASE AddRow
    <3>1. kind = "table" /\ input \in Seq(Rows)
      BY <2>2 DEF AddRow, Grow, TypeOK
    <3>2. input' \in Seq(Rows) /\ kind' = "table"
      BY <2>1, <2>2, <3>1 DEF AddRow
    <3> QED BY <3>2 DEF TypeOK, Kinds
  <2>3. CASE AddChar
    <3>1. kind = "name" /\ input \in Seq(Chars)
      BY <2>3 DEF AddChar, Grow, TypeOK
    <3>2. input' \in Seq(Chars) /\ kind' = "name"
      BY <2>1, <2>3, <3>1 DEF AddChar
    <3> QED BY <3>2 DEF TypeOK, Kinds
  <2>4. CASE AddEntry
    <3>1. kind = "root" /\ input \in Seq(Entries)
      BY <2>4 DEF AddEntry, Grow, TypeOK
    <3>2. input' \in Seq(Entries) /\ kind' = "root"
      BY <2>1, <2>4, <3>1 DEF AddEntry
    <3> QED BY <3>2 DEF TypeOK, Kinds
  <2>5. CASE AddArg
    <3>1. kind = "args" /\ input \in Seq(Arguments)
      BY <2>5 DEF AddArg, Grow, TypeOK
    <3>2. input' \in Seq(Arguments) /\ kind' = "args"
      BY <2>1, <2>5, <3>1 DEF AddArg
    <3> QED BY <3>2 DEF TypeOK, Kinds
  <2>6. CASE AddMember
    <3>1. kind = "document" /\ kind' = "document" /\ input \in Documents
      BY <2>6 DEF AddMember, TypeOK
    <3>2. /\ \A u \in Users : Append(input.users, u) \in Seq(Users)
          /\ \A p \in Packages : Append(input.packages, p) \in Seq(Packages)
          /\ \A c \in Commands : /\ Append(input.runcmd, c) \in Seq(Commands)
                                 /\ Append(input.bootcmd, c) \in Seq(Commands)
      BY <3>1 DEF Documents
    <3>3. \/ \E l \in Seq(Users) : input' = [input EXCEPT !.users = l]
          \/ \E l \in Seq(Packages) : input' = [input EXCEPT !.packages = l]
          \/ \E l \in Seq(Commands) : input' = [input EXCEPT !.runcmd = l]
          \/ \E l \in Seq(Commands) : input' = [input EXCEPT !.bootcmd = l]
      BY <2>6, <3>2, Zenon DEF AddMember
    <3>4. input' \in Documents
      BY <3>1, <3>3 DEF Documents
    <3> QED BY <3>1, <3>4 DEF TypeOK, Kinds
  <2>7. CASE StartOver
    BY <2>7 DEF StartOver, TypeOK, Kinds, Documents, NoDocument
  <2>8. CASE UNCHANGED vars
    BY <2>8 DEF vars, TypeOK
  <2> QED BY <2>2, <2>3, <2>4, <2>5, <2>6, <2>7, <2>8 DEF Next
<1> QED BY <1>1, <1>2, PTL DEF Spec

\* Over every route table, the gateway found is that of the first route of the
\* lowest metric (gateway_linux.go:39-61).
THEOREM BestRouteFound == Spec => []GatewayIsBestRoute
<1>1. TypeOK => GatewayIsBestRoute
  BY GatewayFound DEF TypeOK, GatewayIsBestRoute
<1> QED BY <1>1, TypeCorrect, PTL

\* Of every file name: it is matched only if it looks like user-data, and it
\* is matched if a mastering tool gives it to user-data (disk.go:209-262).
THEOREM NamesTold == Spec => []SeedNameIsTold
<1>1. TypeOK => SeedNameIsTold
  BY MatchedResembles, MintedIsMatched DEF TypeOK, SeedNameIsTold
<1> QED BY <1>1, TypeCorrect, PTL

\* In every directory a plainly named user-data wins, and a readable one of a
\* minted name is answered (disk.go:220-241).
THEOREM PlainWins == Spec => []PlainNameWins
<1>1. TypeOK => PlainNameWins
  <2> SUFFICES ASSUME TypeOK, kind = "root" PROVE PlainNameWins
    BY DEF PlainNameWins
  <2>1. input \in Seq(Entries)
    BY DEF TypeOK
  <2>2. Range(input) = {input[i] : i \in 1..Len(input)}
    BY <2>1 DEF Range
  <2>3. ASSUME NEW p \in {e \in Range(input) : ExactName(e.name)},
               NEW listable \in BOOLEAN
        PROVE  ReadNamed(input, listable)
               \in {e.data : e \in {e \in Range(input) : ExactName(e.name)}} \cup {Failure}
    <3>1. PICK i \in 1..Len(input) : input[i] = p
      BY <2>2
    <3>2. ExactName(input[i].name)
      BY <3>1
    <3>3. \/ ReadNamed(input, listable) = Failure
          \/ \E e \in Range(input) : /\ ExactName(e.name)
                                     /\ ReadNamed(input, listable) = e.data
      BY <2>1, <3>2, PlainFileWins
    <3> QED BY <3>3
  <2>4. ASSUME \A e \in Range(input) : e.data # Unreadable,
               NEW m \in Range(input), m.name \in Minted
        PROVE  ReadNamed(input, TRUE) # Failure
    BY <2>1, <2>4, MintedFileIsRead
  <2> QED BY <2>3, <2>4 DEF PlainNameWins
<1> QED BY <1>1, TypeCorrect, PTL

\* Every command given as a list reaches the shell as the arguments that it
\* has, whatever characters they hold, and only an argument in front that is an
\* assignment or a reserved word is not run as the command
\* (cloudconfig.go:187-218).
THEOREM ArgumentsKept == Spec => []ArgumentsSurvive
<1>1. TypeOK => ArgumentsSurvive
  BY CommandRead DEF TypeOK, ArgumentsSurvive
<1> QED BY <1>1, TypeCorrect, PTL

\* Of every document no empty name reaches Apply, and every named user does
\* with all its groups, and every named package (cloudconfig.go:77-92, 115-162).
THEOREM NamesKept == Spec => []NamesReachApply
<1>1. TypeOK => NamesReachApply
  <2> SUFFICES ASSUME TypeOK, kind = "document" PROVE NamesReachApply
    BY DEF NamesReachApply
  <2>1. input.users \in Seq(Users) /\ input.packages \in Seq(Packages)
    BY DEF TypeOK, Documents
  <2> QED BY <2>1, NamesConverted DEF NamesReachApply
<1> QED BY <1>1, TypeCorrect, PTL
=============================================================================
