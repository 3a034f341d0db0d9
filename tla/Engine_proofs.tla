---------------------------- MODULE Engine_proofs ----------------------------
(***************************************************************************)
(* The theorems of Engine.  The optimizer's ones rest on one invariant:    *)
(* what the rounds recorded are leaders, peaks and sorted samples          *)
(* (SearchInv), and what is kept reaches every metric as often as all that *)
(* was evaluated, as far as it fits (KeepsInv).  Counting how many samples *)
(* reach a metric is what survives a merge, where positions do not; it     *)
(* needs that sorting only moves samples, which the ranks give.  The       *)
(* sensitivity test and the batch are told by the step that answers; what  *)
(* a backtest's performance lists, row by row (Walk).                      *)
(***************************************************************************)
EXTENDS Engine, FiniteSetTheorems, FunctionTheorems, SequenceTheorems, TLAPS

-----------------------------------------------------------------------------
(* Counting                                                                *)

LEMMA LeastOf ==
  ASSUME NEW T, T \subseteq Nat, T # {}
  PROVE  \E m \in T : \A k \in T : m <= k
<1>1. PICK x \in T : \A y \in T : <<y, x>> \notin OpToRel(<, Nat)
  BY WFMin, NatLessThanWellFounded, Zenon
<1>2. \A y \in T : ~ (y < x)
  BY <1>1, Zenon DEF OpToRel
<1> QED BY <1>2

LEMMA FewerIn ==
  ASSUME NEW S, IsFiniteSet(S), NEW T, T \subseteq S
  PROVE  /\ IsFiniteSet(T) /\ Cardinality(T) \in Nat /\ Cardinality(S) \in Nat
         /\ Cardinality(T) <= Cardinality(S)
         /\ T # S => Cardinality(T) < Cardinality(S)
<1>1. /\ IsFiniteSet(T)
      /\ Cardinality(T) <= Cardinality(S)
      /\ Cardinality(S) = Cardinality(T) => S = T
  BY FS_Subset
<1>2. Cardinality(T) \in Nat /\ Cardinality(S) \in Nat
  BY <1>1, FS_CardinalityType
<1> QED BY <1>1, <1>2

LEMMA FirstOnes ==
  ASSUME NEW n \in Nat
  PROVE  IsFiniteSet(1..n) /\ Cardinality(1..n) = n
BY FS_Interval

(* A set of positions that holds with each all before it is an initial     *)
(* stretch.                                                                *)
LEMMA InitialStretch ==
  ASSUME NEW m \in Nat, NEW D, D \subseteq 1..m,
         \A i \in D : \A j \in 1..m : j < i => j \in D
  PROVE  D = 1..Cardinality(D) /\ Cardinality(D) \in Nat /\ Cardinality(D) <= m
<1> DEFINE Missing == {x \in 1..m + 1 : x \notin D}
<1>1. m + 1 \in Missing
  OBVIOUS
<1>2. Missing \subseteq Nat /\ Missing # {}
  BY <1>1
<1>3. \A x : x \in Missing <=> x \in 1..m + 1 /\ x \notin D
  OBVIOUS
<1> HIDE DEF Missing
<1>4. PICK e \in Missing : \A x \in Missing : e <= x
  BY <1>2, LeastOf
<1>5. e - 1 \in Nat /\ e - 1 <= m /\ e \notin D /\ e \in Nat
  BY <1>3, <1>4
<1>6. ASSUME NEW i \in D
      PROVE  i \in 1..e - 1
  <2>1. i \in 1..m
    OBVIOUS
  <2>2. CASE e <= i
    BY <1>5, <2>1, <2>2, <1>3
  <2> QED BY <1>5, <2>1, <2>2
<1>7. 1..e - 1 \subseteq D
  BY <1>3, <1>4, <1>5
<1>8. D = 1..e - 1
  BY <1>6, <1>7
<1>9. Cardinality(1..e - 1) = e - 1
  BY <1>5, FirstOnes
<1> QED BY <1>5, <1>8, <1>9

(* As many of what is arranged have a property as of what it comes from.   *)
LEMMA SameNumber ==
  ASSUME NEW A, NEW B, IsFiniteSet(B), NEW p \in Bijection(A, B), NEW T, T \subseteq B
  PROVE  Cardinality({a \in A : p[a] \in T}) = Cardinality(T)
<1> DEFINE C == {a \in A : p[a] \in T}
           q == [a \in C |-> p[a]]
<1>1. /\ p \in [A -> B]
      /\ \A a, b \in A : p[a] = p[b] => a = b
      /\ \A t \in B : \E a \in A : p[a] = t
  BY Fun_BijectionProperties DEF Bijection, Injection, IsInjective, Surjection
<1>2. q \in Injection(C, T)
  <2>1. q \in [C -> T]
    OBVIOUS
  <2>2. \A a, b \in C : q[a] = q[b] => a = b
    BY <1>1
  <2> QED BY <2>1, <2>2 DEF Injection, IsInjective
<1>3. q \in Surjection(C, T)
  BY <1>1 DEF Surjection
<1>4. IsFiniteSet(T)
  BY FS_Subset
<1> HIDE DEF C, q
<1>5. /\ IsFiniteSet(C)
      /\ Cardinality(C) = Cardinality(T) <=> q \in Surjection(C, T)
  BY <1>2, <1>4, FS_Injection
<1>6. Cardinality(C) = Cardinality(T)
  BY <1>3, <1>5
<1> QED BY <1>6 DEF C
-----------------------------------------------------------------------------
(* Ranking                                                                 *)

(* The ranks of a finite set under a strict total order are the first      *)
(* numbers, each of them once and in order.                                *)
LEMMA RanksAreNumbers ==
  ASSUME NEW S, IsFiniteSet(S), NEW R,
         \A i \in S : <<i, i>> \notin R,
         \A i, j, k \in S : <<i, j>> \in R /\ <<j, k>> \in R => <<i, k>> \in R,
         \A i, j \in S : i = j \/ <<i, j>> \in R \/ <<j, i>> \in R,
         NEW rank, rank = [i \in S |-> Cardinality({j \in S : <<j, i>> \in R}) + 1]
  PROVE  /\ rank \in Bijection(S, 1..Cardinality(S))
         /\ \A i, k \in S : <<i, k>> \in R <=> rank[i] < rank[k]
<1> DEFINE Under(i) == {j \in S : <<j, i>> \in R}
           n == Cardinality(S)
<1>1. n \in Nat
  BY FS_CardinalityType
<1>2. ASSUME NEW i \in S
      PROVE  /\ IsFiniteSet(Under(i)) /\ Cardinality(Under(i)) \in Nat
             /\ Cardinality(Under(i)) < n
  <2>1. Under(i) \subseteq S /\ i \notin Under(i)
    OBVIOUS
  <2> HIDE DEF Under
  <2>2. Under(i) # S
    BY <2>1
  <2> QED BY <2>1, <2>2, FewerIn
<1>3. ASSUME NEW i \in S, NEW k \in S, <<i, k>> \in R
      PROVE  Cardinality(Under(i)) < Cardinality(Under(k))
  <2>1. Under(i) \subseteq Under(k)
    BY <1>3
  <2>2. i \in Under(k) /\ i \notin Under(i)
    BY <1>3
  <2>3. IsFiniteSet(Under(k))
    BY <1>2
  <2> HIDE DEF Under
  <2>4. Under(i) # Under(k)
    BY <2>2
  <2> QED BY <2>1, <2>3, <2>4, FewerIn
<1>4. \A i \in S : rank[i] = Cardinality(Under(i)) + 1
  OBVIOUS
<1> HIDE DEF Under
<1>5. rank \in [S -> 1..n]
  <2>1. rank = [i \in S |-> rank[i]]
    OBVIOUS
  <2>2. \A i \in S : rank[i] \in 1..n
    BY <1>1, <1>2, <1>4
  <2> QED BY <2>1, <2>2
<1>6. \A i, k \in S : <<i, k>> \in R => rank[i] < rank[k]
  BY <1>2, <1>3, <1>4
<1>7. \A i, k \in S : <<i, k>> \in R <=> rank[i] < rank[k]
  <2> SUFFICES ASSUME NEW i \in S, NEW k \in S, rank[i] < rank[k], <<i, k>> \notin R
               PROVE  FALSE
    BY <1>6
  <2>1. i = k \/ <<k, i>> \in R
    OBVIOUS
  <2>2. rank[i] \in Int /\ rank[k] \in Int
    BY <1>5
  <2> QED BY <1>6, <2>1, <2>2
<1>8. ASSUME NEW i \in S, NEW k \in S, rank[i] = rank[k]
      PROVE  i = k
  <2>1. rank[i] \in Int /\ rank[k] \in Int
    BY <1>5
  <2>2. i = k \/ <<i, k>> \in R \/ <<k, i>> \in R
    OBVIOUS
  <2> QED BY <1>6, <1>8, <2>1, <2>2
<1>9. rank \in Injection(S, 1..n)
  BY <1>5, <1>8 DEF Injection, IsInjective
<1>10. IsFiniteSet(1..n) /\ Cardinality(1..n) = n
  BY <1>1, FirstOnes
<1>11. rank \in Surjection(S, 1..n)
  BY <1>9, <1>10, FS_Injection
<1> QED BY <1>7, <1>9, <1>11 DEF Bijection

(* Samples that are numbers.                                               *)
Numbered(samples, n) ==
  DOMAIN samples = 1..n /\ \A i \in 1..n : samples[i].metric \in Int

(* One metric does not come before another.                                *)
InOrder(a, b, bestFirst) == IF bestFirst THEN a >= b ELSE a <= b

Falling(s, n) == \A r, q \in 1..n : r < q => s[r].metric >= s[q].metric
Rising(s, n) == \A r, q \in 1..n : r < q => s[r].metric <= s[q].metric

(* The same samples in another order.                                      *)
Arranged(s, samples, n) ==
  \E p \in Bijection(1..n, 1..n) : s = [r \in 1..n |-> samples[p[r]]]

Found(x, s, n) == \E r \in 1..n : s[r] = x

LEMMA ArrangedFrom ==
  ASSUME NEW n \in Nat, NEW samples, NEW s, Arranged(s, samples, n), NEW r \in 1..n
  PROVE  \E i \in 1..n : s[r] = samples[i]
BY DEF Arranged, Bijection, Injection

LEMMA ArrangedAll ==
  ASSUME NEW n \in Nat, NEW samples, NEW s, Arranged(s, samples, n), NEW i \in 1..n
  PROVE  Found(samples[i], s, n)
<1>1. PICK p \in Bijection(1..n, 1..n) : s = [r \in 1..n |-> samples[p[r]]]
  BY DEF Arranged
<1>2. PICK r \in 1..n : p[r] = i
  BY DEF Bijection, Surjection
<1>3. s[r] = samples[p[r]]
  BY <1>1
<1> QED BY <1>2, <1>3 DEF Found

LEMMA ArrangedIn ==
  ASSUME NEW n \in Nat, NEW S, NEW samples, \A i \in 1..n : samples[i] \in S,
         NEW s, Arranged(s, samples, n)
  PROVE  s \in [1..n -> S]
<1>1. PICK p \in Bijection(1..n, 1..n) : s = [r \in 1..n |-> samples[p[r]]]
  BY DEF Arranged
<1>2. \A r \in 1..n : p[r] \in 1..n
  BY DEF Bijection, Injection
<1> QED BY <1>1, <1>2

(* Sorting moves samples and loses none.                                   *)
LEMMA RankedSorts ==
  ASSUME NEW n \in Nat, NEW samples, Numbered(samples, n), NEW bestFirst \in BOOLEAN
  PROVE  /\ Arranged(Ranked(samples, bestFirst), samples, n)
         /\ bestFirst => Falling(Ranked(samples, bestFirst), n)
         /\ ~ bestFirst => Rising(Ranked(samples, bestFirst), n)
<1> DEFINE D == 1..n
           R == {x \in D \X D : Before(samples, bestFirst, x[1], x[2])}
           rank == [i \in D |-> Cardinality({j \in D : <<j, i>> \in R}) + 1]
           p == [r \in D |-> CHOOSE i \in D : Rank(samples, bestFirst, i) = r]
<1>1. DOMAIN samples = D /\ \A i \in D : samples[i].metric \in Int
  BY DEF Numbered
<1>2. \A i, j \in D : <<j, i>> \in R <=> Before(samples, bestFirst, j, i)
  OBVIOUS
<1>3. \A i \in D : {j \in D : <<j, i>> \in R} = {j \in D : Before(samples, bestFirst, j, i)}
  BY <1>2
<1>4. \A i \in D : rank[i] = Rank(samples, bestFirst, i)
  BY <1>1, <1>3 DEF Rank
<1>5. IsFiniteSet(D) /\ Cardinality(D) = n
  BY FirstOnes
<1> HIDE DEF D
<1>6. D \subseteq Nat
  BY DEF D
<1>7. \A i \in D : <<i, i>> \notin R
  BY <1>1, <1>2, <1>6 DEF Before
<1>8. \A i, j, k \in D : <<i, j>> \in R /\ <<j, k>> \in R => <<i, k>> \in R
  BY <1>1, <1>2, <1>6 DEF Before
<1>9. ASSUME NEW i \in D, NEW j \in D
      PROVE  i = j \/ <<i, j>> \in R \/ <<j, i>> \in R
  <2>1. i \in Nat /\ j \in Nat /\ samples[i].metric \in Int /\ samples[j].metric \in Int
    BY <1>1, <1>6
  <2>2. i = j \/ Before(samples, bestFirst, i, j) \/ Before(samples, bestFirst, j, i)
    BY <2>1 DEF Before
  <2> QED BY <1>2, <2>2
<1> HIDE DEF R
<1>10. /\ rank \in Bijection(D, 1..n)
       /\ \A i, k \in D : <<i, k>> \in R <=> rank[i] < rank[k]
  BY <1>5, <1>7, <1>8, <1>9, RanksAreNumbers
<1> HIDE DEF rank
<1>11. /\ rank \in [D -> D]
       /\ \A a, b \in D : rank[a] = rank[b] => a = b
       /\ \A r \in D : \E i \in D : rank[i] = r
  BY <1>10 DEF D, Bijection, Injection, IsInjective, Surjection
<1>12. \A r \in D : p[r] \in D /\ rank[p[r]] = r
  BY <1>4, <1>11
<1>13. Ranked(samples, bestFirst) = [r \in D |-> samples[p[r]]]
  BY <1>1 DEF Ranked
<1>14. p \in [D -> D]
  BY <1>12
<1> HIDE DEF p
<1>15. \A i \in D : p[rank[i]] = i
  BY <1>11, <1>12
<1>16. p \in Bijection(D, D)
  <2>1. \A a, b \in D : p[a] = p[b] => a = b
    BY <1>12
  <2>2. \A i \in D : \E r \in D : p[r] = i
    BY <1>11, <1>15
  <2> QED BY <1>14, <2>1, <2>2 DEF Bijection, Injection, IsInjective, Surjection
<1>17. ASSUME NEW r \in D, NEW q \in D, r < q
       PROVE  InOrder(samples[p[r]].metric, samples[p[q]].metric, bestFirst)
  <2>1. <<p[r], p[q]>> \in R
    BY <1>10, <1>12, <1>17
  <2>2. Before(samples, bestFirst, p[r], p[q])
    BY <1>2, <1>12, <2>1
  <2>3. samples[p[r]].metric \in Int /\ samples[p[q]].metric \in Int
    BY <1>1, <1>12
  <2> QED BY <2>2, <2>3 DEF Before, InOrder
<1>18. Arranged(Ranked(samples, bestFirst), samples, n)
  BY <1>13, <1>16 DEF Arranged, D
<1>19. bestFirst => Falling(Ranked(samples, bestFirst), n)
  BY <1>13, <1>17 DEF Falling, InOrder, D
<1>20. ~ bestFirst => Rising(Ranked(samples, bestFirst), n)
  BY <1>13, <1>17 DEF Rising, InOrder, D
<1> QED BY <1>18, <1>19, <1>20

(* Both ways to order samples only move them.                              *)
LEMMA OrdersArrange ==
  ASSUME NEW n \in Nat, NEW samples, DOMAIN samples = 1..n,
         \A i \in 1..n : samples[i].metric \in Metric,
         NEW bestFirst \in BOOLEAN, NEW s \in Orders(samples, bestFirst)
  PROVE  /\ Arranged(s, samples, n)
         /\ Numbers(s) <=> Numbers(samples)
         /\ Numbers(samples) => Numbered(samples, n)
         /\ Numbers(samples) /\ bestFirst => Falling(s, n)
         /\ Numbers(samples) /\ ~ bestFirst => Rising(s, n)
<1>1. Numbers(samples) => Numbered(samples, n)
  BY MetricAssumption DEF Numbers, Numbered, Metric
<1>2. Numbers(samples) => s = Ranked(samples, bestFirst)
  BY DEF Orders
<1>3. ASSUME Numbers(samples)
      PROVE  /\ Arranged(s, samples, n)
             /\ bestFirst => Falling(s, n)
             /\ ~ bestFirst => Rising(s, n)
  BY <1>1, <1>2, <1>3, RankedSorts
<1>4. Arranged(s, samples, n)
  BY <1>3 DEF Orders, Arranged
<1>5. Numbers(s) <=> Numbers(samples)
  <2>1. DOMAIN s = 1..n
    BY <1>4 DEF Arranged
  <2>2. Numbers(samples) => Numbers(s)
    <3>1. \A r \in 1..n : \E i \in 1..n : s[r] = samples[i]
      BY <1>4, ArrangedFrom
    <3> QED BY <2>1, <3>1 DEF Numbers
  <2>3. ASSUME Numbers(s), NEW i \in 1..n
        PROVE  samples[i].metric # NaN
    <3>1. Found(samples[i], s, n)
      BY <1>4, ArrangedAll
    <3>2. PICK r \in 1..n : s[r] = samples[i]
      BY <3>1 DEF Found
    <3> QED BY <2>1, <2>3, <3>2 DEF Numbers
  <2> QED BY <2>2, <2>3 DEF Numbers
<1> QED BY <1>1, <1>3, <1>4, <1>5

(* The first of a sequence.                                                *)
Fewer(a, b) == IF a < b THEN a ELSE b

LEMMA FirstFacts ==
  ASSUME NEW S, NEW s \in Seq(S), NEW k \in Nat
  PROVE  /\ First(s, k) \in Seq(S) /\ Len(First(s, k)) = Fewer(k, Len(s))
         /\ \A i \in 1..Fewer(k, Len(s)) : First(s, k)[i] = s[i]
         /\ Fewer(k, Len(s)) \in Nat /\ Fewer(k, Len(s)) <= Len(s)
<1>1. PICK m \in Nat : m = Fewer(k, Len(s)) /\ m <= Len(s)
  BY LenProperties DEF Fewer
<1>2. First(s, k) = SubSeq(s, 1, m)
  BY <1>1 DEF First, Fewer
<1>3. \A i \in 1..m : s[i] \in S
  BY <1>1, LenProperties
<1>4. /\ SubSeq(s, 1, m) \in Seq(S)
      /\ Len(SubSeq(s, 1, m)) = IF 1 <= m THEN m - 1 + 1 ELSE 0
      /\ \A i \in 1..m - 1 + 1 : SubSeq(s, 1, m)[i] = s[1 + i - 1]
  BY <1>1, <1>3, SubSeqProperties
<1>5. Len(SubSeq(s, 1, m)) = m /\ \A i \in 1..m : SubSeq(s, 1, m)[i] = s[i]
  BY <1>1, <1>4
<1> QED BY <1>1, <1>2, <1>4, <1>5

(* Sequences that are functions on the first numbers.                      *)
LEMMA FunctionsAreSeqs ==
  ASSUME NEW S, NEW n \in Nat, NEW f \in [1..n -> S]
  PROVE  f \in Seq(S) /\ Len(f) = n
<1>1. f \in Seq(S)
  BY SeqDef
<1>2. DOMAIN f = 1..Len(f) /\ Len(f) \in Nat
  BY <1>1, LenProperties
<1> QED BY <1>1, <1>2
-----------------------------------------------------------------------------
(* The best of two searches                                                *)

AtLeast(s, v) == {i \in DOMAIN s : s[i].metric >= v}

Opening(t, s, k, n) ==
  DOMAIN t = 1..Fewer(k, n) /\ \A i \in 1..Fewer(k, n) : t[i] = s[i]

(* Cut to k, a sorted sequence keeps of what reaches a metric as many as   *)
(* fit.                                                                    *)
LEMMA CutKeepsBest ==
  ASSUME NEW m \in Nat, NEW s, Numbered(s, m), Falling(s, m), NEW k \in Nat,
         NEW t, Opening(t, s, k, m), NEW v \in Int
  PROVE  Cardinality(AtLeast(t, v)) = Fewer(k, Cardinality(AtLeast(s, v)))
<1> DEFINE D == AtLeast(s, v)
           c == Cardinality(D)
<1>1. D \subseteq 1..m /\ \A i \in 1..m : i \in D <=> s[i].metric >= v
  BY DEF AtLeast, Numbered
<1>2. \A i \in 1..m : s[i].metric \in Int
  BY DEF Numbered
<1>3. ASSUME NEW i \in D, NEW j \in 1..m, j < i
      PROVE  j \in D
  <2>1. s[j].metric >= s[i].metric /\ s[i].metric >= v
    BY <1>1, <1>3 DEF Falling
  <2> QED BY <1>1, <1>2, <2>1
<1> HIDE DEF D
<1>4. D = 1..c /\ c \in Nat /\ c <= m
  BY <1>1, <1>3, InitialStretch
<1> HIDE DEF c
<1>5. AtLeast(t, v) = 1..Fewer(k, c)
  <2>1. \A i : i \in AtLeast(t, v) <=> i \in 1..Fewer(k, m) /\ s[i].metric >= v
    BY DEF AtLeast, Opening
  <2>2. \A i : i \in 1..Fewer(k, m) <=> i \in 1..m /\ i <= k
    BY <1>4 DEF Fewer
  <2>3. \A i : i \in AtLeast(t, v) <=> i \in 1..c /\ i <= k
    BY <1>1, <1>4, <2>1, <2>2
  <2>4. \A i : i \in 1..Fewer(k, c) <=> i \in 1..c /\ i <= k
    BY <1>4 DEF Fewer
  <2> QED BY <2>3, <2>4
<1>6. Fewer(k, c) \in Nat
  BY <1>4 DEF Fewer
<1> QED BY <1>5, <1>6, FirstOnes DEF c, D

LEMMA ArrangedCount ==
  ASSUME NEW n \in Nat, NEW samples, DOMAIN samples = 1..n, NEW s, Arranged(s, samples, n), NEW v
  PROVE  Cardinality(AtLeast(s, v)) = Cardinality(AtLeast(samples, v))
<1> PICK p \in Bijection(1..n, 1..n) : s = [r \in 1..n |-> samples[p[r]]]
  BY DEF Arranged
<1> DEFINE T == AtLeast(samples, v)
<1>1. IsFiniteSet(1..n) /\ T \subseteq 1..n
  BY FirstOnes DEF AtLeast
<1>2. Cardinality({r \in 1..n : p[r] \in T}) = Cardinality(T)
  BY <1>1, SameNumber
<1>3. \A r \in 1..n : p[r] \in 1..n
  BY DEF Bijection, Injection
<1>4. {r \in 1..n : p[r] \in T} = AtLeast(s, v)
  BY <1>3 DEF AtLeast
<1> QED BY <1>2, <1>4

(* The samples of two sequences that reach a metric.                       *)
LEMMA JoinedCount ==
  ASSUME NEW S, NEW a \in Seq(S), NEW b \in Seq(S), NEW v
  PROVE  /\ Cardinality(AtLeast(a \o b, v))
              = Cardinality(AtLeast(a, v)) + Cardinality(AtLeast(b, v))
         /\ Cardinality(AtLeast(a, v)) \in Nat /\ Cardinality(AtLeast(b, v)) \in Nat
<1> DEFINE A == AtLeast(a, v)
           B == AtLeast(b, v)
           C == {i \in DOMAIN (a \o b) : i > Len(a) /\ (a \o b)[i].metric >= v}
           shift == [i \in B |-> i + Len(a)]
<1>1. /\ Len(a) \in Nat /\ Len(b) \in Nat /\ DOMAIN a = 1..Len(a) /\ DOMAIN b = 1..Len(b)
      /\ a \o b \in Seq(S) /\ Len(a \o b) = Len(a) + Len(b)
      /\ \A i \in 1..Len(a) + Len(b) :
           (a \o b)[i] = IF i <= Len(a) THEN a[i] ELSE b[i - Len(a)]
  BY LenProperties, ConcatProperties
<1>2. DOMAIN (a \o b) = 1..Len(a) + Len(b)
  BY <1>1, LenProperties
<1>3. AtLeast(a \o b, v) = A \cup C /\ A \cap C = {}
  BY <1>1, <1>2 DEF AtLeast
<1>4. /\ IsFiniteSet(A) /\ IsFiniteSet(B)
      /\ Cardinality(A) \in Nat /\ Cardinality(B) \in Nat
  <2>1. A \subseteq 1..Len(a) /\ B \subseteq 1..Len(b)
    BY <1>1 DEF AtLeast
  <2> QED BY <1>1, <2>1, FirstOnes, FewerIn
<1>5. shift \in Bijection(B, C)
  <2>1. \A i \in B : i \in 1..Len(b) /\ i + Len(a) \in C
    BY <1>1, <1>2 DEF AtLeast
  <2>2. \A j \in C : j - Len(a) \in B /\ j - Len(a) + Len(a) = j
    BY <1>1, <1>2 DEF AtLeast
  <2>3. \A i, j \in B : shift[i] = shift[j] => i = j
    BY <1>1, <2>1
  <2>4. \A j \in C : \E i \in B : shift[i] = j
    BY <2>2
  <2>5. shift \in [B -> C]
    BY <2>1
  <2> QED BY <2>3, <2>4, <2>5 DEF Bijection, Injection, IsInjective, Surjection
<1> HIDE DEF A, B, C, shift
<1>6. IsFiniteSet(C) /\ Cardinality(C) = Cardinality(B)
  BY <1>4, <1>5, FS_Bijection, Fun_ExistsBij
<1>7. Cardinality(A \cup C) = Cardinality(A) + Cardinality(C)
  <2>1. Cardinality(A \cup C) = Cardinality(A) + Cardinality(C) - Cardinality(A \cap C)
    BY <1>4, <1>6, FS_Union
  <2>2. Cardinality(A \cap C) = 0
    BY <1>3, FS_EmptySet
  <2> QED BY <1>4, <1>6, <2>1, <2>2
<1> QED BY <1>3, <1>4, <1>6, <1>7 DEF A, B

Metered(s) == \A i \in 1..Len(s) : s[i].metric \in Int
BestOfBoth(t, a, b, k) ==
  /\ Len(t) = Fewer(k, Len(a) + Len(b)) /\ Metered(t) /\ Falling(t, Len(t))
  /\ \A v \in Int : Cardinality(AtLeast(t, v))
       = Fewer(k, Cardinality(AtLeast(a, v)) + Cardinality(AtLeast(b, v)))

(* A merge keeps the best of both, as many as fit.                         *)
LEMMA MergeKeepsBest ==
  ASSUME NEW S, NEW a \in Seq(S), NEW b \in Seq(S), NEW k \in Nat, Metered(a), Metered(b),
         NEW t \in Merged(a, b, k)
  PROVE  BestOfBoth(t, a, b, k)
<1> USE DEF Metered
<1>1. PICK c, n, s : c = a \o b /\ n = Len(a) + Len(b) /\ s = Ranked(c, TRUE)
  OBVIOUS
<1>2. /\ Len(a) \in Nat /\ Len(b) \in Nat
      /\ c \in Seq(S) /\ Len(c) = n /\ n \in Nat
      /\ \A i \in 1..n : c[i] = IF i <= Len(a) THEN a[i] ELSE b[i - Len(a)]
  BY <1>1, LenProperties, ConcatProperties
<1>3. DOMAIN c = 1..n /\ \A i \in 1..n : c[i] \in S
  BY <1>2, LenProperties
<1>4. ASSUME NEW i \in 1..n
      PROVE  c[i].metric \in Int
  <2>1. CASE i <= Len(a)
    BY <1>2, <2>1
  <2>2. CASE ~ i <= Len(a)
    <3>1. PICK j \in 1..Len(b) : j = i - Len(a)
      BY <1>1, <1>2, <2>2
    <3> QED BY <1>2, <2>2, <3>1
  <2> QED BY <2>1, <2>2
<1>5. Numbered(c, n) /\ Numbers(c)
  BY <1>3, <1>4, MetricAssumption DEF Numbered, Numbers
<1>6. t = First(s, k)
  BY <1>1, <1>5 DEF Merged, Orders
<1>7. Arranged(s, c, n) /\ Falling(s, n)
  BY <1>1, <1>2, <1>5, RankedSorts
<1>8. /\ s \in [1..n -> S]
      /\ \A i \in 1..n : s[i].metric \in Int
  <2>1. ASSUME NEW r \in 1..n
        PROVE  \E i \in 1..n : s[r] = c[i]
    BY <1>2, <1>7, ArrangedFrom
  <2>2. s \in [1..n -> S]
    BY <1>2, <1>3, <1>7, ArrangedIn
  <2> QED BY <1>4, <2>1, <2>2
<1>9. s \in Seq(S) /\ Len(s) = n
  BY <1>2, <1>8, FunctionsAreSeqs
<1>10. /\ t \in Seq(S) /\ Len(t) = Fewer(k, n)
       /\ \A i \in 1..Fewer(k, n) : t[i] = s[i]
       /\ Fewer(k, n) \in Nat /\ Fewer(k, n) <= n
  <2>1. /\ t \in Seq(S) /\ Len(t) = Fewer(k, Len(s))
        /\ \A i \in 1..Fewer(k, Len(s)) : t[i] = s[i]
        /\ Fewer(k, Len(s)) \in Nat /\ Fewer(k, Len(s)) <= Len(s)
    BY <1>6, <1>9, FirstFacts
  <2> QED BY <1>9, <2>1
<1>11. ASSUME NEW v \in Int
       PROVE  Cardinality(AtLeast(t, v))
                = Fewer(k, Cardinality(AtLeast(a, v)) + Cardinality(AtLeast(b, v)))
  <2>1. Cardinality(AtLeast(s, v)) = Cardinality(AtLeast(c, v))
    BY <1>2, <1>3, <1>7, ArrangedCount
  <2>2. Cardinality(AtLeast(c, v)) = Cardinality(AtLeast(a, v)) + Cardinality(AtLeast(b, v))
    BY <1>1, JoinedCount
  <2>3. Numbered(s, n) /\ Falling(s, n) /\ n \in Nat
    BY <1>2, <1>7, <1>8 DEF Numbered
  <2>4. Opening(t, s, k, n)
    BY <1>10, LenProperties DEF Opening
  <2>5. Cardinality(AtLeast(t, v)) = Fewer(k, Cardinality(AtLeast(s, v)))
    BY <2>3, <2>4, CutKeepsBest
  <2> QED BY <2>1, <2>2, <2>5
<1>12. \A i \in 1..Len(t) : t[i] = s[i] /\ i \in 1..n
  BY <1>2, <1>10
<1>13. Falling(t, Len(t))
  BY <1>7, <1>12 DEF Falling
<1> QED BY <1>1, <1>8, <1>10, <1>11, <1>12, <1>13 DEF BestOfBoth
-----------------------------------------------------------------------------
(* Evaluating                                                              *)

LEMMA ScoreFacts ==
  ASSUME NEW pack, NEW param, HasMetric(param), Score(pack, param) # Fails
  PROVE  Score(pack, param) \in Metric
<1>1. DOMAIN Stages = 1..4 /\ Stages[3] = "backtest" /\ Stages[4] = "performance"
      /\ Stages[1] # "performance" /\ Stages[2] # "performance" /\ Stages[3] # "performance"
  BY DEF Stages
<1>2. StageOf("performance") = 4
  BY <1>1 DEF StageOf
<1>3. "backtest" \in UpTo("performance")
  BY <1>1, <1>2 DEF UpTo
<1>4. Skipped(Evaluation) = {} /\ Evaluation.to = "performance"
  BY DEF Skipped, Evaluation
<1>5. Executes(pack, param, Evaluation)
  BY DEF Score
<1>6. param["backtest"] # Fails
  BY <1>3, <1>4, <1>5 DEF Executes
<1>7. param["backtest"].score \in Metric
  BY <1>6 DEF HasMetric
<1>8. Artifact(pack, param, Evaluation, "performance") = Analyzed(pack, param["backtest"])
  BY <1>4 DEF Artifact, ComputedBacktest
<1>9. Score(pack, param) = IF Analyzed(pack, param["backtest"]).counted
                           THEN Analyzed(pack, param["backtest"]).score ELSE 0
  BY <1>5, <1>8 DEF Score
<1>10. 0 \in Metric /\ Idle \in Metric
  BY MetricAssumption DEF Metric
<1>11. Analyzed(pack, param["backtest"]).counted =>
         Analyzed(pack, param["backtest"]).score \in {Idle, param["backtest"].score}
  BY DEF Analyzed
<1> QED BY <1>7, <1>9, <1>10, <1>11

(* What a search may draw is evaluated to this.                            *)
Sample(c) ==
  {s \in [values : Tuples(Spread(c)), metric : Metric] :
     s.metric = Score(c.pack, c.params[Applied(c.dims, s.values)])}

Searches == call \in Calls /\ call.entry # "batch" /\ ~ Refused(call)

LEMMA EvaluatedFacts ==
  ASSUME Searches, NEW n \in Nat, NEW drawn \in [1..n -> Tuples(Spread(call))]
  PROVE  /\ DOMAIN Evaluated(drawn) = 1..n
         /\ \A i \in 1..n : /\ Evaluated(drawn)[i].metric = MetricOf(drawn[i])
                            /\ MetricOf(drawn[i]) # Fails => Evaluated(drawn)[i] \in Sample(call)
<1>1. DOMAIN Evaluated(drawn) = 1..n
  BY DEF Evaluated
<1>2. \A i \in 1..n : Evaluated(drawn)[i] = [values |-> drawn[i], metric |-> MetricOf(drawn[i])]
  BY DEF Evaluated
<1>3. ASSUME NEW i \in 1..n, MetricOf(drawn[i]) # Fails
      PROVE  Evaluated(drawn)[i] \in Sample(call)
  <2>1. drawn[i] \in Tuples(Spread(call))
    OBVIOUS
  <2>2. HasMetric(call.params[Applied(call.dims, drawn[i])])
    BY <2>1, CallAssumption DEF Searches
  <2>3. MetricOf(drawn[i]) \in Metric
    <3>1. PICK param : param = call.params[Applied(call.dims, drawn[i])]
      OBVIOUS
    <3>2. MetricOf(drawn[i]) = Score(call.pack, param)
      BY <3>1 DEF MetricOf
    <3>3. HasMetric(param) /\ Score(call.pack, param) # Fails
      BY <1>3, <2>2, <3>1, <3>2
    <3>4. Score(call.pack, param) \in Metric
      BY <3>3, ScoreFacts
    <3> QED BY <3>2, <3>4
  <2>4. PICK s : s = Evaluated(drawn)[i]
    OBVIOUS
  <2>5. s = [values |-> drawn[i], metric |-> MetricOf(drawn[i])]
    BY <1>2, <2>4
  <2>6. s.values = drawn[i] /\ s.metric = MetricOf(drawn[i])
    BY <2>5
  <2>7. s \in [values : Tuples(Spread(call)), metric : Metric]
    BY <2>1, <2>3, <2>5
  <2>8. s.metric = Score(call.pack, call.params[Applied(call.dims, s.values)])
    BY <2>6 DEF MetricOf
  <2>9. s \in Sample(call)
    BY <2>7, <2>8 DEF Sample
  <2> QED BY <2>4, <2>9
<1> QED BY <1>1, <1>2, <1>3

LEMMA OptimizerFacts ==
  ASSUME Searches, call.entry = "optimize"
  PROVE  /\ call.config.n \in Nat /\ call.config.n > 0
         /\ call.config.explore \in 0..100
         /\ Spread(call) = Inside(call.dims)
         /\ Exploring \in 0..call.config.n
         /\ history = <<>> => Exploring = call.config.n
<1>1. ConfigOK(call)
  BY DEF Searches, Refused
<1>2. /\ call.config.explore \in 0..100 /\ call.config.n > 0
  BY <1>1 DEF ConfigOK
<1>3. call.config.n \in Nat
  BY CallAssumption DEF Searches
<1>4. ASSUME NEW n \in Nat, NEW e \in 0..100
      PROVE  (n * e) \div 100 \in 0..n
  <2>1. PICK x \in Nat : x = n * e
    OBVIOUS
  <2>2. x <= n * 100
    BY <2>1
  <2>3. x \div 100 \in 0..n
    BY <2>2
  <2> QED BY <2>1, <2>3
<1>5. Exploring \in 0..call.config.n
  <2>1. (call.config.n * call.config.explore) \div 100 \in 0..call.config.n
    BY <1>2, <1>3, <1>4
  <2> QED BY <1>3, <2>1 DEF Exploring
<1> QED BY <1>2, <1>3, <1>5 DEF Exploring, Spread

(* Every round draws its n samples, from the sets they are to be in.       *)
LEMMA DrawnFacts ==
  ASSUME Searches, call.entry = "optimize", top = <<>> <=> history = <<>>, NEW drawn \in Drawn
  PROVE  drawn \in [1..call.config.n -> Tuples(Spread(call))]
<1> DEFINE T == Tuples(Spread(call))
<1>1. PICK n, e :
        /\ n = call.config.n /\ e = Exploring /\ (history = <<>> => e = n)
        /\ n \in Nat /\ e \in 0..n /\ T = Tuples(Inside(call.dims))
  BY OptimizerFacts
<1> DEFINE A == Hypercube(call.dims, Exploring)
           B == IF top = <<>> THEN {<<>>} ELSE Around(call.dims, call.config.n - Exploring)
<1>2. drawn \in {x \o y : x \in A, y \in B}
  BY DEF Drawn
<1>3. /\ A = Hypercube(call.dims, e)
      /\ B = IF top = <<>> THEN {<<>>} ELSE Around(call.dims, n - e)
  BY <1>1
<1> HIDE DEF A, B
<1>4. PICK a \in A, b \in B : drawn = a \o b
  BY <1>2
<1>5. a \in [1..e -> T]
  BY <1>1, <1>3 DEF Hypercube
<1>6. top # <<>> => b \in [1..n - e -> T]
  BY <1>1, <1>3 DEF Around
<1> HIDE DEF T
<1>7. a \in Seq(T) /\ Len(a) = e
  BY <1>1, <1>5, FunctionsAreSeqs
<1>8. b \in Seq(T) /\ Len(b) = n - e
  <2>1. CASE top = <<>>
    <3>1. b = <<>> /\ n - e = 0
      BY <1>1, <1>3, <2>1
    <3> QED BY <3>1, EmptySeq
  <2>2. CASE top # <<>>
    <3>1. PICK m \in Nat : m = n - e
      BY <1>1
    <3>2. b \in [1..m -> T]
      BY <1>6, <2>2, <3>1
    <3>3. b \in Seq(T) /\ Len(b) = m
      BY <3>2, FunctionsAreSeqs
    <3> QED BY <3>1, <3>3
  <2> QED BY <2>1, <2>2
<1>9. drawn \in Seq(T) /\ Len(drawn) = n
  <2>1. a \o b \in Seq(T) /\ Len(a \o b) = Len(a) + Len(b)
    BY <1>7, <1>8, ConcatProperties
  <2> QED BY <1>1, <1>4, <1>7, <1>8, <2>1
<1>10. drawn \in [1..n -> T]
  BY <1>9, LenProperties
<1> QED BY <1>1, <1>10 DEF T

(* A merge is as long as fits, whatever the metrics are.                   *)
LEMMA MergedFacts ==
  ASSUME NEW S, \A x \in S : x.metric \in Metric, NEW a \in Seq(S), NEW b \in Seq(S), NEW k \in Nat,
         NEW t \in Merged(a, b, k)
  PROVE  t \in Seq(S) /\ Len(t) = Fewer(k, Len(a) + Len(b))
<1>1. PICK c, n : c = a \o b /\ n = Len(a) + Len(b)
  OBVIOUS
<1>2. c \in Seq(S) /\ Len(c) = n /\ n \in Nat
  BY <1>1, LenProperties, ConcatProperties
<1>3. DOMAIN c = 1..n /\ \A i \in 1..n : c[i] \in S
  BY <1>2, LenProperties
<1>4. \A i \in 1..n : c[i].metric \in Metric
  BY <1>3
<1>5. PICK s \in Orders(c, TRUE) : t = First(s, k)
  BY <1>1 DEF Merged
<1>6. PICK up \in BOOLEAN : up = TRUE
  OBVIOUS
<1>7. Arranged(s, c, n)
  <2>1. s \in Orders(c, up)
    BY <1>6
  <2> QED BY <1>2, <1>3, <1>4, <2>1, OrdersArrange
<1>8. s \in [1..n -> S]
  BY <1>2, <1>3, <1>7, ArrangedIn
<1>9. s \in Seq(S) /\ Len(s) = n
  BY <1>2, <1>8, FunctionsAreSeqs
<1>10. First(s, k) \in Seq(S) /\ Len(First(s, k)) = Fewer(k, Len(s))
  BY <1>9, FirstFacts
<1> QED BY <1>1, <1>5, <1>9, <1>10

(* The samples of a round.                                                 *)
LEMMA RoundFacts ==
  ASSUME Searches, call.entry = "optimize",
         NEW drawn \in [1..call.config.n -> Tuples(Spread(call))],
         \A i \in DOMAIN drawn : MetricOf(drawn[i]) # Fails,
         NEW samples \in Orders(Evaluated(drawn), TRUE)
  PROVE  /\ samples \in [1..call.config.n -> Sample(call)]
         /\ samples \in Seq(Sample(call)) /\ Len(samples) = call.config.n
         /\ Numbers(samples) => Falling(samples, call.config.n)
<1> PICK up \in BOOLEAN : up = TRUE
  OBVIOUS
<1> PICK n \in Nat : n = call.config.n
  BY OptimizerFacts
<1>1. PICK c, S : n = call.config.n /\ c = Evaluated(drawn) /\ S = Sample(call)
  OBVIOUS
<1>2. DOMAIN c = 1..n /\ \A i \in 1..n : c[i] \in S
  BY <1>1, EvaluatedFacts
<1>3. \A i \in 1..n : c[i].metric \in Metric
  BY <1>1, <1>2 DEF Sample
<1>4. samples \in Orders(c, up)
  BY <1>1
<1>5. /\ Arranged(samples, c, n) /\ (Numbers(samples) <=> Numbers(c))
      /\ (Numbers(c) /\ up => Falling(samples, n))
  BY <1>2, <1>3, <1>4, OrdersArrange
<1>6. samples \in [1..n -> S]
  BY <1>2, <1>5, ArrangedIn
<1>7. samples \in Seq(S) /\ Len(samples) = n
  BY <1>6, FunctionsAreSeqs
<1> QED BY <1>1, <1>5, <1>6, <1>7
-----------------------------------------------------------------------------
(* The invariant of the optimizer                                          *)

RoundSet(c) == [best : Int \cup {Nothing}, samples : [1..c.config.n -> Sample(c)]]

Kinds ==
  /\ history \in Seq(RoundSet(call)) /\ top \in Seq(Sample(call))
  /\ best \in Sample(call) \cup {Nothing} /\ highest \in Int \cup {Nothing}
  /\ best = Nothing <=> history = <<>>
  /\ top = <<>> <=> history = <<>>
  /\ highest = IF history = <<>> THEN Nothing ELSE history[Len(history)].best
Legal == (phase \in {"running", "done"} \/ history # <<>>) => ~ Refused(call)

(* The first sample of a round.                                            *)
Leader(h, r) == h[r].samples[1].metric
Heads ==
  history # <<>> =>
    /\ best.metric = NaN <=> Leader(history, 1) = NaN
    /\ \A r \in 1..Len(history) : Leader(history, r) # NaN =>
         highest \in Int /\ Leader(history, r) <= highest
    /\ best.metric # NaN => best.metric = highest
Sorts ==
  \A r \in 1..Len(history) :
    Numbers(history[r].samples) => Falling(history[r].samples, call.config.n)

(* What a round records is the best leader so far.                         *)
Numeric(h) == \A r \in 1..Len(h) : Numbers(h[r].samples)
Peak(h, r) ==
  /\ h[r].best \in Int /\ \A q \in 1..r : Leader(h, q) <= h[r].best
  /\ \E q \in 1..r : Leader(h, q) = h[r].best
Peaks == Numeric(history) => \A r \in 1..Len(history) : Peak(history, r)

StalledAt(h, m, patience) == m > patience /\ ~ Exceeds(h[m].best, h[m - patience].best)
Overdue(c, h, m) == c.config.n * m >= c.config.minSamples /\ StalledAt(h, m, c.config.patience)
Goes == \A m \in 1..Len(history) - 1 : ~ Overdue(call, history, m)
Budget == history # <<>> => Total < call.config.maxSamples + call.config.n

Finished ==
  phase = "done" =>
    /\ Stops /\ best # Nothing
    /\ answer.values = Applied(call.dims, best.values) /\ answer.metric = best.metric

SearchInv ==
  /\ call \in Calls
  /\ call.entry = "optimize" =>
       Legal /\ Kinds /\ Heads /\ Sorts /\ Peaks /\ Goes /\ Budget /\ Finished

LEMMA SearchInit == Init => SearchInv
<1> SUFFICES ASSUME Init
             PROVE  SearchInv
  OBVIOUS
<1>1. /\ call \in Calls /\ phase = (IF Refused(call) THEN "error" ELSE "running")
      /\ history = <<>> /\ top = <<>> /\ best = Nothing /\ highest = Nothing
  BY DEF Init
<1>2. Len(history) = 0 /\ 1..0 = {} /\ 1..0 - 1 = {}
  BY <1>1
<1>3. Legal /\ Kinds /\ Finished
  BY <1>1 DEF Legal, Kinds, Finished
<1>4. Heads /\ Budget
  BY <1>1 DEF Heads, Budget
<1>5. Sorts /\ Peaks /\ Goes
  BY <1>2 DEF Sorts, Peaks, Goes
<1> QED BY <1>1, <1>3, <1>4, <1>5 DEF SearchInv

(* What a round makes of the state.                                        *)
Made(samples) ==
  /\ Searches /\ call.entry = "optimize" /\ call' = call /\ ~ Stops
  /\ phase = "running" /\ phase' = phase
  /\ samples \in [1..call.config.n -> Sample(call)]
  /\ samples \in Seq(Sample(call)) /\ Len(samples) = call.config.n
  /\ Numbers(samples) => Falling(samples, call.config.n)
  /\ samples[1] \in Sample(call)
  /\ top' \in Merged(top, samples, KeptCount)
  /\ best' = BestOf(samples[1])
  /\ highest' = HighestOf(samples[1])
  /\ history' = Append(history, [best |-> highest', samples |-> samples])

LEMMA RoundMakes ==
  ASSUME SearchInv, Round
  PROVE  \E samples : Made(samples)
<1>1. Entry("optimize") /\ ~ Stops /\ UNCHANGED <<call, phase, jobs, answer>>
  BY DEF Round
<1>2. PICK drawn \in Drawn :
        /\ \A i \in DOMAIN drawn : MetricOf(drawn[i]) # Fails
        /\ \E samples \in Orders(Evaluated(drawn), TRUE) :
             /\ top' \in Merged(top, samples, KeptCount)
             /\ best' = BestOf(samples[1])
             /\ highest' = HighestOf(samples[1])
             /\ history' = Append(history, [best |-> highest', samples |-> samples])
  BY Zenon DEF Round
<1>3. PICK samples \in Orders(Evaluated(drawn), TRUE) :
        /\ top' \in Merged(top, samples, KeptCount)
        /\ best' = BestOf(samples[1])
        /\ highest' = HighestOf(samples[1])
        /\ history' = Append(history, [best |-> highest', samples |-> samples])
  BY <1>2
<1>4. /\ call.entry = "optimize" /\ phase = "running"
  BY <1>1 DEF Entry
<1>5. Searches /\ (top = <<>> <=> history = <<>>)
  BY <1>4 DEF SearchInv, Legal, Kinds, Searches
<1>6. drawn \in [1..call.config.n -> Tuples(Spread(call))]
  BY <1>4, <1>5, DrawnFacts
<1>7. /\ samples \in [1..call.config.n -> Sample(call)]
      /\ samples \in Seq(Sample(call)) /\ Len(samples) = call.config.n
      /\ Numbers(samples) => Falling(samples, call.config.n)
  BY <1>2, <1>4, <1>5, <1>6, RoundFacts
<1>8. samples[1] \in Sample(call)
  <2>1. 1 \in 1..call.config.n
    BY <1>4, <1>5, OptimizerFacts
  <2> QED BY <1>7, <2>1
<1>9. Made(samples)
  BY <1>1, <1>3, <1>4, <1>5, <1>7, <1>8 DEF Made
<1> QED BY <1>9

LEMMA OutcomeFacts ==
  Fails \notin Metric /\ Nothing \notin Metric /\ NaN \notin Int /\ Nothing \notin Int /\ NaN # Nothing
  /\ Int \subseteq Metric /\ NaN \in Metric
BY OutcomeAssumption, MetricAssumption DEF Metric

LEMMA MadeFacts ==
  ASSUME SearchInv, NEW samples, Made(samples)
  PROVE  /\ Len(history) \in Nat /\ Len(history') = Len(history) + 1
         /\ \A r \in 1..Len(history) : history'[r] = history[r]
         /\ history'[Len(history) + 1] = [best |-> highest', samples |-> samples]
         /\ highest' \in Int \cup {Nothing} /\ best' \in Sample(call)
         /\ history' \in Seq(RoundSet(call)) /\ history' # <<>>
         /\ samples[1].metric \in Metric
<1>1. /\ history \in Seq(RoundSet(call))
      /\ best \in Sample(call) \cup {Nothing} /\ highest \in Int \cup {Nothing}
  BY DEF Made, SearchInv, Kinds
<1>2. /\ samples[1] \in Sample(call) /\ samples[1].metric \in Metric
      /\ samples \in [1..call.config.n -> Sample(call)]
  BY DEF Made, Sample
<1>3. best' \in Sample(call)
  BY <1>1, <1>2 DEF Made, BestOf
<1>4. highest' \in Int \cup {Nothing}
  BY <1>1, <1>2 DEF Made, HighestOf, Exceeds, Metric
<1>5. [best |-> highest', samples |-> samples] \in RoundSet(call)
  BY <1>2, <1>4 DEF RoundSet
<1>6. /\ history' \in Seq(RoundSet(call)) /\ Len(history') = Len(history) + 1
      /\ \A r \in 1..Len(history) : history'[r] = history[r]
      /\ history'[Len(history) + 1] = [best |-> highest', samples |-> samples]
  BY <1>1, <1>5, AppendProperties DEF Made
<1>7. Len(history) \in Nat
  BY <1>1, LenProperties
<1>8. history' # <<>>
  BY <1>6, <1>7
<1> QED BY <1>2, <1>3, <1>4, <1>6, <1>7, <1>8

LEMMA KeptCountFacts ==
  ASSUME call \in Calls, call.entry = "optimize"
  PROVE  /\ KeptCount \in Nat /\ KeptCount > 0
         /\ call.config.n \in Nat /\ call.config.maxSamples \in Nat /\ call.config.minSamples \in Nat
         /\ call.config.patience \in Nat /\ call.config.maxRounds \in Nat
<1>1. /\ call.config.n \in Nat /\ call.config.topK \in Nat
      /\ call.config.maxSamples \in Nat /\ call.config.minSamples \in Nat
      /\ call.config.patience \in Nat /\ call.config.maxRounds \in Nat
  BY CallAssumption
<1>2. PICK x \in Nat : x = call.config.n * call.config.topK
  BY <1>1
<1>3. KeptCount = IF x \div 100 > 0 THEN x \div 100 ELSE 1
  BY <1>2 DEF KeptCount
<1>4. x \div 100 \in Nat
  OBVIOUS
<1> QED BY <1>1, <1>3, <1>4

LEMMA KindsKept ==
  ASSUME SearchInv, NEW samples, Made(samples)
  PROVE  Kinds'
<1>1. /\ history' \in Seq(RoundSet(call)) /\ history' # <<>> /\ Len(history') = Len(history) + 1
      /\ history'[Len(history) + 1] = [best |-> highest', samples |-> samples]
      /\ highest' \in Int \cup {Nothing} /\ best' \in Sample(call)
  BY MadeFacts
<1>2. top \in Seq(Sample(call)) /\ call \in Calls /\ call.entry = "optimize"
  BY DEF Made, SearchInv, Kinds
<1>3. /\ samples \in Seq(Sample(call)) /\ Len(samples) = call.config.n /\ call.config.n > 0
      /\ top' \in Merged(top, samples, KeptCount)
  BY OptimizerFacts DEF Made
<1>4. \A x \in Sample(call) : x.metric \in Metric
  BY DEF Sample
<1>5. KeptCount \in Nat /\ KeptCount > 0 /\ call.config.n \in Nat
  BY <1>2, KeptCountFacts
<1>6. top' \in Seq(Sample(call)) /\ Len(top') = Fewer(KeptCount, Len(top) + Len(samples))
  <2>1. PICK S, k, t : S = Sample(call) /\ k = KeptCount /\ t = top'
    OBVIOUS
  <2>2. /\ top \in Seq(S) /\ samples \in Seq(S) /\ k \in Nat /\ t \in Merged(top, samples, k)
        /\ \A x \in S : x.metric \in Metric
    BY <1>2, <1>3, <1>4, <1>5, <2>1
  <2>3. t \in Seq(S) /\ Len(t) = Fewer(k, Len(top) + Len(samples))
    BY <2>2, MergedFacts
  <2> QED BY <2>1, <2>3
<1>7. Len(top') > 0
  BY <1>2, <1>3, <1>5, <1>6, LenProperties DEF Fewer
<1>8. top' # <<>>
  BY <1>7
<1>9. best' # Nothing
  <2>1. Nothing \notin [values : Tuples(Spread(call)), metric : Metric]
    BY <1>2, CallAssumption DEF Made, Searches
  <2>2. \A x \in Sample(call) : x \in [values : Tuples(Spread(call)), metric : Metric]
    BY DEF Sample
  <2> QED BY <1>1, <2>1, <2>2
<1>10. call' = call
  BY DEF Made
<1>11. history'[Len(history')].best = highest'
  BY <1>1
<1> QED BY <1>1, <1>6, <1>8, <1>9, <1>10, <1>11 DEF Kinds

(* The samples of a round have metrics.                                    *)
LEMMA RoundMetrics ==
  ASSUME call \in Calls, call.entry = "optimize", history \in Seq(RoundSet(call)),
         ~ Refused(call), NEW r \in 1..Len(history)
  PROVE  /\ history[r].samples \in [1..call.config.n -> Sample(call)]
         /\ DOMAIN history[r].samples = 1..call.config.n
         /\ \A i \in 1..call.config.n : history[r].samples[i].metric \in Metric
         /\ Leader(history, r) \in Metric /\ history[r].best \in Int \cup {Nothing}
<1>1. history[r] \in RoundSet(call)
  BY LenProperties
<1>2. /\ history[r].samples \in [1..call.config.n -> Sample(call)]
      /\ history[r].best \in Int \cup {Nothing}
  BY <1>1 DEF RoundSet
<1>3. \A i \in 1..call.config.n : history[r].samples[i].metric \in Metric
  BY <1>2 DEF Sample
<1>4. 1 \in 1..call.config.n
  BY OptimizerFacts DEF Searches
<1> QED BY <1>2, <1>3, <1>4 DEF Leader

LEMMA NumericLeader ==
  ASSUME call \in Calls, call.entry = "optimize", history \in Seq(RoundSet(call)),
         ~ Refused(call), Numeric(history), NEW r \in 1..Len(history)
  PROVE  /\ Leader(history, r) \in Int
         /\ \A i \in 1..call.config.n : history[r].samples[i].metric \in Int
<1>1. /\ DOMAIN history[r].samples = 1..call.config.n
      /\ \A i \in 1..call.config.n : history[r].samples[i].metric \in Metric
  BY RoundMetrics
<1>2. \A i \in 1..call.config.n : history[r].samples[i].metric \in Int
  BY <1>1 DEF Numeric, Numbers, Metric
<1>3. 1 \in 1..call.config.n
  BY OptimizerFacts DEF Searches
<1> QED BY <1>2, <1>3 DEF Leader

LEMMA LeadersKept ==
  ASSUME SearchInv, NEW samples, Made(samples)
  PROVE  /\ \A r \in 1..Len(history) : Leader(history', r) = Leader(history, r)
         /\ Leader(history', Len(history) + 1) = samples[1].metric
<1> DEFINE round == history'[Len(history) + 1]
<1>1. /\ round = [best |-> highest', samples |-> samples]
      /\ \A r \in 1..Len(history) : history'[r] = history[r]
  BY MadeFacts
<1>2. round.samples = samples
  BY <1>1
<1>3. Leader(history', Len(history) + 1) = samples[1].metric
  BY <1>2 DEF Leader
<1>4. \A r \in 1..Len(history) : Leader(history', r) = Leader(history, r)
  BY <1>1 DEF Leader
<1> QED BY <1>3, <1>4

LEMMA HeadsKept ==
  ASSUME SearchInv, NEW samples, Made(samples)
  PROVE  Heads'
<1> DEFINE x == samples[1].metric
           L == Len(history)
<1>1. /\ L \in Nat /\ Len(history') = L + 1 /\ history' # <<>>
      /\ x \in Int \cup {NaN} /\ highest' \in Int \cup {Nothing}
  BY MadeFacts DEF Metric
<1>2. /\ \A r \in 1..L : Leader(history', r) = Leader(history, r)
      /\ Leader(history', L + 1) = x
  BY LeadersKept
<1>3. /\ highest \in Int \cup {Nothing} /\ history \in Seq(RoundSet(call))
      /\ best = Nothing <=> history = <<>>
      /\ history = <<>> => highest = Nothing
      /\ best \in Sample(call) \cup {Nothing} /\ Heads
  BY DEF Made, SearchInv, Kinds
<1>4. /\ best' = IF best = Nothing \/ Exceeds(x, best.metric) THEN samples[1] ELSE best
      /\ highest' = IF Exceeds(x, highest) THEN x ELSE highest
  BY DEF Made, BestOf, HighestOf
<1>5. history # <<>> => best.metric \in Int \cup {NaN}
  BY <1>3 DEF Sample, Metric
<1>6. best'.metric = IF history = <<>> \/ Exceeds(x, best.metric) THEN x ELSE best.metric
  BY <1>3, <1>4
<1> HIDE DEF x
<1>7. CASE history = <<>>
  <2>1. L = 0
    BY <1>7
  <2>2. best'.metric = x /\ Leader(history', 1) = x
    BY <1>2, <1>6, <1>7, <2>1
  <2>3. x # NaN => highest' = x
    BY <1>3, <1>4, <1>7, OutcomeFacts, <1>1 DEF Exceeds
  <2>4. ASSUME NEW r \in 1..L + 1, Leader(history', r) # NaN
        PROVE  highest' \in Int /\ Leader(history', r) <= highest'
    <3>1. r = 1
      BY <2>1
    <3> QED BY <1>1, <2>2, <2>3, <2>4, <3>1
  <2> QED BY <1>1, <2>2, <2>3, <2>4 DEF Heads
<1>8. CASE history # <<>>
  <2>1. /\ best.metric = NaN <=> Leader(history, 1) = NaN
        /\ \A r \in 1..L : Leader(history, r) # NaN => highest \in Int /\ Leader(history, r) <= highest
        /\ best.metric # NaN => best.metric = highest
    BY <1>3, <1>8 DEF Heads
  <2>2. L >= 1
    BY <1>3, <1>8, EmptySeq, LenProperties
  <2>3. Leader(history', 1) = Leader(history, 1)
    BY <1>1, <1>2, <2>2
  <2>4. best'.metric = NaN <=> best.metric = NaN
    BY <1>6, <1>8, OutcomeFacts DEF Exceeds
  <2>5. best'.metric # NaN => best'.metric = highest'
    BY <1>1, <1>3, <1>4, <1>5, <1>6, <1>8, <2>1, <2>4, OutcomeFacts DEF Exceeds
  <2>6. ASSUME NEW v \in Int, highest \in Int, v <= highest
        PROVE  highest' \in Int /\ v <= highest'
    BY <1>1, <1>4, <2>6, OutcomeFacts DEF Exceeds
  <2>7. x # NaN => highest' \in Int /\ x <= highest'
    BY <1>1, <1>3, <1>4, OutcomeFacts DEF Exceeds
  <2>8. ASSUME NEW r \in 1..L + 1, Leader(history', r) # NaN
        PROVE  highest' \in Int /\ Leader(history', r) <= highest'
    <3>1. CASE r \in 1..L
      <4>1. PICK v : v = Leader(history, r)
        OBVIOUS
      <4>2. highest \in Int /\ v <= highest /\ Leader(history', r) = v /\ v # NaN
        BY <1>2, <2>1, <2>8, <3>1, <4>1
      <4>3. v \in Metric
        BY <1>3, <3>1, <4>1, RoundMetrics DEF Made, Searches
      <4> QED BY <2>6, <4>2, <4>3 DEF Metric
    <3>2. CASE r = L + 1
      BY <1>2, <2>7, <2>8, <3>2
    <3> QED BY <1>1, <3>1, <3>2
  <2> QED BY <1>1, <2>1, <2>3, <2>4, <2>5, <2>8 DEF Heads
<1> QED BY <1>7, <1>8

LEMMA SortsKept ==
  ASSUME SearchInv, NEW samples, Made(samples)
  PROVE  Sorts'
<1> DEFINE round == history'[Len(history) + 1]
<1>1. /\ Len(history) \in Nat /\ Len(history') = Len(history) + 1
      /\ \A r \in 1..Len(history) : history'[r] = history[r]
      /\ round = [best |-> highest', samples |-> samples]
  BY MadeFacts
<1>2. round.samples = samples
  BY <1>1
<1>3. /\ Numbers(samples) => Falling(samples, call.config.n)
      /\ Sorts /\ call' = call
  BY DEF Made, SearchInv
<1>4. \A r \in 1..Len(history) :
        Numbers(history'[r].samples) => Falling(history'[r].samples, call.config.n)
  BY <1>1, <1>3 DEF Sorts
<1>5. Numbers(round.samples) => Falling(round.samples, call.config.n)
  BY <1>2, <1>3
<1> HIDE DEF round
<1>6. ASSUME NEW r \in 1..Len(history) + 1, r \notin 1..Len(history)
      PROVE  history'[r] = round
  <2>1. r = Len(history) + 1
    BY <1>1, <1>6
  <2> QED BY <2>1 DEF round
<1>7. ASSUME NEW r \in 1..Len(history) + 1, Numbers(history'[r].samples)
      PROVE  Falling(history'[r].samples, call.config.n)
  BY <1>4, <1>5, <1>6, <1>7
<1> QED BY <1>1, <1>3, <1>7 DEF Sorts

LEMMA PeaksKept ==
  ASSUME SearchInv, NEW samples, Made(samples), Numeric(history')
  PROVE  \A r \in 1..Len(history') : Peak(history', r)
<1> DEFINE x == samples[1].metric
           L == Len(history)
           round == history'[L + 1]
<1>1. /\ L \in Nat /\ Len(history') = L + 1
      /\ \A r \in 1..L : history'[r] = history[r]
      /\ round = [best |-> highest', samples |-> samples] /\ x \in Int \cup {NaN}
  BY MadeFacts DEF Metric
<1>2. round.samples = samples /\ round.best = highest'
  BY <1>1
<1>3. /\ \A r \in 1..L : Leader(history', r) = Leader(history, r)
      /\ Leader(history', L + 1) = x
  BY LeadersKept
<1>4. Numeric(history)
  BY <1>1 DEF Numeric
<1>5. \A r \in 1..L : Peak(history, r)
  BY <1>4 DEF Made, SearchInv, Peaks
<1>6. x \in Int
  <2>1. Numbers(round.samples)
    BY <1>1 DEF Numeric
  <2>2. 1 \in DOMAIN samples
    BY OptimizerFacts DEF Made
  <2> QED BY <1>1, <1>2, <2>1, <2>2 DEF Numbers
<1>7. /\ highest = IF history = <<>> THEN Nothing ELSE history[L].best
      /\ history \in Seq(RoundSet(call)) /\ highest' = IF Exceeds(x, highest) THEN x ELSE highest
  BY DEF Made, SearchInv, Kinds, HighestOf
<1> HIDE DEF x, round
<1>8. ASSUME NEW r \in 1..L
      PROVE  Peak(history', r)
  BY <1>1, <1>3, <1>5 DEF Peak
<1>9. Peak(history', L + 1)
  <2>1. history'[L + 1].best = highest'
    BY <1>2 DEF round
  <2>2. CASE history = <<>>
    <3>1. L = 0
      BY <2>2
    <3>2. highest' = x
      BY <1>6, <1>7, <2>2, OutcomeFacts DEF Exceeds
    <3> QED BY <1>3, <1>6, <2>1, <3>1, <3>2 DEF Peak
  <2>3. CASE history # <<>>
    <3>1. L >= 1
      BY <1>7, <2>3, EmptySeq, LenProperties
    <3>2. /\ highest \in Int /\ \A q \in 1..L : Leader(history, q) <= highest
          /\ \E q \in 1..L : Leader(history, q) = highest
      BY <1>1, <1>5, <1>7, <2>3, <3>1 DEF Peak
    <3>3. highest' = IF x > highest THEN x ELSE highest
      BY <1>6, <1>7, <3>2, OutcomeFacts DEF Exceeds
    <3>4. highest' \in Int /\ highest <= highest' /\ x <= highest' /\ highest' \in {x, highest}
      BY <1>6, <3>2, <3>3
    <3>5. ASSUME NEW q \in 1..L + 1
          PROVE  Leader(history', q) <= highest'
      <4>1. CASE q \in 1..L
        <5>1. PICK v : v = Leader(history, q)
          OBVIOUS
        <5>2. Leader(history', q) = v /\ v <= highest /\ v \in Metric
          BY <1>3, <1>7, <3>2, <4>1, <5>1, RoundMetrics DEF Made, Searches
        <5>3. v \in Int
          BY <1>4, <1>7, <4>1, <5>1, NumericLeader DEF Made, Searches
        <5> QED BY <3>2, <3>4, <5>2, <5>3
      <4>2. CASE q = L + 1
        BY <1>3, <3>4, <4>2
      <4> QED BY <1>1, <4>1, <4>2
    <3>6. \E q \in 1..L + 1 : Leader(history', q) = highest'
      <4>1. CASE highest' = x
        BY <1>1, <1>3, <4>1
      <4>2. CASE highest' = highest
        BY <1>1, <1>3, <3>2, <4>2
      <4> QED BY <3>4, <4>1, <4>2
    <3> QED BY <2>1, <3>4, <3>5, <3>6 DEF Peak
  <2> QED BY <2>2, <2>3
<1>10. ASSUME NEW r \in 1..L + 1
       PROVE  Peak(history', r)
  <2>1. r \in 1..L \/ r = L + 1
    BY <1>1
  <2> QED BY <1>8, <1>9, <2>1
<1> QED BY <1>1, <1>10

LEMMA OneMore ==
  ASSUME NEW a \in Nat, NEW b \in Nat
  PROVE  a * (b + 1) = a * b + a /\ a * b \in Nat
OBVIOUS

(* A round is begun only while nothing stops the search.                   *)
LEMMA GoesKept ==
  ASSUME SearchInv, NEW samples, Made(samples)
  PROVE  Goes' /\ Budget'
<1> DEFINE L == Len(history)
<1>1. /\ L \in Nat /\ Len(history') = L + 1 /\ \A r \in 1..L : history'[r] = history[r]
      /\ history \in Seq(RoundSet(call))
  BY MadeFacts DEF Made, SearchInv, Kinds
<1>2. /\ call' = call /\ ~ Stops /\ call \in Calls /\ call.entry = "optimize" /\ Goes
  BY DEF Made, SearchInv
<1>3. PICK n \in Nat, patience \in Nat, most \in Nat :
        /\ n = call.config.n /\ patience = call.config.patience
        /\ most = call.config.maxSamples
  BY <1>2, KeptCountFacts
<1>4. ASSUME NEW m \in 1..L
      PROVE  ~ Overdue(call, history, m)
  <2>1. CASE m \in 1..L - 1
    BY <1>2, <2>1 DEF Goes
  <2>2. CASE m = L
    <3>1. history # <<>>
      BY <2>2
    <3>2. Overdue(call, history, L) => Stops
      BY <3>1 DEF Overdue, StalledAt, Stops, Stalled, Total
    <3> QED BY <1>2, <2>2, <3>2
  <2> QED BY <1>1, <2>1, <2>2
<1>5. ASSUME NEW m \in 1..L, Overdue(call, history', m)
      PROVE  FALSE
  <2>1. m > patience /\ ~ Exceeds(history'[m].best, history'[m - patience].best)
    BY <1>3, <1>5 DEF Overdue, StalledAt
  <2>2. m - patience \in 1..L
    BY <1>1, <1>3, <2>1
  <2>3. history'[m] = history[m] /\ history'[m - patience] = history[m - patience]
    BY <1>1, <2>2
  <2>4. StalledAt(history, m, call.config.patience)
    BY <1>3, <2>1, <2>3 DEF StalledAt
  <2> QED BY <1>4, <1>5, <2>4 DEF Overdue
<1>6. Goes'
  <2>1. Len(history') - 1 = L
    BY <1>1
  <2> QED BY <1>2, <1>5, <2>1 DEF Goes
<1>7. Budget'
  <2>1. PICK t \in Nat : t = n * L
    BY <1>1, <1>3
  <2>2. t < most
    BY <1>1, <1>2, <1>3, <2>1 DEF Stops, Total
  <2>3. n * (L + 1) = t + n
    BY <1>1, <1>3, <2>1, OneMore
  <2>4. Total' = n * (L + 1)
    BY <1>1, <1>2, <1>3 DEF Total
  <2>5. Total' < most + n
    BY <1>3, <2>2, <2>3, <2>4
  <2> QED BY <1>2, <1>3, <2>5 DEF Budget
<1> QED BY <1>6, <1>7

LEMMA RoundKeeps ==
  ASSUME SearchInv, Round
  PROVE  SearchInv'
<1>1. PICK samples : Made(samples)
  BY RoundMakes
<1>2. Kinds' /\ Heads' /\ Sorts' /\ Goes' /\ Budget'
  BY <1>1, KindsKept, HeadsKept, SortsKept, GoesKept
<1>3. Peaks'
  BY <1>1, PeaksKept DEF Peaks
<1>4. Legal' /\ Finished' /\ call' = call /\ call \in Calls
  BY <1>1 DEF Made, Searches, Legal, Finished, Refused, ConfigOK
<1> QED BY <1>2, <1>3, <1>4 DEF SearchInv

LEMMA SearchRests ==
  ASSUME SearchInv, UNCHANGED <<call, search>>, call.entry = "optimize" => Finished' /\ Legal'
  PROVE  SearchInv'
<1>1. /\ call' = call /\ history' = history /\ top' = top /\ best' = best /\ highest' = highest
  BY DEF search
<1>2. call.entry = "optimize" => Kinds' /\ Heads' /\ Sorts' /\ Peaks' /\ Goes' /\ Budget'
  BY <1>1 DEF SearchInv, Kinds, Heads, Sorts, Peaks, Goes, Budget, Total
<1> QED BY <1>1, <1>2 DEF SearchInv

LEMMA SearchNext ==
  ASSUME SearchInv, [Next]_vars
  PROVE  SearchInv'
<1>1. CASE Round
  BY <1>1, RoundKeeps
<1>2. CASE UNCHANGED vars
  <2>1. UNCHANGED <<call, search>> /\ phase' = phase /\ answer' = answer
    BY <1>2 DEF vars, search
  <2>2. call.entry = "optimize" => Finished' /\ Legal'
    BY <2>1 DEF search, SearchInv, Finished, Legal, Stops, Total, Refused, ConfigOK
  <2> QED BY <2>1, <2>2, SearchRests
<1>3. CASE RoundFails \/ RoundPanics
  <2>1. /\ UNCHANGED <<call, search>> /\ phase' \in {"error", "panic"} /\ Entry("optimize")
    BY <1>3 DEF RoundFails, RoundPanics
  <2>2. Finished' /\ Legal'
    BY <2>1 DEF search, SearchInv, Finished, Legal, Refused, ConfigOK, Entry
  <2> QED BY <2>1, <2>2, SearchRests
<1>4. CASE Optimized
  <2>1. /\ UNCHANGED <<call, search>> /\ Entry("optimize") /\ Stops
        /\ IF best = Nothing THEN phase' = "error" /\ UNCHANGED answer
           ELSE /\ phase' = "done"
                /\ answer' = [values |-> Applied(call.dims, best.values), metric |-> best.metric,
                              total |-> Total, top |-> First(top, call.config.returnTopK)]
    BY <1>4 DEF Optimized, search
  <2>2. Legal'
    BY <2>1 DEF search, SearchInv, Legal, Refused, ConfigOK, Entry
  <2>3. Stops'
    BY <2>1 DEF search, Stops, Total
  <2>4. Finished'
    BY <2>1, <2>3 DEF search, Finished
  <2> QED BY <2>1, <2>2, <2>4, SearchRests
<1>5. CASE Batch \/ Sensitivity
  <2>1. call.entry # "optimize" /\ UNCHANGED <<call, search>>
    BY <1>5 DEF Batch, Sensitivity, Work, Collect, Abandon, Describe, DescribeFails, DescribePanics,
       Entry, search
  <2> QED BY <2>1, SearchRests
<1> QED BY <1>1, <1>2, <1>3, <1>4, <1>5 DEF Next, Optimize

(* What the invariant says of a search with a round behind it.             *)
Searched == SearchInv /\ call.entry = "optimize" /\ history # <<>>

LEMMA PlaceFacts ==
  ASSUME Searched
  PROVE  /\ Searches /\ Len(history) \in Nat /\ Len(history) > 0
         /\ DOMAIN history = 1..Len(history) /\ history \in Seq(RoundSet(call))
         /\ \A p : p \in Places <=> p = <<p[1], p[2]>> /\ p[1] \in 1..Len(history)
                                    /\ p[2] \in 1..call.config.n
         /\ \A p \in Places : At(p) \in Metric
         /\ AllNumbers <=> Numeric(history)
         /\ \A r : Leader(history, r) = At(<<r, 1>>)
<1>1. /\ Searches /\ call \in Calls /\ call.entry = "optimize" /\ ~ Refused(call)
      /\ history \in Seq(RoundSet(call))
  BY DEF Searched, SearchInv, Legal, Kinds, Searches
<1>2. /\ Len(history) \in Nat /\ Len(history) > 0 /\ DOMAIN history = 1..Len(history)
  BY <1>1, EmptySeq, LenProperties DEF Searched
<1>3. \A r \in 1..Len(history) :
        /\ DOMAIN history[r].samples = 1..call.config.n
        /\ \A i \in 1..call.config.n : history[r].samples[i].metric \in Metric
  BY <1>1, RoundMetrics
<1>4. \A p : p \in Places <=> p = <<p[1], p[2]>> /\ p[1] \in 1..Len(history)
                              /\ p[2] \in 1..call.config.n
  <2>1. PICK A, B : A = DOMAIN history /\ B = 1..call.config.n
    OBVIOUS
  <2>2. \A p : p \in A \X B <=> p = <<p[1], p[2]>> /\ p[1] \in A /\ p[2] \in B
    OBVIOUS
  <2>3. \A p : p \in Places <=> p \in A \X B /\ p[2] \in DOMAIN history[p[1]].samples
    BY <2>1 DEF Places
  <2>4. A = 1..Len(history)
    BY <1>2, <2>1
  <2>5. \A r \in A : DOMAIN history[r].samples = B
    BY <1>3, <2>1, <2>4
  <2>6. \A p : p \in Places <=> p = <<p[1], p[2]>> /\ p[1] \in A /\ p[2] \in B
    BY <2>2, <2>3, <2>5
  <2> QED BY <2>1, <2>4, <2>6
<1>5. \A p \in Places : At(p) \in Metric
  BY <1>3, <1>4 DEF At
<1>6. AllNumbers <=> Numeric(history)
  BY <1>2 DEF AllNumbers, Numeric
<1>7. \A r : Leader(history, r) = At(<<r, 1>>)
  BY DEF Leader, At
<1> QED BY <1>1, <1>2, <1>4, <1>5, <1>6, <1>7

LEMMA PlacesBelow ==
  ASSUME Searched, AllNumbers, NEW p \in Places
  PROVE  /\ At(p) \in Int /\ Leader(history, p[1]) \in Int /\ At(p) <= Leader(history, p[1])
         /\ p[1] \in 1..Len(history)
<1>1. /\ p[1] \in 1..Len(history) /\ p[2] \in 1..call.config.n
      /\ Numeric(history) /\ Searches /\ history \in Seq(RoundSet(call))
  BY PlaceFacts
<1>2. \A i \in 1..call.config.n : history[p[1]].samples[i].metric \in Int
  BY <1>1, NumericLeader DEF Searched, Searches
<1>3. Falling(history[p[1]].samples, call.config.n)
  BY <1>1 DEF Searched, SearchInv, Sorts, Numeric
<1>4. call.config.n \in Nat /\ 1 \in 1..call.config.n
  BY <1>1, OptimizerFacts DEF Searched
<1>5. CASE p[2] = 1
  BY <1>1, <1>2, <1>5 DEF At, Leader
<1>6. CASE p[2] # 1
  <2>1. history[p[1]].samples[1].metric >= history[p[1]].samples[p[2]].metric
    BY <1>1, <1>3, <1>4, <1>6 DEF Falling
  <2> QED BY <1>1, <1>2, <1>4, <2>1 DEF At, Leader
<1> QED BY <1>1, <1>5, <1>6

LEMMA BestHolds ==
  ASSUME SearchInv
  PROVE  BestIsBest
<1> SUFFICES ASSUME call.entry = "optimize", history # <<>>
             PROVE  /\ best.metric = NaN <=> At(<<1, 1>>) = NaN
                    /\ \A r \in DOMAIN history : At(<<r, 1>>) # NaN =>
                         /\ At(<<r, 1>>) <= highest
                         /\ best.metric # NaN => At(<<r, 1>>) <= best.metric
                    /\ best.metric # NaN => best.metric = highest
                    /\ AllNumbers => \A p \in Places : At(p) <= best.metric
                    /\ phase = "done" => Score(call.pack, call.params[answer.values]) = answer.metric
  BY DEF BestIsBest
<1>1. Searched
  BY DEF Searched
<1>2. /\ DOMAIN history = 1..Len(history) /\ Len(history) \in Nat /\ Len(history) > 0
      /\ \A r : Leader(history, r) = At(<<r, 1>>)
      /\ AllNumbers <=> Numeric(history)
  BY <1>1, PlaceFacts
<1>3. /\ best.metric = NaN <=> At(<<1, 1>>) = NaN
      /\ \A r \in 1..Len(history) : At(<<r, 1>>) # NaN => highest \in Int /\ At(<<r, 1>>) <= highest
      /\ best.metric # NaN => best.metric = highest
  BY <1>2 DEF SearchInv, Heads
<1>4. ASSUME AllNumbers, NEW p \in Places
      PROVE  At(p) <= best.metric
  <2>1. /\ At(p) \in Int /\ Leader(history, p[1]) \in Int /\ At(p) <= Leader(history, p[1])
        /\ p[1] \in 1..Len(history)
    BY <1>1, <1>4, PlacesBelow
  <2>2. Leader(history, 1) \in Int
    <3>1. 1 \in 1..Len(history)
      BY <1>2
    <3> QED BY <1>1, <1>2, <1>4, <3>1, NumericLeader, PlaceFacts DEF Searched, Searches
  <2>3. best.metric # NaN
    BY <1>2, <1>3, <2>2, OutcomeFacts
  <2>4. Leader(history, p[1]) <= highest /\ highest \in Int
    BY <1>2, <1>3, <2>1, OutcomeFacts
  <2> QED BY <1>3, <2>1, <2>3, <2>4
<1>5. ASSUME phase = "done"
      PROVE  Score(call.pack, call.params[answer.values]) = answer.metric
  <2>1. /\ answer.values = Applied(call.dims, best.values) /\ answer.metric = best.metric
        /\ best \in Sample(call)
    BY <1>5 DEF SearchInv, Finished, Kinds
  <2>2. best.metric = Score(call.pack, call.params[Applied(call.dims, best.values)])
    BY <2>1 DEF Sample
  <2> QED BY <2>1, <2>2
<1> QED BY <1>2, <1>3, <1>4, <1>5

(* A search has stalled if and only if no sample of its last rounds was    *)
(* better than all before them.                                            *)
LEMMA FruitlessIsStalled ==
  ASSUME Searched, AllNumbers, NEW m \in 1..Len(history)
  PROVE  Fruitless(m) <=> StalledAt(history, m, call.config.patience)
<1>1. PICK back \in Nat : back = call.config.patience
  BY KeptCountFacts DEF Searched, SearchInv
<1>2. /\ Len(history) \in Nat /\ Numeric(history)
      /\ \A p : p \in Places <=> p = <<p[1], p[2]>> /\ p[1] \in 1..Len(history)
                                 /\ p[2] \in 1..call.config.n
      /\ \A r : Leader(history, r) = At(<<r, 1>>)
  BY PlaceFacts
<1>3. \A p \in Places : /\ At(p) \in Int /\ Leader(history, p[1]) \in Int
                        /\ At(p) <= Leader(history, p[1]) /\ p[1] \in 1..Len(history)
  BY PlacesBelow
<1>4. \A r \in 1..Len(history) : Peak(history, r)
  BY <1>2 DEF Searched, SearchInv, Peaks
<1>5. 1 \in 1..call.config.n
  BY OptimizerFacts, PlaceFacts DEF Searched
<1>6. ASSUME NEW r \in 1..Len(history)
      PROVE  <<r, 1>> \in Places /\ Leader(history, r) = At(<<r, 1>>)
  BY <1>2, <1>5
<1>7. \A r \in 1..Len(history) : Leader(history, r) \in Int
  BY <1>3, <1>6
<1>8. CASE ~ (m > back)
  BY <1>1, <1>8 DEF Fruitless, StalledAt
<1>9. CASE m > back
  <2>1. PICK before : before = m - back /\ before \in 1..m /\ before \in 1..Len(history)
    BY <1>2, <1>9
  <2>2. PICK a \in Int, b \in Int : a = history[m].best /\ b = history[before].best
    BY <1>4, <2>1 DEF Peak
  <2>3. StalledAt(history, m, call.config.patience) <=> a <= b
    BY <1>1, <1>9, <2>1, <2>2, OutcomeFacts DEF StalledAt, Exceeds
  <2>4. ASSUME a <= b, NEW p \in Places, p[1] \in before + 1..m
        PROVE  \E q \in Places : q[1] <= before /\ At(p) <= At(q)
    <3>1. At(p) <= Leader(history, p[1]) /\ p[1] \in 1..m
      BY <1>2, <1>3, <2>1, <2>4
    <3>2. Leader(history, p[1]) <= a
      BY <1>4, <2>2, <3>1 DEF Peak
    <3>3. PICK q \in 1..before : Leader(history, q) = b
      BY <1>4, <2>1, <2>2 DEF Peak
    <3>4. <<q, 1>> \in Places /\ At(<<q, 1>>) = b /\ q <= before
      BY <1>2, <1>6, <2>1, <3>3
    <3>5. At(p) <= b
      BY <1>3, <2>2, <2>4, <3>1, <3>2
    <3>6. PICK y : y = <<q, 1>>
      OBVIOUS
    <3>7. y \in Places /\ y[1] <= before /\ At(p) <= At(y)
      BY <3>4, <3>5, <3>6
    <3> QED BY <3>7
  <2>5. ASSUME \A p \in Places : p[1] \in before + 1..m =>
                 \E q \in Places : q[1] <= before /\ At(p) <= At(q)
        PROVE  a <= b
    <3>1. PICK r \in 1..m : Leader(history, r) = a
      BY <1>4, <2>2 DEF Peak
    <3>2. r \in 1..Len(history)
      BY <1>2
    <3>3. CASE r <= before
      BY <1>4, <2>1, <2>2, <3>1, <3>3 DEF Peak
    <3>4. CASE ~ (r <= before)
      <4>1. PICK x : x = <<r, 1>>
        OBVIOUS
      <4>2. x \in Places /\ At(x) = a /\ x[1] = r /\ r \in before + 1..m
        BY <1>6, <2>1, <3>1, <3>2, <3>4, <4>1
      <4>3. PICK q \in Places : q[1] <= before /\ At(x) <= At(q)
        BY <2>5, <4>2
      <4>4. /\ At(q) \in Int /\ Leader(history, q[1]) \in Int
            /\ At(q) <= Leader(history, q[1]) /\ q[1] \in 1..before
        BY <1>2, <1>3, <2>1, <4>3
      <4>5. Leader(history, q[1]) <= b
        BY <1>4, <2>1, <2>2, <4>4 DEF Peak
      <4> QED BY <2>2, <4>2, <4>3, <4>4, <4>5
    <3> QED BY <3>3, <3>4
  <2>6. Fruitless(m) <=> (\A p \in Places : p[1] \in before + 1..m =>
                            \E q \in Places : q[1] <= before /\ At(p) <= At(q))
    BY <1>1, <1>9, <2>1 DEF Fruitless
  <2> QED BY <2>3, <2>4, <2>5, <2>6
<1> QED BY <1>8, <1>9

LEMMA StopsHold ==
  ASSUME SearchInv
  PROVE  StopsForCause
<1> SUFFICES ASSUME call.entry = "optimize", AllNumbers
             PROVE  /\ phase = "done" =>
                         \/ Len(history) = call.config.maxRounds \/ Total >= call.config.maxSamples
                         \/ GivesUp(Len(history))
                    /\ \A n \in 1..Len(history) - 1 : ~ GivesUp(n)
                    /\ history # <<>> => Total < call.config.maxSamples + call.config.n
  BY DEF StopsForCause
<1>1. history # <<>> => Total < call.config.maxSamples + call.config.n
  BY DEF SearchInv, Budget
<1>2. history # <<>> => Searched /\ Len(history) \in Nat /\ Len(history) > 0
  BY PlaceFacts DEF Searched
<1>3. ASSUME phase = "done"
      PROVE  \/ Len(history) = call.config.maxRounds \/ Total >= call.config.maxSamples
             \/ GivesUp(Len(history))
  <2>1. Stops
    BY <1>3 DEF SearchInv, Finished
  <2>2. CASE /\ history # <<>> /\ Total >= call.config.minSamples
             /\ Stalled(history, call.config.patience)
    <3>1. StalledAt(history, Len(history), call.config.patience)
      BY <2>2 DEF Stalled, StalledAt
    <3>2. Fruitless(Len(history))
      BY <1>2, <2>2, <3>1, FruitlessIsStalled
    <3> QED BY <1>2, <2>2, <3>2 DEF GivesUp, Total
  <2> QED BY <2>1, <2>2 DEF Stops
<1>4. ASSUME NEW n \in 1..Len(history) - 1, GivesUp(n)
      PROVE  FALSE
  <2>1. history # <<>>
    OBVIOUS
  <2>2. n \in 1..Len(history) /\ Searched
    BY <1>2, <2>1
  <2>3. StalledAt(history, n, call.config.patience)
    BY <1>4, <2>2, FruitlessIsStalled DEF GivesUp
  <2>4. Overdue(call, history, n)
    BY <1>4, <2>3 DEF GivesUp, Overdue
  <2> QED BY <2>4 DEF SearchInv, Goes
<1> QED BY <1>1, <1>3, <1>4
-----------------------------------------------------------------------------
(* What is kept                                                            *)

PlacesIn(h, n) == {p \in (DOMAIN h) \X (1..n) : p[2] \in DOMAIN h[p[1]].samples}
Reaching(h, n, v) == {p \in PlacesIn(h, n) : h[p[1]].samples[p[2]].metric >= v}

Follows(g, h, L, samples, n) ==
  /\ DOMAIN h = 1..L /\ DOMAIN g = 1..L + 1 /\ \A r \in 1..L : g[r] = h[r]
  /\ g[L + 1].samples = samples /\ DOMAIN samples = 1..n

(* A round adds what it has that reaches a metric.                         *)
LEMMA ReachGrows ==
  ASSUME NEW n \in Nat, NEW L \in Nat, NEW h, NEW g, NEW samples, Follows(g, h, L, samples, n),
         IsFiniteSet(PlacesIn(h, n)), NEW v
  PROVE  /\ IsFiniteSet(PlacesIn(g, n))
         /\ Cardinality(Reaching(h, n, v)) \in Nat /\ Cardinality(AtLeast(samples, v)) \in Nat
         /\ Cardinality(Reaching(g, n, v))
              = Cardinality(Reaching(h, n, v)) + Cardinality(AtLeast(samples, v))
<1> DEFINE here == [i \in 1..n |-> <<L + 1, i>>]
           New == {L + 1} \X (1..n)
           A == Reaching(h, n, v)
           B == {p \in New : samples[p[2]].metric >= v}
           C == AtLeast(samples, v)
<1> USE DEF Follows
<1>1. \A p : p \in PlacesIn(h, n) <=> p \in (1..L) \X (1..n) /\ p[2] \in DOMAIN h[p[1]].samples
  BY DEF PlacesIn
<1>2. \A p : p \in PlacesIn(g, n) <=>
               p \in (1..L + 1) \X (1..n) /\ p[2] \in DOMAIN g[p[1]].samples
  BY DEF PlacesIn
<1>3. \A p : p \in (1..L + 1) \X (1..n) <=> p \in (1..L) \X (1..n) \/ p \in New
  OBVIOUS
<1>4. \A p \in New : p = <<L + 1, p[2]>> /\ p[1] = L + 1 /\ p[2] \in 1..n
                     /\ p \notin (1..L) \X (1..n)
  OBVIOUS
<1>5. \A p \in (1..L) \X (1..n) : p[1] \in 1..L /\ g[p[1]] = h[p[1]]
  OBVIOUS
<1> HIDE DEF New
<1>6. PlacesIn(g, n) = PlacesIn(h, n) \cup New
  BY <1>1, <1>2, <1>3, <1>4, <1>5
<1>7. here \in Bijection(1..n, New)
  <2>1. \A i \in 1..n : here[i] \in New /\ here[i] = <<L + 1, i>>
    BY DEF New
  <2>2. here \in [1..n -> New]
    BY <2>1
  <2>3. \A i, j \in 1..n : here[i] = here[j] => i = j
    OBVIOUS
  <2>4. \A p \in New : \E i \in 1..n : here[i] = p
    BY <1>4, <2>1
  <2> HIDE DEF here
  <2> QED BY <2>2, <2>3, <2>4 DEF Bijection, Injection, IsInjective, Surjection
<1>8. \A i \in 1..n : here[i] = <<L + 1, i>> /\ here[i][2] = i
  OBVIOUS
<1> HIDE DEF here
<1>9. IsFiniteSet(1..n) /\ IsFiniteSet(New)
  BY <1>7, FirstOnes, FS_Bijection, Fun_ExistsBij
<1>10. IsFiniteSet(PlacesIn(g, n))
  BY <1>6, <1>9, FS_Union
<1>11. Reaching(g, n, v) = A \cup B /\ A \cap B = {}
  <2>1. \A p : p \in A <=> p \in PlacesIn(h, n) /\ h[p[1]].samples[p[2]].metric >= v
    BY DEF Reaching
  <2>2. \A p : p \in Reaching(g, n, v) <=>
                 p \in PlacesIn(g, n) /\ g[p[1]].samples[p[2]].metric >= v
    BY DEF Reaching
  <2>3. \A p \in PlacesIn(h, n) : g[p[1]] = h[p[1]] /\ p \notin New
    BY <1>1, <1>4, <1>5
  <2>4. \A p \in New : g[p[1]].samples = samples
    BY <1>4
  <2>5. \A p : p \in B <=> p \in New /\ samples[p[2]].metric >= v
    OBVIOUS
  <2> HIDE DEF A, B
  <2> QED BY <1>6, <2>1, <2>2, <2>3, <2>4, <2>5
<1>12. IsFiniteSet(A) /\ IsFiniteSet(B) /\ Cardinality(A) \in Nat /\ Cardinality(B) \in Nat
  <2>1. A \subseteq PlacesIn(h, n) /\ B \subseteq New
    BY DEF Reaching
  <2> HIDE DEF A, B
  <2> QED BY <1>9, <2>1, FewerIn
<1>13. Cardinality(B) = Cardinality(C)
  <2>1. B \subseteq New
    OBVIOUS
  <2>2. Cardinality({i \in 1..n : here[i] \in B}) = Cardinality(B)
    BY <1>7, <1>9, <2>1, SameNumber
  <2>3. \A i \in 1..n : here[i] \in New
    BY <1>7 DEF Bijection, Injection
  <2>4. {i \in 1..n : here[i] \in B} = C
    BY <1>8, <2>3 DEF AtLeast
  <2> QED BY <2>2, <2>4
<1> HIDE DEF A, B, C
<1>14. Cardinality(A \cup B) = Cardinality(A) + Cardinality(B)
  <2>1. Cardinality(A \cup B) = Cardinality(A) + Cardinality(B) - Cardinality(A \cap B)
    BY <1>12, FS_Union
  <2>2. Cardinality(A \cap B) = 0
    BY <1>11, FS_EmptySet
  <2> QED BY <1>12, <2>1, <2>2
<1> QED BY <1>10, <1>11, <1>12, <1>13, <1>14 DEF A, C

Best(t, h, n, k) ==
  /\ Falling(t, Len(t)) /\ \A i \in 1..Len(t) : t[i].metric \in Int
  /\ Len(t) = Fewer(k, n * Len(h))
  /\ \A v \in Int : Cardinality(AtLeast(t, v)) = Fewer(k, Cardinality(Reaching(h, n, v)))
KeepsInv ==
  call.entry = "optimize" =>
    /\ IsFiniteSet(PlacesIn(history, call.config.n))
    /\ Numeric(history) => Best(top, history, call.config.n, KeptCount)

LEMMA KeepsInit == Init => KeepsInv
<1> SUFFICES ASSUME Init, call.entry = "optimize"
             PROVE  /\ IsFiniteSet(PlacesIn(history, call.config.n))
                    /\ Best(top, history, call.config.n, KeptCount)
  BY DEF KeepsInv
<1>1. call \in Calls /\ history = <<>> /\ top = <<>>
  BY DEF Init
<1>2. PICK n \in Nat, k \in Nat : n = call.config.n /\ k = KeptCount
  BY <1>1, KeptCountFacts
<1>3. Len(history) = 0 /\ Len(top) = 0 /\ DOMAIN history = {} /\ DOMAIN top = {} /\ n * 0 = 0
  BY <1>1
<1>4. PlacesIn(history, n) = {} /\ \A v : Reaching(history, n, v) = {} /\ AtLeast(top, v) = {}
  BY <1>3 DEF PlacesIn, Reaching, AtLeast
<1>5. IsFiniteSet({}) /\ Cardinality({}) = 0
  BY FS_EmptySet
<1>6. Fewer(k, 0) = 0
  BY DEF Fewer
<1>7. \A v \in Int : Cardinality(AtLeast(top, v)) = Fewer(k, Cardinality(Reaching(history, n, v)))
  BY <1>4, <1>5, <1>6
<1>8. Falling(top, Len(top)) /\ \A i \in 1..Len(top) : top[i].metric \in Int
  BY <1>3 DEF Falling
<1>9. Len(top) = Fewer(k, n * Len(history))
  BY <1>3, <1>6
<1>10. Best(top, history, n, k)
  BY <1>7, <1>8, <1>9 DEF Best
<1> QED BY <1>2, <1>4, <1>5, <1>10

LEMMA KeepsRound ==
  ASSUME SearchInv, KeepsInv, Round
  PROVE  KeepsInv'
<1>1. PICK samples : Made(samples)
  BY RoundMakes
<1>2. /\ call \in Calls /\ call.entry = "optimize" /\ call' = call /\ KeptCount' = KeptCount
      /\ top \in Seq(Sample(call)) /\ samples \in Seq(Sample(call))
      /\ samples \in [1..call.config.n -> Sample(call)]
      /\ Len(samples) = call.config.n /\ top' \in Merged(top, samples, KeptCount)
      /\ history \in Seq(RoundSet(call))
  BY <1>1 DEF Made, SearchInv, Kinds, KeptCount
<1> PICK n \in Nat, k \in Nat : n = call.config.n /\ k = KeptCount
  BY <1>2, KeptCountFacts
<1>3. PICK S : n = call.config.n /\ k = KeptCount /\ S = Sample(call)
  OBVIOUS
<1> PICK L \in Nat : L = Len(history)
  BY <1>2, LenProperties
<1>4. PICK g, h, t : L = Len(history) /\ h = history /\ g = history' /\ t = top'
  OBVIOUS
<1>5. /\ Len(g) = L + 1 /\ DOMAIN g = 1..L + 1 /\ DOMAIN h = 1..L
      /\ \A r \in 1..L : g[r] = h[r]
      /\ g[L + 1] = [best |-> highest', samples |-> samples]
  BY <1>1, <1>2, <1>4, MadeFacts, LenProperties
<1>6. g[L + 1].samples = samples /\ DOMAIN samples = 1..n
  BY <1>2, <1>3, <1>5
<1>7. IsFiniteSet(PlacesIn(h, n)) /\ (Numeric(h) => Best(top, h, n, k))
  BY <1>2, <1>3, <1>4 DEF KeepsInv
<1>8. ASSUME NEW v
      PROVE  /\ IsFiniteSet(PlacesIn(g, n))
             /\ Cardinality(Reaching(h, n, v)) \in Nat /\ Cardinality(AtLeast(samples, v)) \in Nat
             /\ Cardinality(Reaching(g, n, v))
                  = Cardinality(Reaching(h, n, v)) + Cardinality(AtLeast(samples, v))
  <2>1. Follows(g, h, L, samples, n)
    BY <1>5, <1>6 DEF Follows
  <2> QED BY <1>7, <2>1, ReachGrows
<1>9. ASSUME Numeric(g)
      PROVE  Best(t, g, n, k)
  <2>1. Numeric(h)
    BY <1>4, <1>5, <1>9 DEF Numeric
  <2>2. Numbers(samples)
    <3>1. L + 1 \in 1..Len(g)
      BY <1>5
    <3>2. Numbers(g[L + 1].samples)
      BY <1>9, <3>1 DEF Numeric
    <3> QED BY <1>6, <3>2
  <2>3. \A i \in 1..Len(samples) : samples[i].metric \in Int
    <3>1. \A i \in 1..n : samples[i] \in S
      BY <1>2, <1>3
    <3>2. \A x \in S : x.metric \in Metric
      BY <1>3 DEF Sample
    <3>3. \A i \in 1..n : samples[i].metric # NaN
      BY <1>6, <2>2 DEF Numbers
    <3> QED BY <1>2, <1>3, <3>1, <3>2, <3>3 DEF Metric
  <2>4. /\ \A i \in 1..Len(top) : top[i].metric \in Int
        /\ Len(top) = Fewer(k, n * L)
        /\ \A v \in Int : Cardinality(AtLeast(top, v)) = Fewer(k, Cardinality(Reaching(h, n, v)))
    BY <1>4, <1>7, <2>1 DEF Best
  <2>5. top \in Seq(S) /\ samples \in Seq(S) /\ t \in Merged(top, samples, k) /\ Len(samples) = n
    BY <1>2, <1>3, <1>4
  <2>6. /\ Len(t) = Fewer(k, Len(top) + n)
        /\ \A i \in 1..Len(t) : t[i].metric \in Int
        /\ Falling(t, Len(t))
        /\ \A v \in Int : Cardinality(AtLeast(t, v))
             = Fewer(k, Cardinality(AtLeast(top, v)) + Cardinality(AtLeast(samples, v)))
    <3>1. Metered(top) /\ Metered(samples)
      BY <2>3, <2>4 DEF Metered
    <3>2. BestOfBoth(t, top, samples, k)
      BY <2>5, <3>1, MergeKeepsBest
    <3> QED BY <2>5, <3>2 DEF BestOfBoth, Metered
  <2>7. ASSUME NEW a \in Nat, NEW b \in Nat
        PROVE  Fewer(k, Fewer(k, a) + b) = Fewer(k, a + b)
    BY DEF Fewer
  <2>8. Len(t) = Fewer(k, n * Len(g))
    <3>1. PICK x \in Nat : x = n * L /\ n * (L + 1) = x + n
      BY OneMore
    <3>2. Len(t) = Fewer(k, Fewer(k, x) + n)
      BY <2>4, <2>6, <3>1
    <3>3. Fewer(k, Fewer(k, x) + n) = Fewer(k, x + n)
      BY <2>7
    <3> QED BY <1>5, <3>1, <3>2, <3>3
  <2>9. ASSUME NEW v \in Int
        PROVE  Cardinality(AtLeast(t, v)) = Fewer(k, Cardinality(Reaching(g, n, v)))
    <3>1. PICK a \in Nat, b \in Nat :
            /\ a = Cardinality(Reaching(h, n, v)) /\ b = Cardinality(AtLeast(samples, v))
            /\ Cardinality(Reaching(g, n, v)) = a + b
      BY <1>8
    <3>2. Cardinality(AtLeast(t, v)) = Fewer(k, Fewer(k, a) + b)
      BY <2>4, <2>6, <3>1
    <3> QED BY <2>7, <3>1, <3>2
  <2> QED BY <2>6, <2>8, <2>9 DEF Best
<1>10. PICK v : v = 0
  OBVIOUS
<1>11. IsFiniteSet(PlacesIn(g, n))
  BY <1>8
<1>12. /\ call.config.n' = n /\ KeptCount' = k /\ history' = g /\ top' = t
  BY <1>2, <1>3, <1>4
<1> QED BY <1>9, <1>11, <1>12 DEF KeepsInv

LEMMA KeepsNext ==
  ASSUME SearchInv, KeepsInv, [Next]_vars
  PROVE  KeepsInv'
<1>1. CASE Round
  BY <1>1, KeepsRound
<1>2. CASE ~ Round
  <2>1. UNCHANGED <<call, top, history>>
    BY <1>2 DEF Next, vars, search, Batch, Work, Collect, Abandon, Optimize, RoundFails, RoundPanics,
       Optimized, Sensitivity, Describe, DescribeFails, DescribePanics
  <2> QED BY <2>1 DEF KeepsInv, KeptCount
<1> QED BY <1>1, <1>2

(* The j-th of a sorted sequence has fewer than j above it and at least j  *)
(* that reach it.                                                          *)
LEMMA ItsRank ==
  ASSUME NEW m \in Nat, NEW s, Numbered(s, m), Falling(s, m), NEW j \in 1..m
  PROVE  /\ Cardinality(AtLeast(s, s[j].metric + 1)) \in 0..j - 1
         /\ Cardinality(AtLeast(s, s[j].metric)) \in Nat
         /\ Cardinality(AtLeast(s, s[j].metric)) >= j
<1>1. PICK v \in Int : v = s[j].metric
  BY DEF Numbered
<1>2. DOMAIN s = 1..m /\ \A i \in 1..m : s[i].metric \in Int
  BY DEF Numbered
<1>3. ASSUME NEW i \in AtLeast(s, v + 1)
      PROVE  i \in 1..j - 1
  <2>1. i \in 1..m /\ s[i].metric >= v + 1 /\ s[i].metric \in Int
    BY <1>2 DEF AtLeast
  <2>2. CASE i > j
    <3>1. s[j].metric >= s[i].metric
      BY <2>1, <2>2 DEF Falling
    <3> QED BY <1>1, <2>1, <3>1
  <2>3. i # j
    BY <1>1, <2>1
  <2> QED BY <2>1, <2>2, <2>3
<1>4. ASSUME NEW i \in 1..j
      PROVE  i \in AtLeast(s, v)
  <2>1. s[i].metric >= s[j].metric \/ i = j
    BY DEF Falling
  <2> QED BY <1>1, <1>2, <2>1 DEF AtLeast
<1>5. AtLeast(s, v) \subseteq 1..m
  BY <1>2 DEF AtLeast
<1>6. /\ IsFiniteSet(1..m) /\ IsFiniteSet(1..j - 1)
      /\ Cardinality(1..j) = j /\ Cardinality(1..j - 1) = j - 1
  <2>1. j \in Nat /\ j - 1 \in Nat
    OBVIOUS
  <2> QED BY <2>1, FirstOnes
<1>7. Cardinality(AtLeast(s, v + 1)) \in Nat /\ Cardinality(AtLeast(s, v + 1)) <= j - 1
  <2>1. AtLeast(s, v + 1) \subseteq 1..j - 1
    BY <1>3
  <2> QED BY <1>6, <2>1, FewerIn
<1>8. IsFiniteSet(AtLeast(s, v)) /\ Cardinality(AtLeast(s, v)) \in Nat
  BY <1>5, <1>6, FewerIn
<1>9. j <= Cardinality(AtLeast(s, v))
  <2>1. 1..j \subseteq AtLeast(s, v)
    BY <1>4
  <2>2. Cardinality(1..j) <= Cardinality(AtLeast(s, v))
    BY <1>8, <2>1, FewerIn
  <2> QED BY <1>6, <2>2
<1> QED BY <1>1, <1>7, <1>8, <1>9

LEMMA TopHolds ==
  ASSUME SearchInv, KeepsInv
  PROVE  TopKAreBest
<1> SUFFICES ASSUME call.entry = "optimize", AllNumbers
             PROVE  /\ Len(top) = IF KeptCount < Total THEN KeptCount ELSE Total
                    /\ \A j \in DOMAIN top :
                         /\ Cardinality({p \in Places : At(p) > top[j].metric}) < j
                         /\ Cardinality({p \in Places : At(p) >= top[j].metric}) >= j
  BY DEF TopKAreBest
<1>1. /\ call \in Calls /\ history \in Seq(RoundSet(call)) /\ top \in Seq(Sample(call))
      /\ top = <<>> <=> history = <<>>
  BY DEF SearchInv, Kinds
<1>2. PICK n \in Nat, k \in Nat : n = call.config.n /\ k = KeptCount
  BY <1>1, KeptCountFacts
<1>3. Numeric(history)
  BY <1>1, LenProperties DEF AllNumbers, Numeric
<1>4. Best(top, history, n, k) /\ IsFiniteSet(PlacesIn(history, n))
  BY <1>2, <1>3 DEF KeepsInv
<1>5. Len(top) = IF KeptCount < Total THEN KeptCount ELSE Total
  BY <1>2, <1>4 DEF Best, Fewer, Total
<1>6. PICK m \in Nat : m = Len(top) /\ DOMAIN top = 1..m
  BY <1>1, LenProperties
<1>7. Numbered(top, m) /\ Falling(top, m)
  BY <1>4, <1>6 DEF Best, Numbered
<1>8. PICK total \in Nat : total = n * Len(history)
  BY <1>1, <1>2, LenProperties
<1>9. m = Fewer(k, total)
  BY <1>4, <1>6, <1>8 DEF Best
<1>10. Places = PlacesIn(history, n)
  BY <1>2 DEF Places, PlacesIn
<1>11. ASSUME NEW v
       PROVE  /\ {p \in Places : At(p) >= v} = Reaching(history, n, v)
              /\ Cardinality(Reaching(history, n, v)) \in Nat
  <2>1. Reaching(history, n, v) \subseteq PlacesIn(history, n)
    BY DEF Reaching
  <2>2. Cardinality(Reaching(history, n, v)) \in Nat
    BY <1>4, <2>1, FewerIn
  <2> QED BY <1>10, <2>2 DEF Reaching, At
<1>12. ASSUME NEW j \in DOMAIN top
       PROVE  /\ Cardinality({p \in Places : At(p) > top[j].metric}) < j
              /\ Cardinality({p \in Places : At(p) >= top[j].metric}) >= j
  <2>1. j \in 1..m /\ j \in Nat
    BY <1>6
  <2>2. PICK v \in Int : v = top[j].metric
    BY <1>7, <2>1 DEF Numbered
  <2>3. /\ Cardinality(AtLeast(top, v + 1)) \in 0..j - 1
        /\ Cardinality(AtLeast(top, v)) \in Nat /\ Cardinality(AtLeast(top, v)) >= j
    BY <1>7, <2>1, <2>2, ItsRank
  <2>4. PICK above \in Nat, reach \in Nat : /\ above = Cardinality(Reaching(history, n, v + 1))
                                            /\ reach = Cardinality(Reaching(history, n, v))
    BY <1>11
  <2>5. /\ Cardinality(AtLeast(top, v + 1)) = Fewer(k, above)
        /\ Cardinality(AtLeast(top, v)) = Fewer(k, reach)
    BY <1>4, <2>4 DEF Best
  <2>6. j <= k
    BY <1>9, <2>1 DEF Fewer
  <2>7. above < j /\ reach >= j
    BY <2>1, <2>3, <2>5, <2>6 DEF Fewer
  <2>8. {p \in Places : At(p) > v} = {p \in Places : At(p) >= v + 1}
    <3>1. history # <<>>
      BY <1>1, <1>6, <2>1
    <3>2. \A p \in Places : At(p) \in Int
      BY <3>1, PlacesBelow DEF Searched
    <3>3. \A p \in Places : At(p) > v <=> At(p) >= v + 1
      BY <2>2, <3>2
    <3> QED BY <3>3
  <2> QED BY <1>11, <2>2, <2>4, <2>7, <2>8
<1> QED BY <1>5, <1>12
-----------------------------------------------------------------------------
LEMMA EngineInv == Spec => [](SearchInv /\ KeepsInv)
<1>1. Init => SearchInv /\ KeepsInv
  BY SearchInit, KeepsInit
<1>2. SearchInv /\ KeepsInv /\ [Next]_vars => (SearchInv /\ KeepsInv)'
  BY SearchNext, KeepsNext
<1> QED BY <1>1, <1>2, PTL DEF Spec

(* The optimizer hands out the best it has seen: the best of the rounds'   *)
(* leaders, of all samples where every metric is a number, with the        *)
(* metric the parameters it hands out do score.                            *)
THEOREM BestIsBestHolds == Spec => []BestIsBest
<1>1. SearchInv /\ KeepsInv => BestIsBest
  BY BestHolds
<1> QED BY <1>1, EngineInv, PTL

(* A search ends when its rounds or its samples are used up or, after      *)
(* min_samples, when its last rounds had nothing better than all before    *)
(* them; and it does not go on past that.                                  *)
THEOREM StopsForCauseHolds == Spec => []StopsForCause
<1>1. SearchInv /\ KeepsInv => StopsForCause
  BY StopsHold
<1> QED BY <1>1, EngineInv, PTL

(* What merge_top_k keeps over all rounds is the best of all that was      *)
(* evaluated in any of them, as many as fit.                               *)
THEOREM TopKAreBestHolds == Spec => []TopKAreBest
<1>1. SearchInv /\ KeepsInv => TopKAreBest
  BY TopHolds
<1> QED BY <1>1, EngineInv, PTL
-----------------------------------------------------------------------------
(* The sensitivity test                                                    *)

(* Samples that are picked are as many as their places, and lie there.     *)
LEMMA PickedFacts ==
  ASSUME NEW n \in Nat, NEW places, places \subseteq 1..n, NEW samples
  PROVE  /\ Cardinality(places) \in Nat /\ IsFiniteSet(places)
         /\ DOMAIN Picked(samples, places) = 1..Cardinality(places)
         /\ \A r \in 1..Cardinality(places) :
              \E i \in places : Picked(samples, places)[r] = samples[i]
<1> DEFINE R == {x \in places \X places : x[1] < x[2]}
           rank == [i \in places |-> Cardinality({j \in places : <<j, i>> \in R}) + 1]
           c == Cardinality(places)
<1>1. IsFiniteSet(places) /\ c \in Nat
  BY FirstOnes, FewerIn
<1>2. \A i, j \in places : <<j, i>> \in R <=> j < i
  OBVIOUS
<1>3. \A i \in places : {j \in places : <<j, i>> \in R} = {j \in places : j < i}
  BY <1>2
<1>4. \A i \in places : rank[i] = Cardinality({j \in places : j < i}) + 1
  BY <1>3
<1> HIDE DEF R
<1>5. rank \in Bijection(places, 1..c)
  <2>1. \A i \in places : <<i, i>> \notin R
    BY <1>2
  <2>2. \A i, j, k \in places : <<i, j>> \in R /\ <<j, k>> \in R => <<i, k>> \in R
    BY <1>2
  <2>3. ASSUME NEW i \in places, NEW j \in places
        PROVE  i = j \/ <<i, j>> \in R \/ <<j, i>> \in R
    <3>1. i \in Nat /\ j \in Nat
      OBVIOUS
    <3>2. i = j \/ i < j \/ j < i
      BY <3>1
    <3> QED BY <1>2, <3>2
  <2> HIDE DEF c
  <2>4. rank \in Bijection(places, 1..Cardinality(places))
    BY <1>1, <2>1, <2>2, <2>3, RanksAreNumbers
  <2> QED BY <2>4 DEF c
<1> HIDE DEF rank
<1>6. \A r \in 1..c : \E i \in places : rank[i] = r
  BY <1>5 DEF Bijection, Surjection
<1>7. ASSUME NEW r \in 1..c
      PROVE  \E i \in places : Picked(samples, places)[r] = samples[i]
  <2>1. PICK i \in places : rank[i] = r
    BY <1>6
  <2>2. i \in Nat /\ Cardinality({j \in places : j < i}) \in Nat
    <3>1. {j \in places : j < i} \subseteq places
      OBVIOUS
    <3> QED BY <1>1, <3>1, FewerIn
  <2>3. Cardinality({j \in places : j < i}) = r - 1
    BY <1>4, <2>1, <2>2
  <2>4. Picked(samples, places)[r]
          = samples[CHOOSE k \in places : Cardinality({j \in places : j < k}) = r - 1]
    BY DEF Picked
  <2> QED BY <2>3, <2>4
<1>8. DOMAIN Picked(samples, places) = 1..c
  BY DEF Picked
<1> QED BY <1>1, <1>7, <1>8

Under(s, m, v) == {i \in 1..m : s[i].metric < v}
Over(s, m, v) == {i \in 1..m : s[i].metric > v}

LEMMA ArrangedSides ==
  ASSUME NEW m \in Nat, NEW samples, NEW s, Arranged(s, samples, m), NEW v
  PROVE  /\ Cardinality(Under(samples, m, v)) = Cardinality(Under(s, m, v))
         /\ Cardinality(Over(samples, m, v)) = Cardinality(Over(s, m, v))
<1> PICK p \in Bijection(1..m, 1..m) : s = [r \in 1..m |-> samples[p[r]]]
  BY DEF Arranged
<1>1. IsFiniteSet(1..m) /\ Under(samples, m, v) \subseteq 1..m /\ Over(samples, m, v) \subseteq 1..m
  BY FirstOnes DEF Under, Over
<1>2. /\ Cardinality({r \in 1..m : p[r] \in Under(samples, m, v)}) = Cardinality(Under(samples, m, v))
      /\ Cardinality({r \in 1..m : p[r] \in Over(samples, m, v)}) = Cardinality(Over(samples, m, v))
  BY <1>1, SameNumber
<1>3. \A r \in 1..m : p[r] \in 1..m
  BY DEF Bijection, Injection
<1>4. {r \in 1..m : p[r] \in Under(samples, m, v)} = Under(s, m, v)
  BY <1>3 DEF Under
<1>5. {r \in 1..m : p[r] \in Over(samples, m, v)} = Over(s, m, v)
  BY <1>3 DEF Over
<1> QED BY <1>2, <1>4, <1>5

(* How many lie to either side of the r-th of a sorted sequence.           *)
LEMMA RisingSides ==
  ASSUME NEW m \in Nat, NEW s, Numbered(s, m), Rising(s, m), NEW r \in 1..m
  PROVE  /\ Cardinality(Under(s, m, s[r].metric)) \in 0..r - 1
         /\ Cardinality(Over(s, m, s[r].metric)) \in 0..m - r
<1>1. \A i \in 1..m : s[i].metric \in Int
  BY DEF Numbered
<1>2. ASSUME NEW i \in Under(s, m, s[r].metric)
      PROVE  i \in 1..r - 1
  <2>1. i \in 1..m /\ s[i].metric < s[r].metric
    BY DEF Under
  <2>2. ~ (r < i) /\ i # r
    BY <1>1, <2>1 DEF Rising
  <2> QED BY <2>1, <2>2
<1>3. ASSUME NEW i \in Over(s, m, s[r].metric)
      PROVE  i \in r + 1..m
  <2>1. i \in 1..m /\ s[i].metric > s[r].metric
    BY DEF Over
  <2>2. ~ (i < r) /\ i # r
    BY <1>1, <2>1 DEF Rising
  <2> QED BY <2>1, <2>2
<1>4. /\ IsFiniteSet(1..r - 1) /\ Cardinality(1..r - 1) = r - 1
      /\ IsFiniteSet(r + 1..m) /\ Cardinality(r + 1..m) = m - r
  <2>1. /\ IsFiniteSet(r + 1..m)
        /\ Cardinality(r + 1..m) = IF r + 1 > m THEN 0 ELSE m - (r + 1) + 1
    BY FS_Interval
  <2>2. r - 1 \in Nat
    OBVIOUS
  <2> QED BY <2>1, <2>2, FirstOnes
<1>5. Under(s, m, s[r].metric) \subseteq 1..r - 1 /\ Over(s, m, s[r].metric) \subseteq r + 1..m
  BY <1>2, <1>3
<1> QED BY <1>4, <1>5, FewerIn

LEMMA FallingSide ==
  ASSUME NEW m \in Nat, NEW s, Numbered(s, m), Falling(s, m), NEW r \in 1..m
  PROVE  Cardinality(Over(s, m, s[r].metric)) \in 0..r - 1
<1>1. \A i \in 1..m : s[i].metric \in Int
  BY DEF Numbered
<1>2. ASSUME NEW i \in Over(s, m, s[r].metric)
      PROVE  i \in 1..r - 1
  <2>1. i \in 1..m /\ s[i].metric > s[r].metric
    BY DEF Over
  <2>2. ~ (r < i) /\ i # r
    BY <1>1, <2>1 DEF Falling
  <2> QED BY <2>1, <2>2
<1>3. IsFiniteSet(1..r - 1) /\ Cardinality(1..r - 1) = r - 1
  <2>1. r - 1 \in Nat
    OBVIOUS
  <2> QED BY <2>1, FirstOnes
<1>4. Over(s, m, s[r].metric) \subseteq 1..r - 1
  BY <1>2
<1> QED BY <1>3, <1>4, FewerIn

(* The sample a quantile is read from is the nearest to its share.         *)
Fair(p, m, q) ==
  /\ p \in 1..m
  /\ 100 * (p - 1) <= q * (m - 1) + 50 /\ 100 * (m - p) <= (100 - q) * (m - 1) + 50

LEMMA QuantilePlace ==
  ASSUME NEW m \in Nat, m > 0
  PROVE  /\ \A q \in Quantiles : Fair(Nearest((m - 1) * q, 100) + 1, m, q)
         /\ Fair(m \div 2 + 1, m, 50)
<1>1. PICK x \in Nat : m = x + 1
  <2>1. m - 1 \in Nat /\ m = m - 1 + 1
    OBVIOUS
  <2> QED BY <2>1
<1>2. ASSUME NEW q \in Quantiles
      PROVE  Fair(Nearest((m - 1) * q, 100) + 1, m, q)
  <2>1. Nearest((m - 1) * q, 100) = (2 * (x * q) + 100) \div 200
    BY <1>1, <1>2 DEF Nearest, Quantiles
  <2>2. PICK a \in Nat : a = x * q /\ a <= 95 * x
    BY DEF Quantiles
  <2>3. PICK d \in Int : d = (2 * a + 100) \div 200
    BY <2>2
  <2>4. 200 * d <= 2 * a + 100 /\ 2 * a + 100 < 200 * d + 200
    BY <2>3
  <2>5. d >= 0 /\ d <= x /\ 100 * d <= a + 50 /\ 100 * d >= a - 50
    BY <2>2, <2>4
  <2>6. q * (m - 1) = a /\ (100 - q) * (m - 1) = 100 * x - a
    BY <1>1, <2>2 DEF Quantiles
  <2>7. Nearest((m - 1) * q, 100) = d
    BY <2>1, <2>2, <2>3
  <2> QED BY <1>1, <2>5, <2>6, <2>7 DEF Fair
<1>3. Fair(m \div 2 + 1, m, 50)
  BY DEF Fair
<1> QED BY <1>2, <1>3

(* The extremes of samples in order are its first and its last.            *)
LEMMA ExtremeFacts ==
  ASSUME NEW m \in Nat, m > 0, NEW samples, Numbered(samples, m), NEW s, Arranged(s, samples, m),
         Numbered(s, m)
  PROVE  /\ Falling(s, m) => Extreme(samples, TRUE) = s[1].metric
         /\ Rising(s, m) => Extreme(samples, FALSE) = s[1].metric
<1> DEFINE N == {samples[i].metric : i \in DOMAIN samples} \ {NaN}
           x == s[1].metric
<1>1. /\ DOMAIN samples = 1..m /\ \A i \in 1..m : samples[i].metric \in Int
      /\ \A i \in 1..m : s[i].metric \in Int
  BY DEF Numbered
<1>2. \A v : v \in N <=> \E i \in 1..m : v = samples[i].metric
  BY <1>1, MetricAssumption
<1>3. x \in N
  <2>1. 1 \in 1..m
    OBVIOUS
  <2>2. \E i \in 1..m : s[1] = samples[i]
    BY <2>1, ArrangedFrom
  <2> QED BY <1>2, <2>2
<1>4. \A v \in N : v \in Int /\ \E r \in 1..m : s[r].metric = v
  <2> SUFFICES ASSUME NEW v \in N
               PROVE  v \in Int /\ \E r \in 1..m : s[r].metric = v
    OBVIOUS
  <2>1. PICK i \in 1..m : v = samples[i].metric
    BY <1>2
  <2>2. Found(samples[i], s, m)
    BY ArrangedAll
  <2>3. PICK r \in 1..m : s[r] = samples[i]
    BY <2>2 DEF Found
  <2> QED BY <1>1, <2>1, <2>3
<1>5. /\ Extreme(samples, TRUE) = CHOOSE y \in N : \A v \in N : v <= y
      /\ Extreme(samples, FALSE) = CHOOSE y \in N : \A v \in N : y <= v
  BY <1>3 DEF Extreme
<1> HIDE DEF N
<1>6. ASSUME Falling(s, m)
      PROVE  Extreme(samples, TRUE) = x
  <2>1. ASSUME NEW v \in N
        PROVE  v <= x
    <3>1. PICK r \in 1..m : s[r].metric = v
      BY <1>4
    <3>2. r = 1 \/ s[1].metric >= s[r].metric
      BY <1>6 DEF Falling
    <3> QED BY <1>1, <3>1, <3>2
  <2>2. \A y \in N : (\A v \in N : v <= y) => y = x
    BY <1>3, <1>4, <2>1
  <2> HIDE DEF x
  <2> QED BY <1>3, <1>5, <2>1, <2>2
<1>7. ASSUME Rising(s, m)
      PROVE  Extreme(samples, FALSE) = x
  <2>1. ASSUME NEW v \in N
        PROVE  x <= v
    <3>1. PICK r \in 1..m : s[r].metric = v
      BY <1>4
    <3>2. r = 1 \/ s[1].metric <= s[r].metric
      BY <1>7 DEF Rising
    <3> QED BY <1>1, <3>1, <3>2
  <2>2. \A y \in N : (\A v \in N : y <= v) => y = x
    BY <1>3, <1>4, <2>1
  <2> HIDE DEF x
  <2> QED BY <1>3, <1>5, <2>1, <2>2
<1> QED BY <1>6, <1>7

LEMMA Ordered ==
  ASSUME NEW m \in Nat, NEW S, \A x \in S : x.metric \in Metric, NEW samples \in [1..m -> S],
         NEW s, NEW bestFirst \in BOOLEAN, s \in Orders(samples, bestFirst)
  PROVE  /\ s \in [1..m -> S] /\ s \in Seq(S) /\ Len(s) = m
         /\ Numbers(samples) =>
              /\ Arranged(s, samples, m) /\ Numbered(samples, m) /\ Numbered(s, m)
              /\ bestFirst => Falling(s, m)
              /\ ~ bestFirst => Rising(s, m)
<1>1. DOMAIN samples = 1..m /\ \A i \in 1..m : samples[i].metric \in Metric /\ samples[i] \in S
  OBVIOUS
<1>2. /\ Arranged(s, samples, m)
      /\ Numbers(samples) => Numbered(samples, m)
      /\ Numbers(samples) /\ bestFirst => Falling(s, m)
      /\ Numbers(samples) /\ ~ bestFirst => Rising(s, m)
  BY <1>1, OrdersArrange
<1>3. s \in [1..m -> S]
  BY <1>1, <1>2, ArrangedIn
<1>4. s \in Seq(S) /\ Len(s) = m
  BY <1>3, FunctionsAreSeqs
<1>5. ASSUME Numbers(samples)
      PROVE  Numbered(s, m)
  <2>1. ASSUME NEW r \in 1..m
        PROVE  s[r].metric \in Int
    <3>1. \E i \in 1..m : s[r] = samples[i]
      BY <1>2, ArrangedFrom
    <3> QED BY <1>2, <1>5, <3>1 DEF Numbered
  <2> QED BY <1>3, <2>1 DEF Numbered
<1> QED BY <1>2, <1>3, <1>4, <1>5

LEMMA GoodFacts ==
  ASSUME Searches, NEW n \in Nat, NEW drawn \in [1..n -> Tuples(Spread(call))]
  PROVE  \E m \in Nat : /\ Good(drawn) \in [1..m -> Sample(call)]
                        /\ m + Cardinality(Failing(drawn)) = n
<1> DEFINE places == DOMAIN drawn \ Failing(drawn)
           m == Cardinality(places)
<1>1. /\ places \subseteq 1..n /\ Failing(drawn) \subseteq 1..n
      /\ places \cup Failing(drawn) = 1..n /\ places \cap Failing(drawn) = {}
      /\ \A i \in places : MetricOf(drawn[i]) # Fails
  BY DEF Failing
<1>2. Good(drawn) = Picked(Evaluated(drawn), places)
  BY DEF Good
<1> HIDE DEF places
<1>3. /\ m \in Nat /\ IsFiniteSet(places)
      /\ DOMAIN Good(drawn) = 1..m
      /\ \A r \in 1..m : \E i \in places : Good(drawn)[r] = Evaluated(drawn)[i]
  BY <1>1, <1>2, PickedFacts
<1>4. \A i \in places : Evaluated(drawn)[i] \in Sample(call)
  BY <1>1, EvaluatedFacts
<1>5. \A r \in 1..m : Good(drawn)[r] \in Sample(call)
  BY <1>3, <1>4
<1>6. Good(drawn) \in [1..m -> Sample(call)]
  BY <1>2, <1>5 DEF Picked
<1>7. m + Cardinality(Failing(drawn)) = n
  <2>1. IsFiniteSet(Failing(drawn)) /\ Cardinality(Failing(drawn)) \in Nat
    BY <1>1, FirstOnes, FewerIn
  <2>2. Cardinality(places \cup Failing(drawn))
          = Cardinality(places) + Cardinality(Failing(drawn)) - Cardinality(places \cap Failing(drawn))
    BY <1>3, <2>1, FS_Union
  <2>3. Cardinality(places \cap Failing(drawn)) = 0 /\ Cardinality(places \cup Failing(drawn)) = n
    BY <1>1, FS_EmptySet, FirstOnes
  <2> QED BY <1>3, <2>1, <2>2, <2>3
<1> QED BY <1>3, <1>6, <1>7

Shares(s, m, v, q) ==
  /\ 100 * Cardinality(Under(s, m, v)) <= q * (m - 1) + 50
  /\ 100 * Cardinality(Over(s, m, v)) <= (100 - q) * (m - 1) + 50

LEMMA SharesHold ==
  ASSUME NEW m \in Nat, NEW samples, NEW s, Arranged(s, samples, m), Numbered(s, m), Rising(s, m),
         NEW q \in 0..100, NEW p, Fair(p, m, q)
  PROVE  Shares(samples, m, s[p].metric, q)
<1>1. p \in 1..m
  BY DEF Fair
<1>2. PICK v : v = s[p].metric
  OBVIOUS
<1>3. Cardinality(Under(s, m, v)) \in 0..p - 1 /\ Cardinality(Over(s, m, v)) \in 0..m - p
  BY <1>1, <1>2, RisingSides
<1>4. PICK a, b : /\ a = Cardinality(Under(samples, m, v)) /\ a \in 0..p - 1
                  /\ b = Cardinality(Over(samples, m, v)) /\ b \in 0..m - p
  BY <1>3, ArrangedSides
<1>5. PICK x \in Int, y \in Int : x = q * (m - 1) /\ y = (100 - q) * (m - 1)
  OBVIOUS
<1>6. 100 * (p - 1) <= x + 50 /\ 100 * (m - p) <= y + 50
  BY <1>5 DEF Fair
<1>7. 100 * a <= x + 50 /\ 100 * b <= y + 50
  BY <1>1, <1>4, <1>6
<1> QED BY <1>2, <1>4, <1>5, <1>7 DEF Shares

(* What an answer of the sensitivity test says of its samples.             *)
Says(a, m) ==
  /\ Shares(a.samples, m, a.median, 50)
  /\ \A q \in Quantiles : Shares(a.samples, m, a.quantile[q], q)
  /\ a.top[1].metric = a.max /\ a.bottom[1].metric = a.min
  /\ \A j \in DOMAIN a.top : Cardinality(Over(a.samples, m, a.top[j].metric)) < j
  /\ \A j \in DOMAIN a.bottom : Cardinality(Under(a.samples, m, a.bottom[j].metric)) < j

LEMMA SaysHold ==
  ASSUME NEW S, \A x \in S : x.metric \in Metric, NEW m \in Nat, m > 0, NEW good \in [1..m -> S],
         Numbers(good),
         NEW up \in Orders(good, FALSE), NEW rising \in Orders(good, FALSE),
         NEW falling \in Orders(good, TRUE), NEW a, a.samples = good,
         a.min = Extreme(good, FALSE), a.max = Extreme(good, TRUE),
         a.median = MedianOf(Metrics(up)),
         a.quantile = [q \in Quantiles |-> Quantile(Metrics(up), q)],
         a.top = First(falling, 5), a.bottom = First(rising, 5)
  PROVE  Says(a, m)
<1> PICK yes \in BOOLEAN : yes = TRUE
  OBVIOUS
<1> PICK no \in BOOLEAN : no = FALSE
  OBVIOUS
<1>1. /\ up \in Seq(S) /\ Len(up) = m /\ Arranged(up, good, m) /\ Numbered(up, m) /\ Rising(up, m)
      /\ Numbered(good, m)
  <2>1. up \in Orders(good, no)
    OBVIOUS
  <2> QED BY <2>1, Ordered
<1>2. /\ rising \in Seq(S) /\ Len(rising) = m /\ Arranged(rising, good, m) /\ Numbered(rising, m)
      /\ Rising(rising, m)
  <2>1. rising \in Orders(good, no)
    OBVIOUS
  <2> QED BY <2>1, Ordered
<1>3. /\ falling \in Seq(S) /\ Len(falling) = m /\ Arranged(falling, good, m) /\ Numbered(falling, m)
      /\ Falling(falling, m)
  <2>1. falling \in Orders(good, yes)
    OBVIOUS
  <2> QED BY <2>1, Ordered
<1>4. Len(Metrics(up)) = m /\ \A i \in 1..m : Metrics(up)[i] = up[i].metric
  <2>1. DOMAIN up = 1..m
    BY <1>1 DEF Numbered
  <2>2. Metrics(up) \in [1..m -> Int] /\ \A i \in 1..m : Metrics(up)[i] = up[i].metric
    BY <1>1, <2>1 DEF Metrics, Numbered
  <2> QED BY <2>2, FunctionsAreSeqs
<1>5. Shares(good, m, a.median, 50)
  <2>1. PICK p : p = m \div 2 + 1 /\ Fair(p, m, 50)
    BY QuantilePlace
  <2>2. a.median = up[p].metric
    BY <1>4, <2>1 DEF MedianOf, Fair
  <2>3. 50 \in 0..100
    OBVIOUS
  <2>4. Shares(good, m, up[p].metric, 50)
    BY <1>1, <2>1, <2>3, SharesHold
  <2> QED BY <2>2, <2>4
<1>6. ASSUME NEW q \in Quantiles
      PROVE  Shares(good, m, a.quantile[q], q)
  <2>1. PICK p : p = Nearest((m - 1) * q, 100) + 1 /\ Fair(p, m, q)
    BY QuantilePlace
  <2>2. a.quantile[q] = up[p].metric
    BY <1>4, <2>1 DEF Quantile, Fair
  <2>3. q \in 0..100
    BY DEF Quantiles
  <2>4. Shares(good, m, up[p].metric, q)
    BY <1>1, <2>1, <2>3, SharesHold
  <2> QED BY <2>2, <2>4
<1>7. /\ DOMAIN a.top = 1..Fewer(5, m) /\ \A j \in 1..Fewer(5, m) : a.top[j] = falling[j]
      /\ DOMAIN a.bottom = 1..Fewer(5, m) /\ \A j \in 1..Fewer(5, m) : a.bottom[j] = rising[j]
  <2>1. PICK k \in Nat : k = 5
    OBVIOUS
  <2>2. /\ First(falling, k) \in Seq(S) /\ Len(First(falling, k)) = Fewer(k, m)
        /\ \A i \in 1..Fewer(k, m) : First(falling, k)[i] = falling[i]
    BY <1>3, FirstFacts
  <2>3. /\ First(rising, k) \in Seq(S) /\ Len(First(rising, k)) = Fewer(k, m)
        /\ \A i \in 1..Fewer(k, m) : First(rising, k)[i] = rising[i]
    BY <1>2, FirstFacts
  <2> QED BY <2>1, <2>2, <2>3, LenProperties
<1>8. 1 \in 1..Fewer(5, m) /\ \A j \in 1..Fewer(5, m) : j \in 1..m
  BY DEF Fewer
<1>9. a.top[1].metric = a.max /\ a.bottom[1].metric = a.min
  <2>1. Extreme(good, TRUE) = falling[1].metric
    BY <1>1, <1>3, ExtremeFacts
  <2>2. Extreme(good, FALSE) = rising[1].metric
    BY <1>1, <1>2, ExtremeFacts
  <2> QED BY <1>7, <1>8, <2>1, <2>2
<1>10. ASSUME NEW j \in DOMAIN a.top
       PROVE  Cardinality(Over(good, m, a.top[j].metric)) < j
  <2>1. j \in 1..m /\ a.top[j] = falling[j]
    BY <1>7, <1>8
  <2>2. Cardinality(Over(falling, m, falling[j].metric)) \in 0..j - 1
    BY <1>3, <2>1, FallingSide
  <2>3. Cardinality(Over(good, m, falling[j].metric)) = Cardinality(Over(falling, m, falling[j].metric))
    BY <1>3, ArrangedSides
  <2> QED BY <2>1, <2>2, <2>3
<1>11. ASSUME NEW j \in DOMAIN a.bottom
       PROVE  Cardinality(Under(good, m, a.bottom[j].metric)) < j
  <2>1. j \in 1..m /\ a.bottom[j] = rising[j]
    BY <1>7, <1>8
  <2>2. Cardinality(Under(rising, m, rising[j].metric)) \in 0..j - 1
    BY <1>2, <2>1, RisingSides
  <2>3. Cardinality(Under(good, m, rising[j].metric)) = Cardinality(Under(rising, m, rising[j].metric))
    BY <1>2, ArrangedSides
  <2> QED BY <2>1, <2>2, <2>3
<1> QED BY <1>5, <1>6, <1>9, <1>10, <1>11 DEF Says

Describes ==
  /\ call \in Calls
  /\ phase \in {"running", "done"} => ~ Refused(call)
  /\ Answered("sensitivity") =>
       \E m \in Nat : /\ Len(answer.samples) = m /\ m + answer.failed = call.config.n
                      /\ Numbers(answer.samples) => Says(answer, m)

LEMMA DescribeSays ==
  ASSUME Describes, Describe
  PROVE  Describes'
<1>1. Entry("sensitivity") /\ phase' = "done" /\ call' = call
  BY DEF Describe
<1>2. PICK drawn \in Jitters :
        /\ Good(drawn) # <<>>
        /\ \E up, rising \in Orders(Good(drawn), FALSE) : \E falling \in Orders(Good(drawn), TRUE) :
             answer' = [samples |-> Good(drawn), failed |-> Cardinality(Failing(drawn)),
                        centre |-> Score(call.pack, call.centre),
                        min |-> Extreme(Good(drawn), FALSE), max |-> Extreme(Good(drawn), TRUE),
                        median |-> MedianOf(Metrics(up)),
                        quantile |-> [q \in Quantiles |-> Quantile(Metrics(up), q)],
                        top |-> First(falling, 5), bottom |-> First(rising, 5)]
  BY Zenon DEF Describe
<1> DEFINE good == Good(drawn)
<1>3. PICK up \in Orders(good, FALSE), rising \in Orders(good, FALSE), falling \in Orders(good, TRUE) :
        answer' = [samples |-> good, failed |-> Cardinality(Failing(drawn)),
                   centre |-> Score(call.pack, call.centre),
                   min |-> Extreme(good, FALSE), max |-> Extreme(good, TRUE),
                   median |-> MedianOf(Metrics(up)),
                   quantile |-> [q \in Quantiles |-> Quantile(Metrics(up), q)],
                   top |-> First(falling, 5), bottom |-> First(rising, 5)]
  BY <1>2
<1>4. PICK a : a = answer'
  OBVIOUS
<1>5. /\ a.samples = good /\ a.failed = Cardinality(Failing(drawn))
      /\ a.min = Extreme(good, FALSE) /\ a.max = Extreme(good, TRUE)
      /\ a.median = MedianOf(Metrics(up))
      /\ a.quantile = [q \in Quantiles |-> Quantile(Metrics(up), q)]
      /\ a.top = First(falling, 5) /\ a.bottom = First(rising, 5)
  BY <1>3, <1>4
<1>6. Searches /\ call.entry = "sensitivity"
  BY <1>1 DEF Entry, Searches, Describes
<1>7. PICK n \in Nat : n = call.config.n
  BY <1>6, CallAssumption DEF Searches
<1>8. drawn \in [1..n -> Tuples(Spread(call))]
  BY <1>7 DEF Jitters
<1>9. PICK m \in Nat : good \in [1..m -> Sample(call)] /\ m + Cardinality(Failing(drawn)) = n
  BY <1>6, <1>8, GoodFacts
<1>10. m > 0
  <2>1. good \in Seq(Sample(call)) /\ Len(good) = m
    BY <1>9, FunctionsAreSeqs
  <2>2. good # <<>>
    BY <1>2
  <2> HIDE DEF good
  <2> QED BY <2>1, <2>2, EmptySeq
<1>11. PICK S : S = Sample(call) /\ \A x \in S : x.metric \in Metric
  <2>1. \A x \in Sample(call) : x.metric \in Metric
    BY DEF Sample
  <2> QED BY <2>1
<1> HIDE DEF good
<1>12. Numbers(good) => Says(a, m)
  BY <1>3, <1>5, <1>9, <1>10, <1>11, SaysHold
<1>13. Len(good) = m
  BY <1>9, <1>11, FunctionsAreSeqs
<1> QED BY <1>1, <1>4, <1>5, <1>6, <1>7, <1>9, <1>12, <1>13
    DEF Describes, Answered, Searches, Refused, ConfigOK

LEMMA DescribesInv == Spec => []Describes
<1>1. Init => Describes
  BY DEF Init, Describes, Answered
<1>2. ASSUME Describes, [Next]_vars
      PROVE  Describes'
  <2>1. CASE Describe
    BY <1>2, <2>1, DescribeSays
  <2>2. CASE ~ Describe
    <3>1. /\ call' = call
          /\ \/ UNCHANGED <<phase, answer>>
             \/ phase = "running" /\ (phase' = "done" => call.entry # "sensitivity")
      BY <2>2, <1>2 DEF Next, vars, search, Batch, Work, Collect, Abandon, Optimize, Round, RoundFails,
         RoundPanics, Optimized, Sensitivity, DescribeFails, DescribePanics, Entry
    <3> QED BY <1>2, <3>1 DEF Describes, Answered, Refused, ConfigOK
  <2> QED BY <2>1, <2>2
<1> QED BY <1>1, <1>2, PTL DEF Spec

(* No sample of a sensitivity test is lost; as many lie to either side of  *)
(* its median and its quantiles as their shares allow, and its best and    *)
(* worst samples are, in order.                                            *)
THEOREM QuantilesAlwaysHold == Spec => []QuantilesHold
<1>1. ASSUME Describes
      PROVE  QuantilesHold
  <2> SUFFICES ASSUME Answered("sensitivity")
               PROVE  QuantilesHold
    BY DEF QuantilesHold
  <2>1. /\ Len(answer.samples) + answer.failed = call.config.n
        /\ Numbers(answer.samples) => Says(answer, Len(answer.samples))
    BY <1>1 DEF Describes
  <2> QED BY <2>1, Zenon DEF QuantilesHold, Says, Shares, Under, Over
<1> QED BY <1>1, DescribesInv, PTL
-----------------------------------------------------------------------------
(* The batch                                                               *)

LEMMA StageFacts ==
  /\ UpTo("signals") = {"indicators", "signals"}
  /\ UpTo("backtest") = {"indicators", "signals", "backtest"}
  /\ UpTo("performance") = {"indicators", "signals", "backtest", "performance"}
<1>1. /\ DOMAIN Stages = 1..4 /\ Stages[1] = "indicators" /\ Stages[2] = "signals"
      /\ Stages[3] = "backtest" /\ Stages[4] = "performance"
  BY DEF Stages
<1>2. /\ StageOf("signals") = 2 /\ StageOf("backtest") = 3 /\ StageOf("performance") = 4
  BY <1>1 DEF StageOf
<1>3. 1..2 = {1, 2} /\ 1..3 = {1, 2, 3} /\ 1..4 = {1, 2, 3, 4}
  OBVIOUS
<1> QED BY <1>1, <1>2, <1>3 DEF UpTo

Everything == [stage |-> "performance", keep |-> "all"]

(* The result pack of a set of parameters, part by part.                   *)
WholePack(pack, param) ==
  [name \in {"indicators", "signals", "backtest", "performance", "known"} |->
     CASE name = "known" -> Known(pack, Normalized(param["indicators"]))
       [] name = "indicators" -> WithTime(Normalized(param["indicators"]))
       [] name = "signals" -> param["signals"]
       [] name = "backtest" -> WithoutInternal(param["backtest"])
       [] OTHER -> IF Analyzed(pack, param["backtest"]) = Nothing THEN Nothing
                   ELSE Analyzed(pack, param["backtest"])]

(* What holds of a set of parameters whose result pack is built.           *)
Builds(pack, param) ==
  /\ param["indicators"] # Fails /\ param["signals"] # Fails /\ param["backtest"] # Fails
  /\ RawIndicators(pack, Normalized(param["indicators"]))
  /\ FrameHeight(pack, param["signals"]) /\ FrameHeight(pack, param["backtest"])

LEMMA PackFacts ==
  ASSUME NEW pack, NEW param, HasShape(param), NEW result,
         result = SinglePack(pack, param, Compiled(Everything)), result # Fails
  PROVE  Builds(pack, param) /\ result = WholePack(pack, param)
<1> DEFINE names == {"indicators", "signals", "backtest", "performance"}
           out == Output(pack, param, Compiled(Everything))
<1>1. PICK R : R = Compiled(Everything)
  OBVIOUS
<1>2. R.from = "scratch" /\ R.to = "performance" /\ R.keep = "all"
  BY <1>1 DEF Compiled, Everything
<1>3. Skipped(R) = {} /\ Keeps(R) = names
  BY <1>2, StageFacts DEF Skipped, Keeps
<1>4. Executes(pack, param, R) /\ Packs(pack, out) /\ result = ResultPack(pack, out)
  BY <1>1 DEF SinglePack
<1>5. /\ param["indicators"] # Fails /\ param["signals"] # Fails /\ param["backtest"] # Fails
      /\ FrameHeight(pack, param["backtest"])
  BY <1>2, <1>3, <1>4, StageFacts DEF Executes, ComputedBacktest
<1>6. /\ out["indicators"] = Normalized(param["indicators"])
      /\ out["signals"] = param["signals"] /\ out["backtest"] = param["backtest"]
      /\ out["performance"] = Analyzed(pack, param["backtest"])
  BY <1>1, <1>3, StageFacts DEF Output, Artifact, ComputedBacktest
<1> HIDE DEF out
<1>7. /\ out["indicators"] # Nothing /\ out["signals"] # Nothing /\ out["backtest"] # Nothing
  BY <1>5, <1>6 DEF HasShape
<1>8. RawIndicators(pack, Normalized(param["indicators"])) /\ FrameHeight(pack, param["signals"])
  BY <1>4, <1>6, <1>7 DEF Packs
<1>9. ResultPack(pack, out) = WholePack(pack, param)
  BY <1>6, <1>7, StageFacts DEF ResultPack, WholePack
<1> QED BY <1>4, <1>5, <1>8, <1>9 DEF Builds

(* What was stripped of its time columns is what there was before.         *)
LEMMA StrippedFacts ==
  ASSUME NEW pack, NEW param, HasShape(param), Builds(pack, param)
  PROVE  /\ Strippable(WithTime(Normalized(param["indicators"])))
         /\ Stripped(WithTime(Normalized(param["indicators"]))) = Normalized(param["indicators"])
<1> DEFINE raw == param["indicators"]
           kept == Normalized(raw)
<1>1. \A k \in DOMAIN raw : raw[k] \in [width : Nat, height : Nat, time : Nat]
  BY DEF HasShape, Builds
<1>2. PICK D : D \subseteq DOMAIN raw /\ kept = [k \in D |-> raw[k]]
  BY DEF Normalized
<1> HIDE DEF kept
<1>3. \A k \in D : kept[k] \in [width : Nat, height : Nat, time : Nat] /\ kept[k].time = 0
  BY <1>1, <1>2 DEF Builds, RawIndicators, kept
<1>4. WithTime(kept) = [k \in D |-> [kept[k] EXCEPT !.time = @ + 1]]
  BY <1>2 DEF WithTime
<1>5. \A k \in D : WithTime(kept)[k] = [kept[k] EXCEPT !.time = 1]
  BY <1>3, <1>4
<1>6. Strippable(WithTime(kept))
  BY <1>3, <1>4, <1>5 DEF Strippable
<1>7. Stripped(WithTime(kept)) = [k \in D |-> [WithTime(kept)[k] EXCEPT !.time = 0]]
  BY <1>4 DEF Stripped
<1>8. \A k \in D : [WithTime(kept)[k] EXCEPT !.time = 0] = kept[k]
  BY <1>3, <1>5
<1>9. Stripped(WithTime(kept)) = kept
  BY <1>2, <1>7, <1>8
<1> QED BY <1>6, <1>9 DEF kept

(* Taken up again from its signals or its backtest, a whole result pack    *)
(* comes out as it was.                                                    *)
LEMMA ResumedFacts ==
  ASSUME NEW pack, NEW param, HasShape(param), Builds(pack, param),
         NEW from \in {"signals", "backtest"}
  PROVE  SinglePack(pack, param, Again(WholePack(pack, param), from)) = WholePack(pack, param)
<1> DEFINE names == {"indicators", "signals", "backtest", "performance"}
           R == Again(WholePack(pack, param), from)
           out == Output(pack, param, R)
           b == param["backtest"]
           w == WithoutInternal(b)
<1>1. /\ R.from = from /\ R.to = "performance" /\ R.keep = "all"
      /\ R.given["indicators"] = Stripped(WholePack(pack, param)["indicators"])
      /\ R.given["signals"] = WholePack(pack, param)["signals"]
      /\ R.given["backtest"] = WholePack(pack, param)["backtest"]
  BY StageFacts DEF Again
<1>2. /\ R.given["indicators"] = Normalized(param["indicators"])
      /\ R.given["signals"] = param["signals"] /\ R.given["backtest"] = w
  BY <1>1, StrippedFacts DEF WholePack
<1> HIDE DEF R
<1>3. /\ param["indicators"] # Fails /\ param["signals"] # Fails /\ b # Fails
      /\ RawIndicators(pack, Normalized(param["indicators"]))
      /\ FrameHeight(pack, param["signals"]) /\ FrameHeight(pack, b)
      /\ Normalized(param["indicators"]) # Nothing /\ param["signals"] # Nothing /\ b # Nothing
      /\ DOMAIN b = {"height", "leading", "rows", "score"}
  BY DEF Builds, HasShape
<1>4. w = [x \in DOMAIN b |-> IF x = "leading" THEN FALSE ELSE b[x]]
  BY DEF WithoutInternal
<1>5. w.height = b.height /\ w.rows = b.rows /\ w.score = b.score
  BY <1>3, <1>4
<1>6. WithoutInternal(w) = w
  BY <1>4 DEF WithoutInternal
<1> HIDE DEF w, b
<1>7. FrameHeight(pack, w)
  BY <1>3, <1>5 DEF FrameHeight
<1>8. Analyzed(pack, w) = Analyzed(pack, b)
  BY <1>5 DEF Analyzed
<1>9. /\ from = "signals" => Skipped(R) = {"indicators", "signals"}
      /\ from = "backtest" => Skipped(R) = {"indicators", "signals", "backtest"}
      /\ Keeps(R) = names
  BY <1>1, StageFacts DEF Skipped, Keeps
<1>10. PICK found : found = ComputedBacktest(param, R) /\ (found = b \/ found = w)
                    /\ (from = "backtest" => found = w) /\ (from = "signals" => found = b)
  BY <1>2, <1>9 DEF ComputedBacktest, b
<1>11. Accepts(pack, R)
  BY <1>1, <1>2, <1>3, <1>7 DEF Accepts
<1>12. Executes(pack, param, R)
  BY <1>1, <1>3, <1>7, <1>9, <1>10, <1>11, StageFacts DEF Executes, b
<1>13. /\ out["indicators"] = Normalized(param["indicators"])
       /\ out["signals"] = param["signals"] /\ out["backtest"] = found
       /\ out["performance"] = Analyzed(pack, b)
  <2>1. /\ out["indicators"] = Artifact(pack, param, R, "indicators")
        /\ out["signals"] = Artifact(pack, param, R, "signals")
        /\ out["backtest"] = Artifact(pack, param, R, "backtest")
        /\ out["performance"] = Artifact(pack, param, R, "performance")
    BY <1>9, StageFacts DEF Output
  <2>2. /\ Artifact(pack, param, R, "indicators") = Normalized(param["indicators"])
        /\ Artifact(pack, param, R, "signals") = param["signals"]
        /\ Artifact(pack, param, R, "performance") = Analyzed(pack, found)
    BY <1>2, <1>9, <1>10 DEF Artifact
  <2>3. Artifact(pack, param, R, "backtest") = found
    BY <1>2, <1>9, <1>10 DEF Artifact, b
  <2>4. Analyzed(pack, found) = Analyzed(pack, b)
    BY <1>8, <1>10
  <2> QED BY <2>1, <2>2, <2>3, <2>4
<1> HIDE DEF out
<1>14. Packs(pack, out)
  BY <1>3, <1>7, <1>10, <1>13 DEF Packs
<1>15. SinglePack(pack, param, R) = ResultPack(pack, out)
  BY <1>12, <1>14 DEF SinglePack, out
<1>16. /\ found = Nothing => w = Nothing
       /\ found # Nothing => WithoutInternal(found) = w
  BY <1>3, <1>6, <1>10 DEF w
<1>17. ResultPack(pack, out)
         = [name \in names \cup {"known"} |->
              CASE name = "known" -> Known(pack, Normalized(param["indicators"]))
                [] name = "indicators" -> WithTime(Normalized(param["indicators"]))
                [] name = "signals" -> param["signals"]
                [] name = "backtest" -> w
                [] OTHER -> IF Analyzed(pack, b) = Nothing THEN Nothing ELSE Analyzed(pack, b)]
  BY <1>3, <1>13, <1>16, StageFacts DEF ResultPack
<1>18. ResultPack(pack, out) = WholePack(pack, param)
  BY <1>17 DEF WholePack, w, b
<1> QED BY <1>15, <1>18 DEF R

(* A search would see the performance the pack tells.                      *)
LEMMA ScoredAlike ==
  ASSUME NEW pack, NEW param, Builds(pack, param), WholePack(pack, param)["performance"].counted
  PROVE  WholePack(pack, param)["performance"].score = Score(pack, param)
<1>1. /\ Evaluation.from = "scratch" /\ Evaluation.to = "performance"
      /\ Skipped(Evaluation) = {}
  BY DEF Evaluation, Skipped
<1>2. WholePack(pack, param)["performance"] = Analyzed(pack, param["backtest"])
  BY DEF WholePack
<1>3. Executes(pack, param, Evaluation)
  BY <1>1, StageFacts DEF Executes, Accepts, ComputedBacktest, Builds
<1>4. Artifact(pack, param, Evaluation, "performance") = Analyzed(pack, param["backtest"])
  BY <1>1 DEF Artifact, ComputedBacktest
<1> QED BY <1>2, <1>3, <1>4 DEF Score

Batched ==
  /\ call \in Calls
  /\ call.entry = "batch" =>
       /\ DOMAIN jobs = DOMAIN call.params
       /\ \A i \in DOMAIN jobs :
            jobs[i] \in {Nothing, SinglePack(call.pack, call.params[i], Request)}
       /\ phase = "done" =>
            answer = jobs /\ \A i \in DOMAIN jobs : jobs[i] \notin {Nothing, Fails}

LEMMA BatchedInv == Spec => []Batched
<1>1. Init => Batched
  BY DEF Init, Batched
<1>2. ASSUME Batched, [Next]_vars
      PROVE  Batched'
  <2>1. CASE \E i \in DOMAIN jobs : Work(i)
    <3>1. PICK i \in DOMAIN jobs : Work(i)
      BY <2>1
    <3>2. /\ call' = call /\ phase = "running" /\ phase' = phase
          /\ jobs' = [jobs EXCEPT ![i] = SinglePack(call.pack, call.params[i], Request)]
      BY <3>1 DEF Work, Entry
    <3>3. Request' = Request
      BY <3>2 DEF Request
    <3> QED BY <1>2, <3>2, <3>3 DEF Batched
  <2>2. CASE Collect
    BY <1>2, <2>2 DEF Collect, Entry, Batched, Request
  <2>3. CASE ~ (\E i \in DOMAIN jobs : Work(i)) /\ ~ Collect
    <3>1. /\ call' = call
          /\ \/ UNCHANGED <<phase, jobs, answer>>
             \/ jobs' = jobs /\ (phase' = "done" => call.entry # "batch")
      BY <2>3, <1>2 DEF Next, vars, Batch, Abandon, Optimize, Round, RoundFails, RoundPanics,
         Optimized, Sensitivity, Describe, DescribeFails, DescribePanics, Entry
    <3> QED BY <1>2, <3>1 DEF Batched, Request
  <2> QED BY <2>1, <2>2, <2>3
<1> QED BY <1>1, <1>2, PTL DEF Spec

(* A result pack that kept everything gives the same result when the       *)
(* pipeline takes it up again from its signals or from its backtest.       *)
THEOREM ResumesAlikeHolds == Spec => []ResumesAlike
<1>1. ASSUME Batched
      PROVE  ResumesAlike
  <2> SUFFICES ASSUME Answered("batch"), call.settings = Everything, NEW i \in DOMAIN answer
               PROVE  /\ Strippable(answer[i]["indicators"])
                      /\ \A from \in {"signals", "backtest"} :
                           SinglePack(call.pack, call.params[i], Again(answer[i], from)) = answer[i]
                      /\ answer[i]["performance"].counted =>
                           answer[i]["performance"].score = Score(call.pack, call.params[i])
    BY DEF ResumesAlike, Everything
  <2>1. PICK pack, param : pack = call.pack /\ param = call.params[i]
    OBVIOUS
  <2>2. /\ answer[i] = SinglePack(pack, param, Compiled(Everything)) /\ answer[i] # Fails
        /\ call \in Calls /\ call.entry = "batch" /\ i \in DOMAIN call.params
    BY <1>1, <2>1 DEF Batched, Answered, Request
  <2>3. HasShape(param)
    BY <2>1, <2>2, CallAssumption
  <2>4. Builds(pack, param) /\ answer[i] = WholePack(pack, param)
    BY <2>2, <2>3, PackFacts
  <2>5. Strippable(answer[i]["indicators"])
    BY <2>3, <2>4, StrippedFacts DEF WholePack
  <2>6. \A from \in {"signals", "backtest"} :
          SinglePack(pack, param, Again(answer[i], from)) = answer[i]
    BY <2>3, <2>4, ResumedFacts
  <2>7. answer[i]["performance"].counted => answer[i]["performance"].score = Score(pack, param)
    BY <2>4, ScoredAlike
  <2> QED BY <2>1, <2>5, <2>6, <2>7
<1> QED BY <1>1, BatchedInv, PTL

-----------------------------------------------------------------------------
(* The scan of a backtest.  Spans are followed over a set of rows D: its   *)
(* stretches so far are listed, the one that reaches the row is current.   *)

IsSeq(s) == s \in Seq({s[i] : i \in 1..Len(s)})

LEMMA Appended ==
  ASSUME NEW s, IsSeq(s), NEW w
  PROVE  /\ IsSeq(Append(s, w))
         /\ Len(s) \in Nat
         /\ Len(Append(s, w)) = Len(s) + 1
         /\ \A i \in 1..Len(s) : Append(s, w)[i] = s[i]
         /\ Append(s, w)[Len(s) + 1] = w
<1> DEFINE X == {s[i] : i \in 1..Len(s)} \cup {w}
           t == Append(s, w)
<1>1. s \in Seq(X) /\ w \in X
  <2>1. s \in Seq({s[i] : i \in 1..Len(s)})
    BY DEF IsSeq
  <2> QED BY <2>1
<1> HIDE DEF X
<1>2. /\ t \in Seq(X) /\ Len(s) \in Nat /\ Len(t) = Len(s) + 1
      /\ \A i \in 1..Len(s) : t[i] = s[i]
      /\ t[Len(s) + 1] = w
  BY <1>1
<1>3. t \in Seq({t[i] : i \in 1..Len(t)})
  <2> DEFINE Y == {t[i] : i \in 1..Len(t)}
  <2>1. t \in [1..Len(t) -> X] /\ Len(t) \in Nat
    BY <1>2, LenProperties
  <2>2. t \in [1..Len(t) -> Y]
    BY <2>1
  <2>3. t \in Seq(Y)
    BY <2>1, <2>2, SeqDef
  <2> QED BY <2>3
<1> QED BY <1>2, <1>3 DEF IsSeq

(* Times that never fall.                                                  *)
Timed(times, n) ==
  /\ n \in Nat /\ n >= 2 /\ times \in Seq(Int) /\ Len(times) = n
  /\ \A i \in 1..n - 1 : times[i] <= times[i + 1]

Spanned(times, s) == [bars |-> s[2] - s[1] + 1, ms |-> Time(times, s)]

LEMMA LastsFacts ==
  ASSUME NEW times, NEW n, Timed(times, n)
  PROVE  \A i \in 1..n - 1 : Lasts(times)[i] = times[i + 1] - times[i]
<1>1. /\ n \in Nat /\ n >= 2 /\ times \in Seq(Int) /\ Len(times) = n
      /\ \A i \in 1..n - 1 : times[i] <= times[i + 1]
  BY DEF Timed
<1>2. PICK delta : delta = [i \in 1..n - 1 |-> AtLeastNone(times[i + 1] - times[i])]
  OBVIOUS
<1>3. \A i \in 1..n - 1 : times[i + 1] \in Int /\ times[i] \in Int
  BY <1>1
<1>4. \A i \in 1..n - 1 : delta[i] = times[i + 1] - times[i] /\ delta[i] \in Int
  BY <1>1, <1>2, <1>3 DEF AtLeastNone
<1>5. delta \in [1..n - 1 -> Int] /\ n - 1 \in Nat
  BY <1>1, <1>2, <1>4
<1>6. delta \in Seq(Int) /\ Len(delta) = n - 1
  BY <1>5, SeqDef, LenProperties
<1>7. IsSeq(delta)
  <2>1. delta \in [1..n - 1 -> {delta[i] : i \in 1..Len(delta)}]
    BY <1>5, <1>6
  <2> QED BY <1>5, <1>6, <2>1, SeqDef DEF IsSeq
<1>8. \E v : Lasts(times) = Append(delta, v)
  <2>1. ~ (Len(times) < 2) /\ delta = [i \in 1..Len(times) - 1 |-> AtLeastNone(times[i + 1] - times[i])]
    BY <1>1, <1>2
  <2> QED BY <2>1, Zenon DEF Lasts
<1>9. PICK v : Lasts(times) = Append(delta, v)
  BY <1>8
<1> QED BY <1>4, <1>6, <1>7, <1>9, Appended

LEMMA TimeStarts ==
  ASSUME NEW times, NEW n, Timed(times, n), NEW i \in 1..n
  PROVE  Spanned(times, <<i, i>>) = Longer(NoSpan, Lasts(times)[i])
<1>1. /\ n \in Nat /\ times \in Seq(Int) /\ Len(times) = n /\ times[i] \in Int
  BY DEF Timed
<1>2. i < n => Lasts(times)[i] = times[i + 1] - times[i] /\ times[i + 1] \in Int
  <2> SUFFICES ASSUME i < n
               PROVE  Lasts(times)[i] = times[i + 1] - times[i] /\ times[i + 1] \in Int
    OBVIOUS
  <2>1. i \in 1..n - 1 /\ i + 1 \in 1..n
    BY <1>1
  <2>2. times[i + 1] \in Int
    BY <1>1, <2>1
  <2> QED BY <2>1, <2>2, LastsFacts
<1>3. Time(times, <<i, i>>) = 0 + Lasts(times)[i]
  <2>1. CASE i < n
    BY <1>1, <1>2, <2>1 DEF Time
  <2>2. CASE ~ (i < n)
    <3>1. times[i] - times[i] = 0
      BY <1>1
    <3> QED BY <1>1, <2>2, <3>1 DEF Time
  <2> QED BY <2>1, <2>2
<1>4. i - i + 1 = 0 + 1
  OBVIOUS
<1> QED BY <1>3, <1>4 DEF Spanned, Longer, NoSpan

LEMMA TimeGrows ==
  ASSUME NEW times, NEW n, Timed(times, n), NEW j \in 1..n, NEW i \in 1..n - 1, j <= i
  PROVE  Spanned(times, <<j, i + 1>>) = Longer(Spanned(times, <<j, i>>), Lasts(times)[i + 1])
<1>1. /\ n \in Nat /\ times \in Seq(Int) /\ Len(times) = n /\ times[i] \in Int /\ times[j] \in Int
      /\ times[i + 1] \in Int
  BY DEF Timed
<1>2. i + 1 < n => Lasts(times)[i + 1] = times[i + 2] - times[i + 1] /\ times[i + 2] \in Int
  <2> SUFFICES ASSUME i + 1 < n
               PROVE  Lasts(times)[i + 1] = times[i + 2] - times[i + 1] /\ times[i + 2] \in Int
    OBVIOUS
  <2>1. i + 1 \in 1..n - 1 /\ (i + 1) + 1 = i + 2 /\ i + 2 \in 1..n
    BY <1>1
  <2>2. times[i + 2] \in Int
    BY <1>1, <2>1
  <2>3. Lasts(times)[i + 1] = times[(i + 1) + 1] - times[i + 1]
    BY <2>1, LastsFacts
  <2> QED BY <2>1, <2>2, <2>3
<1>3. Time(times, <<j, i>>) = times[i + 1] - times[j]
  BY <1>1 DEF Time
<1>4. Time(times, <<j, i + 1>>) = Time(times, <<j, i>>) + Lasts(times)[i + 1]
  <2>1. CASE i + 1 < n
    BY <1>1, <1>2, <1>3, <2>1 DEF Time
  <2>2. CASE ~ (i + 1 < n)
    BY <1>1, <1>3, <2>2 DEF Time
  <2> QED BY <2>1, <2>2
<1>5. (i + 1) - j + 1 = (i - j + 1) + 1
  BY <1>1
<1> QED BY <1>4, <1>5 DEF Spanned, Longer

(* D holds rows from 1 to n.                                               *)
RowsTo(D, n) == n \in Nat /\ D \subseteq 1..n

(* The rows where a stretch of D starts, until row j.                      *)
Starts(D, j) == {k \in D : k <= j /\ k - 1 \notin D}

Listing(list, D, j, times) ==
  /\ Len(list) = Cardinality(Starts(D, j))
  /\ \A s \in Stretches(D) :
       s[2] <= j => list[Cardinality(Starts(D, s[1]))] = Spanned(times, s)

Reaches(D, lo, i) == lo \in 1..i /\ lo..i \subseteq D /\ lo - 1 \notin D

Walk(list, cur, D, i, times) ==
  /\ IsSeq(list)
  /\ i \in D => \E lo \in Nat : /\ Reaches(D, lo, i) /\ cur = Spanned(times, <<lo, i>>)
                               /\ Listing(list, D, lo - 1, times)
  /\ i \notin D => cur = NoSpan /\ Listing(list, D, i, times)

LEMMA StartsFacts ==
  ASSUME NEW n, NEW D, RowsTo(D, n), NEW i \in Int, NEW j \in Int, i <= j
  PROVE  /\ IsFiniteSet(Starts(D, i)) /\ Cardinality(Starts(D, i)) \in Nat
         /\ Cardinality(Starts(D, i)) <= Cardinality(Starts(D, j))
<1>0. n \in Nat /\ D \subseteq 1..n
  BY DEF RowsTo
<1>1. IsFiniteSet(1..n)
  BY <1>0, FirstOnes
<1>2. ASSUME NEW k \in D, k <= i
      PROVE  k <= j
  <2>1. k \in Int
    BY <1>0
  <2> QED BY <1>0, <1>2, <2>1
<1>2a. Starts(D, i) \subseteq 1..n /\ Starts(D, j) \subseteq 1..n /\ Starts(D, i) \subseteq Starts(D, j)
  BY <1>0, <1>2 DEF Starts
<1>3. IsFiniteSet(Starts(D, j))
  BY <1>0, <1>1, <1>2a, FewerIn
<1> QED BY <1>0, <1>2a, <1>3, FewerIn

LEMMA StartsSame ==
  ASSUME NEW n, NEW D, RowsTo(D, n), NEW i \in Nat, i + 1 \notin D
  PROVE  Starts(D, i + 1) = Starts(D, i)
<1>0. n \in Nat /\ D \subseteq 1..n
  BY DEF RowsTo
<1>1. ASSUME NEW k \in D
      PROVE  k <= i + 1 <=> k <= i
  <2>1. k \in Int /\ k # i + 1
    BY <1>0
  <2> QED BY <1>0, <2>1
<1> QED BY <1>0, <1>1 DEF Starts

(* A row behind a stretch that reaches it.                                 *)
LEMMA StartsOnce ==
  ASSUME NEW n, NEW D, RowsTo(D, n), NEW i \in Nat, NEW lo \in Nat, Reaches(D, lo, i)
  PROVE  /\ Starts(D, i) = Starts(D, lo)
         /\ Cardinality(Starts(D, lo)) = Cardinality(Starts(D, lo - 1)) + 1
<1>0. n \in Nat /\ D \subseteq 1..n
  BY DEF RowsTo
<1>1. lo \in D /\ lo - 1 \notin D /\ lo <= i
  BY <1>0 DEF Reaches
<1>2. ASSUME NEW k \in Starts(D, i)
      PROVE  k <= lo
  <2>1. k \in D /\ k <= i /\ k - 1 \notin D /\ k \in Int
    BY <1>0 DEF Starts
  <2> SUFFICES ASSUME k > lo
               PROVE  FALSE
    BY <1>0, <2>1
  <2>2. k - 1 \in lo..i
    BY <1>0, <2>1
  <2> QED BY <1>0, <2>1, <2>2 DEF Reaches
<1>3. Starts(D, i) = Starts(D, lo)
  <2>1. Starts(D, i) \subseteq Starts(D, lo)
    BY <1>0, <1>2 DEF Starts
  <2>2. ASSUME NEW k \in D, k <= lo
        PROVE  k <= i
    <3>1. k \in Int
      BY <1>0
    <3> QED BY <1>0, <1>1, <2>2, <3>1
  <2>3. Starts(D, lo) \subseteq Starts(D, i)
    BY <1>0, <2>2 DEF Starts
  <2> QED BY <1>0, <2>1, <2>3
<1>4. Starts(D, lo) = Starts(D, lo - 1) \cup {lo} /\ lo \notin Starts(D, lo - 1)
  <2>1. ASSUME NEW k \in D
        PROVE  k <= lo <=> k <= lo - 1 \/ k = lo
    <3>1. k \in Int
      BY <1>0
    <3> QED BY <1>0, <3>1
  <2>2. ~ (lo <= lo - 1)
    BY <1>0
  <2> QED BY <1>0, <1>1, <2>1, <2>2 DEF Starts
<1>5. IsFiniteSet(Starts(D, lo - 1))
  <2>1. lo - 1 \in Int /\ lo - 1 <= lo - 1
    BY <1>0
  <2> QED BY <1>0, <2>1, StartsFacts
<1>6. Cardinality(Starts(D, lo - 1) \cup {lo}) = Cardinality(Starts(D, lo - 1)) + 1
  BY <1>0, <1>4, <1>5, FS_AddElement
<1> QED BY <1>0, <1>3, <1>4, <1>6

LEMMA StretchFacts ==
  ASSUME NEW n, NEW D, RowsTo(D, n), NEW s \in Stretches(D)
  PROVE  /\ s[1] \in 1..n /\ s[2] \in 1..n /\ s[1] <= s[2]
         /\ s[1] \in D /\ s[2] \in D /\ s[1] - 1 \notin D /\ s[2] + 1 \notin D
         /\ \A k \in s[1]..s[2] : k \in D
<1>0. n \in Nat /\ D \subseteq 1..n
  BY DEF RowsTo
<1>1. /\ s \in D \X D /\ s[1] <= s[2] /\ s[1]..s[2] \subseteq D
      /\ s[1] - 1 \notin D /\ s[2] + 1 \notin D
  BY <1>0 DEF Stretches
<1>2. s[1] \in D /\ s[2] \in D
  BY <1>0, <1>1
<1>3. s[1] \in 1..n /\ s[2] \in 1..n
  BY <1>0, <1>2
<1> QED BY <1>0, <1>1, <1>2, <1>3

(* Two stretches do not touch.                                             *)
LEMMA StretchesApart ==
  ASSUME NEW n, NEW D, RowsTo(D, n), NEW s \in Stretches(D),
         NEW i \in Nat, NEW lo \in Nat, Reaches(D, lo, i)
  PROVE  /\ s[2] < lo \/ s[2] >= i
         /\ s[2] = i => s[1] = lo
         /\ s[2] < lo => s[1] < lo /\ s[2] < lo - 1
<1>0. n \in Nat /\ D \subseteq 1..n
  BY DEF RowsTo
<1>1. /\ s[1] \in 1..n /\ s[2] \in 1..n /\ s[1] <= s[2]
      /\ s[1] - 1 \notin D /\ s[2] + 1 \notin D /\ s[2] \in D
      /\ \A k \in s[1]..s[2] : k \in D
  BY <1>0, StretchFacts
<1>2. lo <= i /\ lo - 1 \notin D /\ \A k \in lo..i : k \in D
  BY <1>0 DEF Reaches
<1>3. s[2] < lo \/ s[2] >= i
  <2> SUFFICES ASSUME s[2] >= lo, s[2] < i
               PROVE  FALSE
    BY <1>0, <1>1
  <2>1. s[2] + 1 \in lo..i
    BY <1>0, <1>1
  <2> QED BY <1>0, <1>1, <1>2, <2>1
<1>4. s[2] = i => s[1] = lo
  <2> SUFFICES ASSUME s[2] = i
               PROVE  s[1] = lo
    BY <1>0
  <2>1. ~ (s[1] < lo)
    <3> SUFFICES ASSUME s[1] < lo
                 PROVE  FALSE
      BY <1>0
    <3>1. lo - 1 \in s[1]..s[2]
      BY <1>0, <1>1, <1>2
    <3> QED BY <1>0, <1>1, <1>2, <3>1
  <2>2. ~ (s[1] > lo)
    <3> SUFFICES ASSUME s[1] > lo
                 PROVE  FALSE
      BY <1>0
    <3>1. s[1] - 1 \in lo..i
      BY <1>0, <1>1
    <3> QED BY <1>0, <1>1, <1>2, <3>1
  <2> QED BY <1>0, <1>1, <2>1, <2>2
<1>5. s[2] < lo => s[1] < lo /\ s[2] < lo - 1
  BY <1>0, <1>1, <1>2
<1> QED BY <1>0, <1>1, <1>3, <1>4, <1>5

LEMMA StretchesMeet ==
  ASSUME NEW n, NEW D, RowsTo(D, n), NEW s \in Stretches(D),
         NEW lo \in Nat, Reaches(D, lo, s[2])
  PROVE  s[1] = lo
<1>0. n \in Nat /\ D \subseteq 1..n
  BY DEF RowsTo
<1>1. s[2] \in Nat
  BY <1>0, StretchFacts
<1> QED BY <1>0, <1>1, StretchesApart

LEMMA WalkStarts ==
  ASSUME NEW n, NEW D, RowsTo(D, n), NEW times
  PROVE  Walk(<<>>, NoSpan, D, 0, times)
<1>0. n \in Nat /\ D \subseteq 1..n
  BY DEF RowsTo
<1>1. 0 \notin D /\ \A k \in D : ~ (k <= 0)
  BY <1>0
<1>2. Starts(D, 0) = {}
  BY <1>0, <1>1 DEF Starts
<1>3. ASSUME NEW s \in Stretches(D)
      PROVE  ~ (s[2] <= 0)
  <2>1. s[2] \in D
    BY <1>0, StretchFacts
  <2> QED BY <1>0, <1>1, <2>1
<1>4. IsSeq(<<>>) /\ Len(<<>>) = 0
  BY <1>0 DEF IsSeq
<1> QED BY <1>0, <1>1, <1>2, <1>3, <1>4, FS_EmptySet DEF Walk, Listing

(* A row of D.                                                             *)
LEMMA WalkOn ==
  ASSUME NEW times, NEW n, Timed(times, n), NEW D, RowsTo(D, n),
         NEW i \in Nat, i + 1 \in D, NEW list, NEW cur, Walk(list, cur, D, i, times)
  PROVE  Walk(list, Longer(cur, Lasts(times)[i + 1]), D, i + 1, times)
<1>0. n \in Nat /\ D \subseteq 1..n
  BY DEF RowsTo
<1>1. n \in Nat /\ i + 1 \in 1..n
  BY <1>0 DEF Timed
<1>2. CASE i \in D
  <2>1. PICK lo \in Nat : /\ Reaches(D, lo, i) /\ cur = Spanned(times, <<lo, i>>)
                          /\ Listing(list, D, lo - 1, times)
    BY <1>0, <1>2 DEF Walk
  <2>2. i \in 1..n - 1 /\ lo \in 1..n /\ lo <= i
    BY <1>0, <1>1, <1>2, <2>1 DEF Reaches
  <2>3. Reaches(D, lo, i + 1)
    BY <1>0, <2>1, <2>2 DEF Reaches
  <2>4. Longer(cur, Lasts(times)[i + 1]) = Spanned(times, <<lo, i + 1>>)
    BY <1>0, <2>1, <2>2, TimeGrows
  <2> QED BY <1>0, <2>1, <2>3, <2>4 DEF Walk
<1>3. CASE i \notin D
  <2>1. cur = NoSpan /\ Listing(list, D, i, times)
    BY <1>0, <1>3 DEF Walk
  <2>2. Reaches(D, i + 1, i + 1) /\ (i + 1) - 1 = i /\ i + 1 \in Nat
    BY <1>0, <1>1, <1>3 DEF Reaches
  <2>3. Longer(cur, Lasts(times)[i + 1]) = Spanned(times, <<i + 1, i + 1>>)
    BY <1>0, <1>1, <2>1, TimeStarts
  <2>4. Listing(list, D, (i + 1) - 1, times)
    BY <1>0, <2>1, <2>2
  <2> QED BY <1>0, <2>2, <2>3, <2>4 DEF Walk
<1> QED BY <1>0, <1>2, <1>3

(* A row that is not.                                                      *)
LEMMA WalkOff ==
  ASSUME NEW times, NEW n, Timed(times, n), NEW D, RowsTo(D, n),
         NEW i \in Nat, i + 1 \notin D, NEW list, NEW cur, Walk(list, cur, D, i, times)
  PROVE  Walk(Kept(list, cur), NoSpan, D, i + 1, times)
<1>0. n \in Nat /\ D \subseteq 1..n
  BY DEF RowsTo
<1>1. n \in Nat /\ Len(list) \in Nat
  BY <1>0, Appended DEF Timed, Walk
<1>2. CASE i \in D
  <2>1. PICK lo \in Nat : /\ Reaches(D, lo, i) /\ cur = Spanned(times, <<lo, i>>)
                          /\ Listing(list, D, lo - 1, times)
    BY <1>0, <1>2 DEF Walk
  <2>2. lo <= i /\ lo >= 1
    BY <1>0, <2>1 DEF Reaches
  <2>3. cur.bars > 0
    BY <1>0, <2>1, <2>2 DEF Spanned
  <2>4. PICK longer : longer = Append(list, cur)
    BY <1>0
  <2>5. Kept(list, cur) = longer
    BY <1>0, <2>3, <2>4 DEF Kept
  <2>6. /\ IsSeq(longer) /\ Len(longer) = Len(list) + 1
        /\ \A k \in 1..Len(list) : longer[k] = list[k]
        /\ longer[Len(list) + 1] = cur
    BY <1>0, <2>4, Appended DEF Walk
  <2>7. Starts(D, i + 1) = Starts(D, i)
    BY <1>0, <1>1, StartsSame
  <2>8. /\ Starts(D, i) = Starts(D, lo)
        /\ Cardinality(Starts(D, lo)) = Cardinality(Starts(D, lo - 1)) + 1
    BY <1>0, <1>1, <2>1, StartsOnce
  <2>9. Len(list) = Cardinality(Starts(D, lo - 1))
    BY <1>0, <2>1 DEF Listing
  <2>10. ASSUME NEW s \in Stretches(D), s[2] <= i + 1
         PROVE  longer[Cardinality(Starts(D, s[1]))] = Spanned(times, s)
    <3>1. /\ s[1] \in 1..n /\ s[2] \in 1..n /\ s[1] \in D /\ s[2] \in D /\ s[1] - 1 \notin D
      BY <1>0, <1>1, StretchFacts
    <3>2. s[2] <= i
      BY <1>0, <2>10, <3>1
    <3>3. CASE s[2] < lo
      <4>0. s[1] < lo /\ s[2] < lo - 1
        BY <1>0, <1>1, <2>1, <3>3, StretchesApart
      <4>1. s[1] <= lo - 1 /\ s[2] <= lo - 1 /\ s[1] \in Int /\ lo - 1 \in Int
        BY <1>0, <3>1, <4>0
      <4>2. list[Cardinality(Starts(D, s[1]))] = Spanned(times, s)
        BY <1>0, <2>1, <4>1 DEF Listing
      <4>3. /\ IsFiniteSet(Starts(D, s[1])) /\ Cardinality(Starts(D, s[1])) \in Nat
            /\ Cardinality(Starts(D, s[1])) <= Cardinality(Starts(D, lo - 1))
        BY <1>0, <1>1, <4>1, StartsFacts
      <4>4. Cardinality(Starts(D, s[1])) # 0
        <5>1. s[1] \in Starts(D, s[1])
          BY <1>0, <3>1 DEF Starts
        <5> QED BY <1>0, <4>3, <5>1, FS_EmptySet
      <4> QED BY <1>0, <1>1, <2>6, <2>9, <4>2, <4>3, <4>4
    <3>4. CASE ~ (s[2] < lo)
      <4>0. s[2] >= i
        BY <1>0, <1>1, <2>1, <3>4, StretchesApart
      <4>1. s[2] = i
        BY <1>0, <3>1, <3>2, <3>4, <4>0
      <4>2. s[1] = lo
        BY <1>0, <1>1, <2>1, <4>1, StretchesMeet
      <4>3. Spanned(times, s) = Spanned(times, <<lo, i>>)
        BY <1>0, <4>1, <4>2 DEF Spanned, Time
      <4> QED BY <1>0, <2>1, <2>6, <2>8, <2>9, <4>2, <4>3
    <3> QED BY <1>0, <3>3, <3>4
  <2>11. Listing(longer, D, i + 1, times)
    BY <1>0, <2>6, <2>7, <2>8, <2>9, <2>10 DEF Listing
  <2> QED BY <1>0, <2>5, <2>6, <2>11 DEF Walk
<1>3. CASE i \notin D
  <2>1. cur = NoSpan /\ Listing(list, D, i, times) /\ IsSeq(list)
    BY <1>0, <1>3 DEF Walk
  <2>2. Kept(list, cur) = list
    BY <1>0, <2>1 DEF Kept, NoSpan
  <2>3. Starts(D, i + 1) = Starts(D, i)
    BY <1>0, <1>1, StartsSame
  <2>4. ASSUME NEW s \in Stretches(D), s[2] <= i + 1
        PROVE  s[2] <= i
    <3>1. s[2] \in D /\ s[2] \in 1..n
      BY <1>0, <1>1, StretchFacts
    <3> QED BY <1>0, <1>1, <2>4, <3>1
  <2>5. Listing(list, D, i + 1, times)
    BY <1>0, <2>1, <2>3, <2>4 DEF Listing
  <2> QED BY <1>0, <2>1, <2>2, <2>5 DEF Walk
<1> QED BY <1>0, <1>2, <1>3

LEMMA SamePair ==
  ASSUME NEW D, NEW s \in D \X D, NEW t \in D \X D, s[1] = t[1], s[2] = t[2]
  PROVE  s = t
OBVIOUS

LEMMA StretchFrom ==
  ASSUME NEW n, NEW D, RowsTo(D, n), NEW k \in D, k - 1 \notin D
  PROVE  \E e \in D : <<k, e>> \in Stretches(D)
<1>0. n \in Nat /\ D \subseteq 1..n /\ k \in 1..n
  BY DEF RowsTo
<1> DEFINE T == {e \in Nat : e >= k /\ e + 1 \notin D}
<1>1. n \in T
  BY <1>0
<1>2. PICK e \in T : \A x \in T : e <= x
  BY <1>1, LeastOf
<1>3. e \in Nat /\ e >= k /\ e + 1 \notin D
  OBVIOUS
<1>4. ASSUME NEW x \in k..e
      PROVE  x \in D
  <2> SUFFICES ASSUME x \notin D
               PROVE  FALSE
    OBVIOUS
  <2>1. x # k /\ x \in Int
    OBVIOUS
  <2>2. x - 1 \in Nat /\ x - 1 >= k /\ (x - 1) + 1 = x
    BY <1>0, <1>3, <2>1
  <2>3. x - 1 \in T
    BY <2>2
  <2> QED BY <1>2, <1>3, <2>1, <2>3
<1>5. e \in k..e /\ k..e \subseteq D
  BY <1>0, <1>3, <1>4
<1>6. e \in D
  BY <1>4, <1>5
<1> QED BY <1>3, <1>5, <1>6 DEF Stretches

(* As many stretches as starts.                                            *)
LEMMA StretchCount ==
  ASSUME NEW n, NEW D, RowsTo(D, n), NEW j \in Int
  PROVE  Cardinality({r \in Stretches(D) : r[1] <= j}) = Cardinality(Starts(D, j))
<1>0. n \in Nat /\ D \subseteq 1..n
  BY DEF RowsTo
<1> DEFINE A == {r \in Stretches(D) : r[1] <= j}
           B == Starts(D, j)
           p == [r \in A |-> r[1]]
<1>1. \A r \in A : r \in D \X D /\ r[1] \in B /\ r[1] - 1 \notin D /\ r \in Stretches(D)
  BY StretchFacts DEF Stretches, Starts
<1>2. p \in [A -> B]
  BY <1>1
<1>3. ASSUME NEW r \in A, NEW s \in A, p[r] = p[s]
      PROVE  r = s
  <2>1. r[1] = s[1] /\ r \in D \X D /\ s \in D \X D /\ r \in Stretches(D) /\ s \in Stretches(D)
    BY <1>1, <1>3
  <2>2. /\ r[1] \in 1..n /\ r[2] \in 1..n /\ s[2] \in 1..n /\ r[2] + 1 \notin D /\ s[2] + 1 \notin D
        /\ (\A k \in r[1]..r[2] : k \in D) /\ (\A k \in s[1]..s[2] : k \in D)
        /\ r[1] <= r[2] /\ s[1] <= s[2]
    BY <2>1, StretchFacts
  <2>3. ~ (r[2] < s[2])
    <3> SUFFICES ASSUME r[2] < s[2]
                 PROVE  FALSE
      OBVIOUS
    <3>1. r[2] + 1 \in s[1]..s[2]
      BY <1>0, <2>1, <2>2
    <3> QED BY <2>2, <3>1
  <2>4. ~ (s[2] < r[2])
    <3> SUFFICES ASSUME s[2] < r[2]
                 PROVE  FALSE
      OBVIOUS
    <3>1. s[2] + 1 \in r[1]..r[2]
      BY <1>0, <2>1, <2>2
    <3> QED BY <2>2, <3>1
  <2>5. r[2] = s[2]
    BY <1>0, <2>2, <2>3, <2>4
  <2> QED BY <2>1, <2>5, SamePair
<1>4. ASSUME NEW k \in B
      PROVE  \E r \in A : p[r] = k
  <2>1. k \in D /\ k <= j /\ k - 1 \notin D
    BY DEF Starts
  <2>2. PICK e \in D : <<k, e>> \in Stretches(D)
    BY <2>1, StretchFrom
  <2>3. PICK r : r = <<k, e>>
    OBVIOUS
  <2>4. r \in A /\ r[1] = k
    BY <2>1, <2>2, <2>3
  <2> QED BY <2>4
<1>5. p \in Injection(A, B) /\ p \in Surjection(A, B)
  BY <1>2, <1>3, <1>4 DEF Injection, IsInjective, Surjection
<1>6. IsFiniteSet(B)
  BY StartsFacts
<1> HIDE DEF A, B, p
<1>7. Cardinality(A) = Cardinality(B)
  BY <1>5, <1>6, FS_Injection
<1> QED BY <1>7 DEF A, B

(* What has been listed when the last row is behind.                       *)
LEMMA WalkEnds ==
  ASSUME NEW times, NEW n, Timed(times, n), NEW D, RowsTo(D, n),
         NEW list, NEW cur, Walk(list, cur, D, n, times)
  PROVE  Lists(Kept(list, cur), Stretches(D), times)
<1>0. n \in Nat /\ D \subseteq 1..n
  BY DEF RowsTo
<1>1. PICK spans : spans = Kept(list, cur)
  OBVIOUS
<1>2. n + 1 \notin D
  BY <1>0
<1>3. Walk(spans, NoSpan, D, n + 1, times)
  BY <1>0, <1>1, <1>2, WalkOff
<1>4. Listing(spans, D, n + 1, times)
  BY <1>2, <1>3 DEF Walk
<1>5. ASSUME NEW s \in Stretches(D)
      PROVE  s[1] \in Int /\ s[1] <= n + 1 /\ s[2] <= n + 1
  <2>1. s[1] \in 1..n /\ s[2] \in 1..n
    BY StretchFacts
  <2> QED BY <1>0, <2>1
<1>6. {r \in Stretches(D) : r[1] <= n + 1} = Stretches(D)
  BY <1>5
<1>7. Len(spans) = Cardinality(Stretches(D))
  <2>1. Cardinality({r \in Stretches(D) : r[1] <= n + 1}) = Cardinality(Starts(D, n + 1))
    BY <1>0, StretchCount
  <2> QED BY <1>4, <1>6, <2>1 DEF Listing
<1>8. ASSUME NEW s \in Stretches(D)
      PROVE  spans[Cardinality({r \in Stretches(D) : r[1] <= s[1]})]
               = [bars |-> s[2] - s[1] + 1, ms |-> Time(times, s)]
  <2>1. Cardinality({r \in Stretches(D) : r[1] <= s[1]}) = Cardinality(Starts(D, s[1]))
    BY <1>5, StretchCount
  <2> QED BY <1>4, <1>5, <2>1 DEF Listing, Spanned
<1> QED BY <1>1, <1>7, <1>8 DEF Lists

(* The scan itself, row by row.                                            *)
HeldOf(rows) == {j \in DOMAIN rows : rows[j].held}
After(H, n) == {j \in 1..n \ H : \E h \in H : h < j}

Scanning(s, rows, times, n, i) ==
  /\ DOMAIN s = {"held", "empty", "in", "traded", "holdings", "empties"}
  /\ s.in <=> i \in HeldOf(rows)
  /\ s.traded <=> \E h \in HeldOf(rows) : h <= i
  /\ Walk(s.holdings, s.held, HeldOf(rows), i, times)
  /\ Walk(s.empties, s.empty, After(HeldOf(rows), n), i, times)

LEMMA ScanRows ==
  ASSUME NEW n \in Nat, NEW rows, DOMAIN rows = 1..n
  PROVE  RowsTo(HeldOf(rows), n) /\ RowsTo(After(HeldOf(rows), n), n)
BY DEF RowsTo, HeldOf, After

LEMMA KeptNothing ==
  ASSUME NEW list
  PROVE  Kept(list, NoSpan) = list
BY DEF Kept, NoSpan

LEMMA NoCurrent ==
  ASSUME NEW list, NEW cur, NEW D, NEW i, NEW times, Walk(list, cur, D, i, times), i \notin D
  PROVE  cur = NoSpan /\ Kept(list, cur) = list
BY KeptNothing DEF Walk

LEMMA ScanStarts ==
  ASSUME NEW times, NEW n, Timed(times, n), NEW rows, DOMAIN rows = 1..n
  PROVE  Scanning(Start, rows, times, n, 0)
<1>1. /\ n \in Nat /\ RowsTo(HeldOf(rows), n) /\ RowsTo(After(HeldOf(rows), n), n)
  BY ScanRows DEF Timed
<1>2. 0 \notin HeldOf(rows) /\ ~ \E h \in HeldOf(rows) : h <= 0
  BY <1>1 DEF RowsTo
<1>3. Walk(<<>>, NoSpan, HeldOf(rows), 0, times) /\ Walk(<<>>, NoSpan, After(HeldOf(rows), n), 0, times)
  BY <1>1, WalkStarts
<1> QED BY <1>2, <1>3 DEF Scanning, Start

LEMMA ScanHeld ==
  ASSUME NEW times, NEW n, Timed(times, n), NEW rows, DOMAIN rows = 1..n,
         NEW i \in Nat, i + 1 \in 1..n, rows[i + 1].held, NEW s, Scanning(s, rows, times, n, i)
  PROVE  Scanning(HeldRow(s, Lasts(times)[i + 1]), rows, times, n, i + 1)
<1>1. PICK H, F, ms : H = HeldOf(rows) /\ F = After(H, n) /\ ms = Lasts(times)[i + 1]
  OBVIOUS
<1>2. n \in Nat /\ RowsTo(H, n) /\ RowsTo(F, n)
  BY <1>1, ScanRows DEF Timed
<1>3. i + 1 \in H /\ i + 1 \notin F /\ (i \in H => i \notin F)
  BY <1>1 DEF HeldOf, After
<1>4. /\ DOMAIN s = {"held", "empty", "in", "traded", "holdings", "empties"}
      /\ s.in <=> i \in H
      /\ Walk(s.holdings, s.held, H, i, times) /\ Walk(s.empties, s.empty, F, i, times)
  BY <1>1 DEF Scanning
<1>5. PICK t : t = HeldRow(s, ms)
  OBVIOUS
<1>6. /\ DOMAIN t = {"held", "empty", "in", "traded", "holdings", "empties"}
      /\ t.in /\ t.traded
      /\ t.holdings = s.holdings /\ t.held = Longer(s.held, ms)
      /\ t.empties = (IF s.in THEN s.empties ELSE Kept(s.empties, s.empty))
      /\ t.empty = (IF s.in THEN s.empty ELSE NoSpan)
  BY <1>4, <1>5 DEF HeldRow
<1>7. Walk(t.holdings, t.held, H, i + 1, times)
  BY <1>1, <1>2, <1>3, <1>4, <1>6, WalkOn
<1>8. Walk(Kept(s.empties, s.empty), NoSpan, F, i + 1, times)
  BY <1>1, <1>2, <1>3, <1>4, WalkOff
<1>9. s.in => s.empty = NoSpan /\ Kept(s.empties, s.empty) = s.empties
  BY <1>3, <1>4, NoCurrent
<1>10. Walk(t.empties, t.empty, F, i + 1, times)
  BY <1>6, <1>8, <1>9
<1>11. \E h \in H : h <= i + 1
  BY <1>3
<1> QED BY <1>1, <1>3, <1>5, <1>6, <1>7, <1>10, <1>11 DEF Scanning

LEMMA ScanEmpty ==
  ASSUME NEW times, NEW n, Timed(times, n), NEW rows, DOMAIN rows = 1..n,
         NEW i \in Nat, i + 1 \in 1..n, ~ rows[i + 1].held, NEW s, Scanning(s, rows, times, n, i)
  PROVE  Scanning(EmptyRow(s, Lasts(times)[i + 1]), rows, times, n, i + 1)
<1>1. PICK H, F, ms : H = HeldOf(rows) /\ F = After(H, n) /\ ms = Lasts(times)[i + 1]
  OBVIOUS
<1>2. n \in Nat /\ RowsTo(H, n) /\ RowsTo(F, n)
  BY <1>1, ScanRows DEF Timed
<1>3. i + 1 \notin H
  BY <1>1 DEF HeldOf
<1>4. /\ DOMAIN s = {"held", "empty", "in", "traded", "holdings", "empties"}
      /\ s.in <=> i \in H
      /\ s.traded <=> \E h \in H : h <= i
      /\ Walk(s.holdings, s.held, H, i, times) /\ Walk(s.empties, s.empty, F, i, times)
  BY <1>1 DEF Scanning
<1>5. PICK t : t = EmptyRow(s, ms)
  OBVIOUS
<1>6. /\ DOMAIN t = {"held", "empty", "in", "traded", "holdings", "empties"}
      /\ ~ t.in /\ (t.traded <=> s.traded)
      /\ t.holdings = (IF s.in THEN Kept(s.holdings, s.held) ELSE s.holdings)
      /\ t.held = (IF s.in THEN NoSpan ELSE s.held)
      /\ t.empties = s.empties
      /\ t.empty = (IF s.traded THEN Longer(s.empty, ms) ELSE s.empty)
  BY <1>4, <1>5 DEF EmptyRow
<1>7. ASSUME NEW h \in H
      PROVE  h <= i + 1 <=> h <= i
  <2>1. h \in Int /\ h # i + 1
    BY <1>2, <1>3 DEF RowsTo
  <2> QED BY <2>1
<1>8. (\E h \in H : h <= i + 1) <=> (\E h \in H : h <= i)
  BY <1>7
<1>9. i + 1 \in F <=> s.traded
  <2>1. \A h \in H : h < i + 1 <=> h <= i
    BY <1>2 DEF RowsTo
  <2> QED BY <1>1, <1>3, <1>4, <2>1 DEF After
<1>10. ~ s.traded => i \notin F
  <2>1. \A h \in H : h < i => h <= i
    BY <1>2 DEF RowsTo
  <2> QED BY <1>1, <1>4, <2>1 DEF After
<1>11. Walk(t.holdings, t.held, H, i + 1, times)
  <2>1. Walk(Kept(s.holdings, s.held), NoSpan, H, i + 1, times)
    BY <1>2, <1>3, <1>4, WalkOff
  <2>2. ~ s.in => s.held = NoSpan /\ Kept(s.holdings, s.held) = s.holdings
    BY <1>4, NoCurrent
  <2> QED BY <1>6, <2>1, <2>2
<1>12. Walk(t.empties, t.empty, F, i + 1, times)
  <2>1. CASE s.traded
    <3>1. Walk(s.empties, Longer(s.empty, ms), F, i + 1, times)
      BY <1>1, <1>2, <1>4, <1>9, <2>1, WalkOn
    <3> QED BY <1>6, <2>1, <3>1
  <2>2. CASE ~ s.traded
    <3>1. Walk(Kept(s.empties, s.empty), NoSpan, F, i + 1, times)
      BY <1>2, <1>4, <1>9, <2>2, WalkOff
    <3>2. s.empty = NoSpan /\ Kept(s.empties, s.empty) = s.empties
      BY <1>4, <1>10, <2>2, NoCurrent
    <3> QED BY <1>6, <2>2, <3>1, <3>2
  <2> QED BY <2>1, <2>2
<1> QED BY <1>1, <1>3, <1>4, <1>5, <1>6, <1>8, <1>11, <1>12 DEF Scanning

(* The scan is the function its equation says.                             *)
ScanRow(x, rows, ms, i) ==
  IF i = 0 THEN Start
  ELSE IF rows[i].held THEN HeldRow(x[i - 1], ms[i]) ELSE EmptyRow(x[i - 1], ms[i])
IsScan(x, rows, ms, m) == x = [i \in 0..m |-> ScanRow(x, rows, ms, i)]

LEMMA ScanGrows ==
  ASSUME NEW rows, NEW ms, NEW m \in Nat, NEW x, IsScan(x, rows, ms, m)
  PROVE  \E y : IsScan(y, rows, ms, m + 1)
<1>0. PICK y : y = [i \in 0..m + 1 |-> IF i <= m THEN x[i] ELSE ScanRow(x, rows, ms, i)]
  OBVIOUS
<1>1. \A i \in 0..m : x[i] = ScanRow(x, rows, ms, i) /\ y[i] = x[i]
  BY <1>0 DEF IsScan
<1>2. \A i \in 0..m + 1 : ScanRow(y, rows, ms, i) = ScanRow(x, rows, ms, i)
  <2> SUFFICES ASSUME NEW i \in 0..m + 1, i # 0
               PROVE  y[i - 1] = x[i - 1]
    BY DEF ScanRow
  <2> QED BY <1>1
<1>3. \A i \in 0..m + 1 : y[i] = ScanRow(y, rows, ms, i)
  <2> TAKE i \in 0..m + 1
  <2>1. CASE i <= m
    BY <1>1, <1>2, <2>1
  <2>2. CASE ~ (i <= m)
    BY <1>0, <1>2, <2>2
  <2> QED BY <2>1, <2>2
<1>4. y = [i \in 0..m + 1 |-> y[i]]
  BY <1>0
<1> QED BY <1>3, <1>4 DEF IsScan

LEMMA ScanExists ==
  ASSUME NEW rows, NEW ms, NEW n \in Nat
  PROVE  \E x : IsScan(x, rows, ms, n)
<1> DEFINE Bad == {m \in Nat : ~ \E x : IsScan(x, rows, ms, m)}
<1> SUFFICES ASSUME Bad # {}
             PROVE  FALSE
  OBVIOUS
<1>1. PICK m \in Bad : \A k \in Bad : m <= k
  BY LeastOf
<1>2. m \in Nat /\ ~ \E x : IsScan(x, rows, ms, m)
  OBVIOUS
<1>3. m # 0
  <2> DEFINE x == [i \in 0..0 |-> Start]
  <2>1. \A i \in 0..0 : i = 0
    OBVIOUS
  <2>2. IsScan(x, rows, ms, 0)
    BY <2>1 DEF IsScan, ScanRow
  <2> QED BY <1>2, <2>2
<1>4. m - 1 \in Nat /\ m - 1 \notin Bad /\ (m - 1) + 1 = m
  BY <1>1, <1>2, <1>3
<1>5. PICK x : IsScan(x, rows, ms, m - 1)
  BY <1>4
<1> QED BY <1>2, <1>4, <1>5, ScanGrows

LEMMA ScanHolds ==
  ASSUME NEW times, NEW n, Timed(times, n), NEW rows, DOMAIN rows = 1..n,
         NEW x, IsScan(x, rows, Lasts(times), n)
  PROVE  Scanning(x[n], rows, times, n, n)
<1>1. n \in Nat /\ \A i \in 0..n : x[i] = ScanRow(x, rows, Lasts(times), i)
  BY DEF Timed, IsScan
<1> DEFINE Bad == {m \in Nat : m <= n /\ ~ Scanning(x[m], rows, times, n, m)}
<1> SUFFICES ASSUME Bad # {}
             PROVE  FALSE
  BY <1>1
<1>2. PICK m \in Bad : \A k \in Bad : m <= k
  BY LeastOf
<1>3. m \in Nat /\ m <= n /\ ~ Scanning(x[m], rows, times, n, m)
  OBVIOUS
<1>4. m # 0
  BY <1>1, <1>3, ScanStarts DEF ScanRow
<1>5. PICK i \in Nat : i + 1 = m /\ i = m - 1
  <2>1. m - 1 \in Nat /\ (m - 1) + 1 = m
    BY <1>3, <1>4
  <2> QED BY <2>1
<1>6. i \notin Bad /\ i <= n /\ i + 1 \in 1..n
  BY <1>1, <1>2, <1>3, <1>5
<1>7. PICK s : s = x[i]
  OBVIOUS
<1>8. Scanning(s, rows, times, n, i)
  BY <1>6, <1>7
<1>9. x[m] = IF rows[i + 1].held THEN HeldRow(s, Lasts(times)[i + 1]) ELSE EmptyRow(s, Lasts(times)[i + 1])
  BY <1>1, <1>3, <1>4, <1>5, <1>7 DEF ScanRow
<1> QED BY <1>3, <1>5, <1>6, <1>8, <1>9, ScanHeld, ScanEmpty

LEMMA SpansHold ==
  ASSUME NEW times, NEW n, Timed(times, n), NEW rows, DOMAIN rows = 1..n, Len(rows) = n
  PROVE  /\ Lists(Spans(rows, times).holdings, Stretches(HeldOf(rows)), times)
         /\ Lists(Spans(rows, times).empties, Stretches(After(HeldOf(rows), n)), times)
<1>1. PICK ms : ms = Lasts(times)
  OBVIOUS
<1>2. n \in Nat /\ RowsTo(HeldOf(rows), n) /\ RowsTo(After(HeldOf(rows), n), n)
  BY ScanRows DEF Timed
<1>3. PICK x : x = CHOOSE y : IsScan(y, rows, ms, n)
  OBVIOUS
<1>4. IsScan(x, rows, ms, n)
  BY <1>2, <1>3, ScanExists
<1>5. Spans(rows, times) = [holdings |-> Kept(x[n].holdings, x[n].held),
                            empties |-> Kept(x[n].empties, x[n].empty)]
  BY <1>1, <1>3 DEF Spans, IsScan, ScanRow
<1>6. Scanning(x[n], rows, times, n, n)
  BY <1>1, <1>4, ScanHolds
<1>7. /\ Walk(x[n].holdings, x[n].held, HeldOf(rows), n, times)
      /\ Walk(x[n].empties, x[n].empty, After(HeldOf(rows), n), n, times)
  BY <1>6 DEF Scanning
<1>8. /\ Lists(Kept(x[n].holdings, x[n].held), Stretches(HeldOf(rows)), times)
      /\ Lists(Kept(x[n].empties, x[n].empty), Stretches(After(HeldOf(rows), n)), times)
  BY <1>2, <1>7, WalkEnds
<1> QED BY <1>5, <1>8

(* The stretches between positions are those of the free rows that have    *)
(* one before them.                                                        *)
LEMMA StretchesAfter ==
  ASSUME NEW n \in Nat, NEW H, H \subseteq 1..n
  PROVE  Stretches(After(H, n)) = {s \in Stretches(1..n \ H) : \E j \in H : j < s[1]}
<1> DEFINE F == After(H, n)
           G == 1..n \ H
<1>1. \A k : k \in F <=> k \in G /\ \E j \in H : j < k
  BY DEF After
<1>2. \A k : k \in G <=> k \in 1..n /\ k \notin H
  OBVIOUS
<1>3. F \subseteq G /\ G \subseteq 1..n
  BY <1>1, <1>2
<1> HIDE DEF F, G
<1>4. ASSUME NEW s \in Stretches(F)
      PROVE  s \in Stretches(G) /\ \E j \in H : j < s[1]
  <2>1. /\ s \in F \X F /\ s[1] <= s[2] /\ s[1]..s[2] \subseteq F
        /\ s[1] - 1 \notin F /\ s[2] + 1 \notin F
    BY DEF Stretches
  <2>2. s \in G \X G /\ s[1]..s[2] \subseteq G /\ s[1] \in F /\ s[2] \in F
    BY <1>3, <2>1
  <2>3. PICK j \in H : j < s[1]
    BY <1>1, <2>2
  <2>4. s[1] \in 1..n /\ s[2] \in 1..n /\ j \in 1..n
    BY <1>1, <1>2, <2>2
  <2>5. s[1] - 1 \notin G
    <3> SUFFICES ASSUME s[1] - 1 \in G
                 PROVE  FALSE
      OBVIOUS
    <3>1. j # s[1] - 1 /\ j < s[1] - 1
      BY <1>2, <2>3, <2>4
    <3> QED BY <1>1, <2>1, <3>1
  <2>6. s[2] + 1 \notin G
    <3> SUFFICES ASSUME s[2] + 1 \in G
                 PROVE  FALSE
      OBVIOUS
    <3>1. j < s[2] + 1
      BY <2>1, <2>3, <2>4
    <3> QED BY <1>1, <2>1, <3>1
  <2>7. s \in Stretches(G)
    BY <2>1, <2>2, <2>5, <2>6 DEF Stretches
  <2> QED BY <2>3, <2>7
<1>5. ASSUME NEW s \in Stretches(G), NEW j \in H, j < s[1]
      PROVE  s \in Stretches(F)
  <2>1. /\ s \in G \X G /\ s[1] <= s[2] /\ s[1]..s[2] \subseteq G
        /\ s[1] - 1 \notin G /\ s[2] + 1 \notin G
    BY DEF Stretches
  <2>2. s[1] \in G /\ s[2] \in G
    BY <2>1
  <2>3. s[1] \in 1..n /\ s[2] \in 1..n /\ j \in 1..n
    BY <1>2, <2>2
  <2>4. ASSUME NEW k \in s[1]..s[2]
        PROVE  k \in F
    <3>1. k \in G /\ j < k
      BY <1>5, <2>1, <2>3
    <3> QED BY <1>1, <3>1
  <2>5. s[1] \in s[1]..s[2] /\ s[2] \in s[1]..s[2]
    BY <2>1, <2>3
  <2>6. s[1] \in F /\ s[2] \in F
    BY <2>4, <2>5
  <2>7. s \in F \X F
    BY <2>1, <2>6
  <2>8. s[1] - 1 \notin F /\ s[2] + 1 \notin F
    BY <1>3, <2>1
  <2> QED BY <2>1, <2>4, <2>7, <2>8 DEF Stretches
<1>6. Stretches(F) = {s \in Stretches(G) : \E j \in H : j < s[1]}
  BY <1>4, <1>5
<1> QED BY <1>6 DEF F, G

-----------------------------------------------------------------------------
(* The longest drawdown.                                                   *)
DownOf(rows) == {j \in DOMAIN rows : rows[j].down}
DownRow(x, rows, i) == IF i > 0 /\ rows[i].down THEN x[i - 1] + 1 ELSE 0
IsCount(x, rows, m) == x = [i \in 0..m |-> DownRow(x, rows, i)]

LEMMA CountGrows ==
  ASSUME NEW rows, NEW m \in Nat, NEW x, IsCount(x, rows, m)
  PROVE  \E y : IsCount(y, rows, m + 1)
<1>0. PICK y : y = [i \in 0..m + 1 |-> IF i <= m THEN x[i] ELSE DownRow(x, rows, i)]
  OBVIOUS
<1>1. \A i \in 0..m : x[i] = DownRow(x, rows, i) /\ y[i] = x[i]
  BY <1>0 DEF IsCount
<1>2. \A i \in 0..m + 1 : DownRow(y, rows, i) = DownRow(x, rows, i)
  <2> SUFFICES ASSUME NEW i \in 0..m + 1, i > 0
               PROVE  y[i - 1] = x[i - 1]
    BY DEF DownRow
  <2> QED BY <1>1
<1>3. \A i \in 0..m + 1 : y[i] = DownRow(y, rows, i)
  <2> TAKE i \in 0..m + 1
  <2>1. CASE i <= m
    BY <1>1, <1>2, <2>1
  <2>2. CASE ~ (i <= m)
    BY <1>0, <1>2, <2>2
  <2> QED BY <2>1, <2>2
<1>4. y = [i \in 0..m + 1 |-> y[i]]
  BY <1>0
<1> QED BY <1>3, <1>4 DEF IsCount

LEMMA CountExists ==
  ASSUME NEW rows, NEW n \in Nat
  PROVE  \E x : IsCount(x, rows, n)
<1> DEFINE Bad == {m \in Nat : ~ \E x : IsCount(x, rows, m)}
<1> SUFFICES ASSUME Bad # {}
             PROVE  FALSE
  OBVIOUS
<1>1. PICK m \in Bad : \A k \in Bad : m <= k
  BY LeastOf
<1>2. m \in Nat /\ ~ \E x : IsCount(x, rows, m)
  OBVIOUS
<1>3. m # 0
  <2> DEFINE x == [i \in 0..0 |-> 0]
  <2>1. \A i \in 0..0 : ~ (i > 0)
    OBVIOUS
  <2>2. IsCount(x, rows, 0)
    BY <2>1 DEF IsCount, DownRow
  <2> QED BY <1>2, <2>2
<1>4. m - 1 \in Nat /\ m - 1 \notin Bad /\ (m - 1) + 1 = m
  BY <1>1, <1>2, <1>3
<1>5. PICK x : IsCount(x, rows, m - 1)
  BY <1>4
<1> QED BY <1>2, <1>4, <1>5, CountGrows

(* Each row counts the stretch that reaches it.                            *)
Counts(D, c, i) ==
  /\ i \in D => \E lo \in Nat : Reaches(D, lo, i) /\ c = i - lo + 1
  /\ i \notin D => c = 0

LEMMA CountHolds ==
  ASSUME NEW n \in Nat, NEW rows, DOMAIN rows = 1..n, NEW x, IsCount(x, rows, n)
  PROVE  \A i \in 0..n : Counts(DownOf(rows), x[i], i)
<1>1. PICK D : D = DownOf(rows)
  OBVIOUS
<1>2. /\ RowsTo(D, n) /\ \A i \in 1..n : i \in D <=> rows[i].down
      /\ 0 \notin D
  BY <1>1 DEF DownOf, RowsTo
<1>3. \A i \in 0..n : x[i] = DownRow(x, rows, i)
  BY DEF IsCount
<1> DEFINE Bad == {m \in Nat : m <= n /\ ~ Counts(D, x[m], m)}
<1>4. Bad = {}
  <2> SUFFICES ASSUME Bad # {}
               PROVE  FALSE
    OBVIOUS
  <2>1. PICK m \in Bad : \A k \in Bad : m <= k
    BY LeastOf
  <2>2. m \in Nat /\ m <= n /\ ~ Counts(D, x[m], m) /\ m \in 0..n
    OBVIOUS
  <2>3. m \in D
    <3> SUFFICES ASSUME m \notin D
                 PROVE  FALSE
      OBVIOUS
    <3>1. ~ (m > 0 /\ rows[m].down)
      BY <1>2, <2>2
    <3>2. x[m] = 0
      BY <1>3, <2>2, <3>1 DEF DownRow
    <3> QED BY <2>2, <3>2 DEF Counts
  <2>4. m \in 1..n /\ m - 1 \in Nat /\ m - 1 \notin Bad /\ m - 1 <= n
    BY <1>2, <2>1, <2>2, <2>3
  <2>5. Counts(D, x[m - 1], m - 1)
    BY <2>4
  <2>6. x[m] = x[m - 1] + 1
    BY <1>2, <1>3, <2>2, <2>3, <2>4 DEF DownRow
  <2>7. CASE m - 1 \in D
    <3>1. PICK lo \in Nat : Reaches(D, lo, m - 1) /\ x[m - 1] = (m - 1) - lo + 1
      BY <2>5, <2>7 DEF Counts
    <3>2. Reaches(D, lo, m)
      BY <2>2, <2>3, <3>1 DEF Reaches
    <3>3. x[m] = m - lo + 1
      BY <2>2, <2>6, <3>1
    <3> QED BY <2>2, <2>3, <3>2, <3>3 DEF Counts
  <2>8. CASE m - 1 \notin D
    <3>1. x[m - 1] = 0
      BY <2>5, <2>8 DEF Counts
    <3>2. Reaches(D, m, m) /\ x[m] = m - m + 1
      BY <2>2, <2>3, <2>4, <2>6, <2>8, <3>1 DEF Reaches
    <3> QED BY <2>2, <2>3, <3>2 DEF Counts
  <2> QED BY <2>7, <2>8
<1>5. ASSUME NEW i \in 0..n
      PROVE  Counts(D, x[i], i)
  <2>1. i \in Nat /\ i <= n /\ i \notin Bad
    BY <1>4
  <2> QED BY <2>1
<1> QED BY <1>1, <1>5

LEMMA GreatestOf ==
  ASSUME NEW S, S \subseteq Nat, S # {}, NEW b \in Nat, \A v \in S : v <= b
  PROVE  \E g \in S : \A v \in S : v <= g
<1> DEFINE T == {u \in Nat : \A v \in S : v <= u}
<1>1. b \in T
  OBVIOUS
<1>2. PICK g \in T : \A u \in T : g <= u
  BY <1>1, LeastOf
<1>3. g \in Nat /\ \A v \in S : v <= g
  OBVIOUS
<1>4. g \in S
  <2> SUFFICES ASSUME g \notin S
               PROVE  FALSE
    OBVIOUS
  <2>1. \A v \in S : v \in Nat /\ v <= g /\ v # g
    BY <1>3
  <2>2. g # 0
    <3>1. PICK v \in S : TRUE
      OBVIOUS
    <3> QED BY <1>3, <2>1, <3>1
  <2>3. g - 1 \in Nat /\ \A v \in S : v <= g - 1
    BY <1>3, <2>1, <2>2
  <2>4. g - 1 \in T
    BY <2>3
  <2> QED BY <1>2, <1>3, <2>4
<1> QED BY <1>3, <1>4

LEMMA DrawdownHolds ==
  ASSUME NEW n \in Nat, NEW rows, DOMAIN rows = 1..n, Len(rows) = n
  PROVE  /\ {DrawdownBars(rows)} \cup {s[2] - s[1] + 1 : s \in Stretches(DownOf(rows))}
              \subseteq 0..DrawdownBars(rows)
         /\ DrawdownBars(rows) > 0 =>
              \E s \in Stretches(DownOf(rows)) : DrawdownBars(rows) = s[2] - s[1] + 1
<1>1. PICK D : D = DownOf(rows)
  OBVIOUS
<1>2. RowsTo(D, n)
  BY <1>1 DEF DownOf, RowsTo
<1>3. PICK x : x = CHOOSE y : IsCount(y, rows, n)
  OBVIOUS
<1>4. IsCount(x, rows, n)
  BY <1>3, CountExists
<1>5. DOMAIN x = 0..n /\ \A i \in 0..n : Counts(D, x[i], i)
  BY <1>1, <1>4, CountHolds DEF IsCount
<1>6. PICK values : values = {x[i] : i \in DOMAIN x}
  OBVIOUS
<1>7. DrawdownBars(rows) = CHOOSE g \in values : \A i \in DOMAIN x : x[i] <= g
  BY <1>3, <1>6 DEF DrawdownBars, IsCount, DownRow
<1>8. \A i \in 0..n : x[i] \in Nat /\ x[i] <= n
  <2> TAKE i \in 0..n
  <2>1. CASE i \in D
    <3>1. PICK lo \in Nat : Reaches(D, lo, i) /\ x[i] = i - lo + 1
      BY <1>5, <2>1 DEF Counts
    <3> QED BY <3>1 DEF Reaches
  <2>2. CASE i \notin D
    BY <1>5, <2>2 DEF Counts
  <2> QED BY <2>1, <2>2
<1>9. PICK g : g = DrawdownBars(rows)
  OBVIOUS
<1>10. g \in values /\ \A i \in 0..n : x[i] <= g
  <2>1. values \subseteq Nat /\ values # {} /\ \A v \in values : v <= n
    BY <1>5, <1>6, <1>8
  <2>2. PICK h \in values : \A v \in values : v <= h
    BY <2>1, GreatestOf
  <2>3. \A i \in DOMAIN x : x[i] <= h
    BY <1>6, <2>2
  <2>4. g \in values /\ \A i \in DOMAIN x : x[i] <= g
    BY <1>7, <1>9, <2>3
  <2> QED BY <1>5, <2>4
<1>11. PICK i \in 0..n : g = x[i]
  BY <1>5, <1>6, <1>10
<1>12. g \in Nat
  BY <1>8, <1>11
<1>13. ASSUME NEW s \in Stretches(D)
       PROVE  s[2] - s[1] + 1 \in 0..g
  <2>1. /\ s[1] \in 1..n /\ s[2] \in 1..n /\ s[1] <= s[2] /\ s[2] \in D
    BY <1>2, StretchFacts
  <2>2. PICK lo \in Nat : Reaches(D, lo, s[2]) /\ x[s[2]] = s[2] - lo + 1
    <3>1. s[2] \in 0..n
      BY <2>1
    <3> QED BY <1>5, <2>1, <3>1 DEF Counts
  <2>3. s[1] = lo
    BY <1>2, <2>2, StretchesMeet
  <2>4. x[s[2]] <= g /\ x[s[2]] \in Nat
    BY <1>8, <1>10, <2>1
  <2> QED BY <1>12, <2>1, <2>2, <2>3, <2>4
<1>14. ASSUME g > 0
       PROVE  \E s \in Stretches(D) : g = s[2] - s[1] + 1
  <2>1. i \in D
    BY <1>5, <1>11, <1>14 DEF Counts
  <2>2. PICK lo \in Nat : Reaches(D, lo, i) /\ g = i - lo + 1
    BY <1>5, <1>11, <2>1 DEF Counts
  <2>3. lo \in 1..i /\ lo..i \subseteq D /\ lo - 1 \notin D /\ lo \in D
    BY <2>2 DEF Reaches
  <2>4. i + 1 \notin D
    <3> SUFFICES ASSUME i + 1 \in D
                 PROVE  FALSE
      OBVIOUS
    <3>1. i + 1 \in 0..n
      BY <1>2 DEF RowsTo
    <3>2. PICK m \in Nat : Reaches(D, m, i + 1) /\ x[i + 1] = (i + 1) - m + 1
      BY <1>5, <3>1 DEF Counts
    <3>3. m \in 1..i + 1 /\ m..i + 1 \subseteq D /\ m - 1 \notin D
      BY <3>2 DEF Reaches
    <3>4. ~ (m > lo)
      <4> SUFFICES ASSUME m > lo
                   PROVE  FALSE
        OBVIOUS
      <4>1. m - 1 \in lo..i
        BY <2>3, <3>3
      <4> QED BY <2>3, <3>3, <4>1
    <3>5. x[i + 1] > g
      BY <2>2, <3>2, <3>4
    <3>6. x[i + 1] <= g /\ x[i + 1] \in Nat
      BY <1>8, <1>10, <3>1
    <3> QED BY <1>12, <3>5, <3>6
  <2>5. PICK s : s = <<lo, i>>
    OBVIOUS
  <2>6. s \in Stretches(D)
    BY <2>1, <2>3, <2>4, <2>5 DEF Stretches
  <2>7. s[1] = lo /\ s[2] = i
    BY <2>5
  <2> QED BY <2>2, <2>6, <2>7
<1>15. {g} \cup {s[2] - s[1] + 1 : s \in Stretches(D)} \subseteq 0..g
  BY <1>12, <1>13
<1> QED BY <1>1, <1>9, <1>14, <1>15

-----------------------------------------------------------------------------
(* The performance in a result pack, whatever is kept beside it.           *)
LEMMA PerformanceIn ==
  ASSUME NEW pack, NEW param, HasShape(param), NEW settings, settings.stage = "performance",
         NEW result, result = SinglePack(pack, param, Compiled(settings)), result # Fails,
         result["performance"].counted
  PROVE  /\ param["backtest"] # Fails /\ FrameHeight(pack, param["backtest"])
         /\ result["performance"] = Analyzed(pack, param["backtest"])
<1> DEFINE out == Output(pack, param, Compiled(settings))
<1>1. PICK R : R = Compiled(settings)
  OBVIOUS
<1>2. R.from = "scratch" /\ R.to = "performance"
  BY <1>1 DEF Compiled
<1>3. Skipped(R) = {} /\ "performance" \in Keeps(R)
  BY <1>2, StageFacts DEF Skipped, Keeps
<1>4. Executes(pack, param, R) /\ result = ResultPack(pack, out)
  BY <1>1 DEF SinglePack
<1>5. param["backtest"] # Fails /\ FrameHeight(pack, param["backtest"])
  BY <1>2, <1>3, <1>4, StageFacts DEF Executes, ComputedBacktest
<1>6. out["performance"] = Analyzed(pack, param["backtest"])
  BY <1>1, <1>3, StageFacts DEF Output, Artifact, ComputedBacktest
<1> HIDE DEF out
<1>7. result["performance"] = IF out["performance"] = Nothing THEN Nothing ELSE out["performance"]
  BY <1>4, StageFacts DEF ResultPack
<1> QED BY <1>5, <1>6, <1>7

LEMMA ActiveFacts ==
  ASSUME NEW pack, pack.warmup \in Nat, NEW S, NEW s \in Seq(S)
  PROVE  /\ ActiveRows(pack, s) \in Seq(S)
         /\ Len(ActiveRows(pack, s)) = IF pack.warmup < Len(s) THEN Len(s) - pack.warmup ELSE 0
         /\ DOMAIN ActiveRows(pack, s) = 1..Len(ActiveRows(pack, s))
         /\ \A i \in 1..Len(ActiveRows(pack, s)) : ActiveRows(pack, s)[i] = s[i + pack.warmup]
<1>1. PICK w \in Nat, m \in Nat : w = pack.warmup /\ m = Len(s)
  OBVIOUS
<1>2. ActiveRows(pack, s) = SubSeq(s, w + 1, m)
  BY <1>1 DEF ActiveRows
<1>3. PICK t : t = SubSeq(s, w + 1, m)
  OBVIOUS
<1>4. t = [i \in 1..m - w |-> s[i + w]]
  BY <1>1, <1>3
<1>5. CASE w < m
  <2>1. m - w \in Nat /\ \A i \in 1..m - w : i + w \in 1..m
    BY <1>5
  <2>2. t \in [1..m - w -> S]
    BY <1>1, <1>4, <2>1
  <2>3. t \in Seq(S) /\ Len(t) = m - w /\ DOMAIN t = 1..m - w
    BY <2>1, <2>2, SeqDef, LenProperties
  <2> QED BY <1>1, <1>2, <1>3, <1>4, <1>5, <2>3
<1>6. CASE ~ (w < m)
  <2>1. 1..m - w = {} /\ 1..0 = {}
    BY <1>6
  <2>2. t \in [1..0 -> S] /\ 0 \in Nat
    BY <1>4, <2>1
  <2>3. t \in Seq(S) /\ Len(t) = 0 /\ DOMAIN t = {}
    BY <2>1, <2>2, SeqDef, LenProperties
  <2> QED BY <1>1, <1>2, <1>3, <1>6, <2>1, <2>3
<1> QED BY <1>5, <1>6

(* What is counted of a backtest is what is in its rows.                   *)
Backtested(pack, b) ==
  /\ HasTimes(pack)
  /\ b.rows \in Seq([held : BOOLEAN, down : BOOLEAN, pnl : Metric])
  /\ Len(b.rows) = MapHeight(pack)

TellsOf(found, rows, times, n) ==
  /\ Timed(times, n) /\ DOMAIN rows = 1..n /\ Len(rows) = n
  /\ found.spans = Spans(rows, times) /\ found.drawdown = DrawdownBars(rows)

LEMMA AnalyzedCounts ==
  ASSUME NEW pack, NEW b, Backtested(pack, b), Analyzed(pack, b).counted
  PROVE  \E n : TellsOf(Analyzed(pack, b), ActiveRows(pack, b.rows), ActiveRows(pack, pack.times), n)
<1>0. PICK found, rows, times :
        found = Analyzed(pack, b) /\ rows = ActiveRows(pack, b.rows) /\ times = ActiveRows(pack, pack.times)
  OBVIOUS
<1>1. /\ pack.warmup \in Nat /\ pack.times \in Seq(Int) /\ Len(pack.times) = Len(b.rows)
      /\ \A i \in 1..Len(pack.times) - 1 : pack.times[i] <= pack.times[i + 1]
  BY DEF HasTimes, Backtested
<1>2. PICK w \in Nat, m \in Nat : w = pack.warmup /\ m = Len(b.rows) /\ m = Len(pack.times)
  BY <1>1
<1>3. PICK n : n = Len(rows)
  OBVIOUS
<1>4. /\ n = (IF w < m THEN m - w ELSE 0) /\ DOMAIN rows = 1..n
  BY <1>0, <1>1, <1>2, <1>3, ActiveFacts DEF Backtested
<1>5. /\ times \in Seq(Int) /\ Len(times) = n
      /\ \A i \in 1..n : times[i] = pack.times[i + w]
  <2>1. /\ ActiveRows(pack, pack.times) \in Seq(Int)
        /\ Len(ActiveRows(pack, pack.times)) = IF pack.warmup < Len(pack.times) THEN Len(pack.times) - pack.warmup ELSE 0
        /\ \A i \in 1..Len(ActiveRows(pack, pack.times)) : ActiveRows(pack, pack.times)[i] = pack.times[i + pack.warmup]
    BY <1>1, ActiveFacts
  <2>2. Len(times) = n
    BY <1>0, <1>2, <1>4, <2>1
  <2> QED BY <1>0, <1>2, <2>1, <2>2
<1>6. n \in Nat
  BY <1>4
<1>7. n >= 2 /\ found.spans = Spans(rows, times) /\ found.drawdown = DrawdownBars(rows)
  <2>1. ~ (Len(rows) < 2)
    BY <1>0 DEF Analyzed
  <2>2. found = [counted |-> TRUE, trades |-> Trades(rows), spans |-> Spans(rows, times),
                 drawdown |-> DrawdownBars(rows),
                 score |-> IF Trades(rows).total = 0 THEN Idle ELSE b.score]
    BY <1>0, <2>1 DEF Analyzed
  <2> QED BY <1>3, <1>6, <2>1, <2>2
<1>8. ASSUME NEW i \in 1..n - 1
      PROVE  times[i] <= times[i + 1]
  <2>1. i \in 1..n /\ i + 1 \in 1..n /\ i + w \in 1..m - 1 /\ (i + 1) + w = (i + w) + 1
    BY <1>4, <1>6, <1>7
  <2>2. times[i] = pack.times[i + w] /\ times[i + 1] = pack.times[(i + w) + 1]
    BY <1>5, <2>1
  <2> QED BY <1>1, <1>2, <2>1, <2>2
<1>9. Timed(times, n)
  BY <1>5, <1>6, <1>7, <1>8 DEF Timed
<1> QED BY <1>0, <1>3, <1>4, <1>7, <1>9 DEF TellsOf

(* The performance of a backtest tells the stretches of rows with a        *)
(* position and without one, in order, with what they lasted, and the      *)
(* longest drawdown.  The argument: after each row the stretches that are  *)
(* over are listed and the one that reaches the row is the current one.    *)
THEOREM SpansAlwaysAreStretches == Spec => []SpansAreStretches
<1>1. ASSUME Batched
      PROVE  SpansAreStretches
  <2> SUFFICES ASSUME Answered("batch"), call.settings.stage = "performance", NEW i \in DOMAIN answer,
                      answer[i]["performance"].counted
               PROVE  LET found == answer[i]["performance"]
                          rows == ActiveRows(call.pack, call.params[i]["backtest"].rows)
                          times == ActiveRows(call.pack, call.pack.times)
                          held == {j \in DOMAIN rows : rows[j].held}
                          free == DOMAIN rows \ held
                          down == {j \in DOMAIN rows : rows[j].down}
                      IN  /\ Lists(found.spans.holdings, Stretches(held), times)
                          /\ Lists(found.spans.empties,
                                   {s \in Stretches(free) : \E j \in held : j < s[1]},
                                   times)
                          /\ {found.drawdown} \cup {s[2] - s[1] + 1 : s \in Stretches(down)}
                               \subseteq 0..found.drawdown
                          /\ found.drawdown > 0 =>
                               \E s \in Stretches(down) : found.drawdown = s[2] - s[1] + 1
    BY DEF SpansAreStretches
  <2>1. PICK pack, param, found, b : /\ pack = call.pack /\ param = call.params[i]
                                     /\ found = answer[i]["performance"] /\ b = param["backtest"]
    OBVIOUS
  <2>2. /\ answer[i] = SinglePack(pack, param, Compiled(call.settings)) /\ answer[i] # Fails
        /\ call \in Calls /\ call.entry = "batch" /\ i \in DOMAIN call.params
    BY <1>1, <2>1 DEF Batched, Answered, Request
  <2>3. HasShape(param) /\ HasTimes(pack)
    BY <2>1, <2>2, CallAssumption
  <2>4. b # Fails /\ FrameHeight(pack, b) /\ found = Analyzed(pack, b)
    BY <2>1, <2>2, <2>3, PerformanceIn
  <2>5. Backtested(pack, b)
    BY <2>1, <2>3, <2>4 DEF HasShape, FrameHeight, Backtested
  <2>6. PICK rows, times : rows = ActiveRows(pack, b.rows) /\ times = ActiveRows(pack, pack.times)
    OBVIOUS
  <2>7. PICK n : TellsOf(found, rows, times, n)
    BY <2>1, <2>4, <2>5, <2>6, AnalyzedCounts
  <2>8. PICK held, down : held = HeldOf(rows) /\ down = DownOf(rows)
    OBVIOUS
  <2>9. n \in Nat /\ held \subseteq 1..n
    BY <2>7, <2>8 DEF TellsOf, HeldOf, Timed
  <2>10. Lists(found.spans.holdings, Stretches(held), times)
    BY <2>7, <2>8, SpansHold DEF TellsOf
  <2>11. Lists(found.spans.empties, {s \in Stretches(1..n \ held) : \E j \in held : j < s[1]}, times)
    <3>1. Lists(found.spans.empties, Stretches(After(held, n)), times)
      BY <2>7, <2>8, SpansHold DEF TellsOf
    <3>2. Stretches(After(held, n)) = {s \in Stretches(1..n \ held) : \E j \in held : j < s[1]}
      BY <2>9, StretchesAfter
    <3> QED BY <3>1, <3>2
  <2>12. /\ {found.drawdown} \cup {s[2] - s[1] + 1 : s \in Stretches(down)} \subseteq 0..found.drawdown
         /\ found.drawdown > 0 => \E s \in Stretches(down) : found.drawdown = s[2] - s[1] + 1
    BY <2>7, <2>8, <2>9, DrawdownHolds DEF TellsOf
  <2>13. held = {j \in DOMAIN rows : rows[j].held} /\ down = {j \in DOMAIN rows : rows[j].down}
    BY <2>8 DEF HeldOf, DownOf
  <2>14. DOMAIN rows = 1..n
    BY <2>7 DEF TellsOf
  <2> QED BY <2>1, <2>6, <2>10, <2>11, <2>12, <2>13, <2>14
<1> QED BY <1>1, BatchedInv, PTL
=============================================================================
