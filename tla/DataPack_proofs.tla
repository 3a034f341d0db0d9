--------------------------- MODULE DataPack_proofs ---------------------------
(***************************************************************************)
(* What is fetched and what is read of it.                                 *)
(*                                                                         *)
(* First, what a finished plan of the data planner promises, for every     *)
(* market, interval, warm-up and number of rounds.  Two invariants carry   *)
(* it: Planned, what every stage of every source has reached, for the plan *)
(* that is complete or refused; and Kept, that the pack and what is cut    *)
(* out of it fit the plan, for the bars the rows see.  The facts they rest *)
(* on are about finite sets of times: the row of a time, the bar of a row, *)
(* the answer to a request as a stretch of what is listed.                 *)
(*                                                                         *)
(* Then, what the signals read of a pack, for every pack, column and       *)
(* template: a row of another source that is over with the row it is read  *)
(* for.  The invariant SignalInv says that a column shows what its group   *)
(* says; the facts it is joined with are about one comparison, row by row. *)
(***************************************************************************)
EXTENDS FetchPlanner, SignalGenerator, FiniteSetTheorems, FunctionTheorems, TLAPS

-----------------------------------------------------------------------------
\* Finite sets of times

\* A set of times an exchange can have.
Times(S) == S \subseteq Int /\ IsFiniteSet(S)

LEMMA TimesWithin ==
  ASSUME NEW S, NEW T, Times(S), T \subseteq S
  PROVE  /\ Times(T)
         /\ Cardinality(T) \in Nat /\ Cardinality(S) \in Nat
         /\ Cardinality(T) <= Cardinality(S)
         /\ T # S => Cardinality(T) < Cardinality(S)
<1>1. /\ IsFiniteSet(T)
      /\ Cardinality(T) <= Cardinality(S)
      /\ Cardinality(S) = Cardinality(T) => S = T
  BY FS_Subset DEF Times
<1>2. Cardinality(T) \in Nat /\ Cardinality(S) \in Nat
  BY <1>1, FS_CardinalityType DEF Times
<1> QED BY <1>1, <1>2 DEF Times

LEMMA LeastNumber ==
  ASSUME NEW T, T \subseteq Nat, T # {}
  PROVE  \E m \in T : \A k \in T : m <= k
<1>1. PICK x \in T : \A y \in T : <<y, x>> \notin OpToRel(<, Nat)
  BY WFMin, NatLessThanWellFounded, Zenon
<1>2. \A y \in T : ~ (y < x)
  BY <1>1, Zenon DEF OpToRel
<1> QED BY <1>2

\* The row of a time counts the bars before it.
LEMMA RowFacts ==
  ASSUME NEW S, Times(S), NEW a \in Int
  PROVE  /\ Row(S, a) \in Nat
         /\ Row(S, a) <= Cardinality(S)
         /\ a \in S => Row(S, a) < Cardinality(S)
         /\ \A b \in Int : a <= b => Row(S, a) <= Row(S, b)
         /\ \A b \in Int : a \in S /\ a < b => Row(S, a) < Row(S, b)
<1> DEFINE before(t) == {u \in S : u < t}
<1>1. S \subseteq Int
  BY DEF Times
<1>2. \A t \in Int : /\ Row(S, t) = Cardinality(before(t)) /\ before(t) \subseteq S
                     /\ t \in S => t \notin before(t)
  BY <1>1 DEF Row
<1>3. ASSUME NEW b \in Int, a <= b
      PROVE  before(a) \subseteq before(b)
  <2> SUFFICES ASSUME NEW u \in S, u < a
               PROVE  u < b
    OBVIOUS
  <2> QED BY <1>1, <1>3
<1>4. \A b \in Int : a \in S /\ a < b => a \in before(b)
  BY <1>1
<1> HIDE DEF before
<1>5. Row(S, a) \in Nat /\ Row(S, a) <= Cardinality(S) /\ (a \in S => Row(S, a) < Cardinality(S))
  BY <1>2, TimesWithin
<1>6. \A b \in Int : Times(before(b))
  BY <1>2, TimesWithin
<1>7. ASSUME NEW b \in Int, a <= b
      PROVE  Row(S, a) <= Row(S, b)
  BY <1>2, <1>3, <1>6, <1>7, TimesWithin
<1>8. ASSUME NEW b \in Int, a \in S, a < b
      PROVE  Row(S, a) < Row(S, b)
  <2>1. before(a) \subseteq before(b) /\ before(a) # before(b)
    BY <1>2, <1>3, <1>4, <1>8
  <2> QED BY <1>2, <1>6, <2>1, TimesWithin
<1> QED BY <1>5, <1>7, <1>8

\* A finite set of times has an earliest and a latest one.
LEMMA EarliestOf ==
  ASSUME NEW S, Times(S), S # {}
  PROVE  /\ Earliest(S) \in S /\ Earliest(S) \in Int
         /\ \A u \in S : Earliest(S) <= u
<1> DEFINE rows == {Row(S, t) : t \in S}
<1>1. S \subseteq Int
  BY DEF Times
<1>2. rows \subseteq Nat /\ rows # {}
  BY <1>1, RowFacts
<1>3. PICK m \in rows : \A k \in rows : m <= k
  BY <1>2, LeastNumber
<1>4. PICK t \in S : m = Row(S, t)
  BY <1>3
<1>5. \A u \in S : t <= u
  <2> SUFFICES ASSUME NEW u \in S, u < t
               PROVE  FALSE
    BY <1>1
  <2>1. Row(S, u) < Row(S, t)
    BY <1>1, RowFacts
  <2>2. Row(S, t) <= Row(S, u)
    BY <1>3, <1>4
  <2> QED BY <1>1, <2>1, <2>2, RowFacts
<1> QED BY <1>1, <1>4, <1>5 DEF Earliest

LEMMA LatestOf ==
  ASSUME NEW S, Times(S), S # {}
  PROVE  /\ Latest(S) \in S /\ Latest(S) \in Int
         /\ \A u \in S : u <= Latest(S)
<1> DEFINE after(t) == {u \in S : u > t}
           counts == {Cardinality(after(t)) : t \in S}
<1>1. S \subseteq Int /\ \A t \in S : after(t) \subseteq S
  BY DEF Times
<1>2. \A t \in S : Times(after(t)) /\ Cardinality(after(t)) \in Nat
  BY <1>1, TimesWithin
<1>3. counts \subseteq Nat /\ counts # {}
  BY <1>2
<1>4. PICK m \in counts : \A k \in counts : m <= k
  BY <1>3, LeastNumber
<1>5. PICK t \in S : m = Cardinality(after(t))
  BY <1>4
<1>6. \A u \in S : u <= t
  <2> SUFFICES ASSUME NEW u \in S, t < u
               PROVE  FALSE
    BY <1>1
  <2>1. \A v \in S : v > u => v > t
    BY <1>1
  <2>2. u \in after(t) /\ u \notin after(u)
    BY <1>1
  <2>3. after(u) \subseteq after(t)
    BY <2>1
  <2> HIDE DEF after
  <2>4. Cardinality(after(u)) < Cardinality(after(t))
    BY <1>2, <2>2, <2>3, TimesWithin
  <2>5. Cardinality(after(t)) <= Cardinality(after(u))
    BY <1>4, <1>5
  <2> QED BY <1>2, <2>4, <2>5
<1> QED BY <1>1, <1>5, <1>6 DEF Latest

\* Rows number the bars of a set of times one by one.
LEMMA RowNumbers ==
  ASSUME NEW S, Times(S)
  PROVE  /\ Cardinality(S) \in Nat
         /\ \A r \in 0..Cardinality(S) - 1 : \E t \in S : Row(S, t) = r
         /\ \A a, b \in S : Row(S, a) = Row(S, b) => a = b
<1> DEFINE f == [t \in S |-> Row(S, t)]
           n == Cardinality(S)
<1>1. S \subseteq Int /\ n \in Nat /\ IsFiniteSet(S)
  BY FS_CardinalityType DEF Times
<1>2. \A t \in S : Row(S, t) \in 0..n - 1
  BY <1>1, RowFacts
<1>3. \A a, b \in S : Row(S, a) = Row(S, b) => a = b
  <2> SUFFICES ASSUME NEW a \in S, NEW b \in S, Row(S, a) = Row(S, b), a # b
               PROVE  FALSE
    OBVIOUS
  <2>1. a \in Int /\ b \in Int /\ Row(S, a) \in Nat
    BY <1>1, RowFacts
  <2>2. CASE a < b
    BY <2>1, <2>2, RowFacts
  <2>3. CASE b < a
    BY <2>1, <2>3, RowFacts
  <2> QED BY <2>1, <2>2, <2>3
<1>4. f \in [S -> 0..n - 1]
  BY <1>2
<1>5. \A a, b \in S : f[a] = f[b] => a = b
  BY <1>3
<1>6. f \in Injection(S, 0..n - 1)
  BY <1>4, <1>5, Fun_IsInj
<1>7. IsFiniteSet(0..n - 1) /\ Cardinality(0..n - 1) = n
  BY <1>1, FS_Interval
<1> HIDE DEF f
<1>8. f \in Surjection(S, 0..n - 1)
  BY <1>1, <1>6, <1>7, FS_Injection
<1>9. \A r \in 0..n - 1 : \E t \in S : f[t] = r
  <2>1. PICK R : R = 0..n - 1
    OBVIOUS
  <2>2. f \in Surjection(S, R)
    BY <1>8, <2>1
  <2>3. \A r \in R : \E t \in S : f[t] = r
    BY <2>2 DEF Surjection
  <2> QED BY <2>1, <2>3
<1>10. \A t \in S : f[t] = Row(S, t)
  BY DEF f
<1> QED BY <1>1, <1>3, <1>9, <1>10

LEMMA BarAtRow ==
  ASSUME NEW S, Times(S), NEW r \in 0..Cardinality(S) - 1
  PROVE  BarAt(S, r) \in S /\ BarAt(S, r) \in Int /\ Row(S, BarAt(S, r)) = r
BY RowNumbers DEF BarAt, Times

LEMMA BarAtUnique ==
  ASSUME NEW S, Times(S), NEW t \in S
  PROVE  /\ Row(S, t) \in 0..Cardinality(S) - 1
         /\ BarAt(S, Row(S, t)) = t
<1>1. t \in Int /\ Cardinality(S) \in Nat
  BY TimesWithin DEF Times
<1>2. Row(S, t) \in 0..Cardinality(S) - 1
  BY <1>1, RowFacts
<1>3. BarAt(S, Row(S, t)) \in S /\ Row(S, BarAt(S, Row(S, t))) = Row(S, t)
  BY <1>2, BarAtRow
<1> QED BY <1>2, <1>3, RowNumbers

\* What rows a to b - 1 of a set are, and what their own rows are.
LEMMA RowsFacts ==
  ASSUME NEW S, Times(S), NEW a \in Nat, NEW b \in Nat, a <= b, b <= Cardinality(S)
  PROVE  /\ Times(Rows(S, a, b)) /\ Rows(S, a, b) \subseteq S
         /\ Cardinality(Rows(S, a, b)) = b - a
<1> DEFINE T == Rows(S, a, b)
           g == [t \in T |-> Row(S, t) - a + 1]
<1>1. S \subseteq Int /\ T \subseteq S /\ \A t \in T : Row(S, t) \in a..b - 1
  BY DEF Rows, Times
<1>2. Times(T)
  BY <1>1, TimesWithin
<1>3. g \in [T -> 1..b - a]
  BY <1>1
<1>4. \A x, y \in T : g[x] = g[y] => x = y
  <2> SUFFICES ASSUME NEW x \in T, NEW y \in T, g[x] = g[y]
               PROVE  x = y
    OBVIOUS
  <2>1. Row(S, x) = Row(S, y)
    BY <1>1
  <2> QED BY <1>1, <2>1, RowNumbers
<1>5. \A r \in 1..b - a : \E t \in T : g[t] = r
  <2> SUFFICES ASSUME NEW r \in 1..b - a
               PROVE  \E t \in T : g[t] = r
    OBVIOUS
  <2>1. r + a - 1 \in 0..Cardinality(S) - 1
    BY TimesWithin
  <2>2. BarAt(S, r + a - 1) \in S /\ Row(S, BarAt(S, r + a - 1)) = r + a - 1
    BY <2>1, BarAtRow
  <2>3. BarAt(S, r + a - 1) \in T
    BY <2>2 DEF Rows
  <2>4. g[BarAt(S, r + a - 1)] = r
    BY <2>2, <2>3
  <2> QED BY <2>3, <2>4
<1> HIDE DEF g, T
<1>6. g \in Bijection(T, 1..b - a)
  BY <1>3, <1>4, <1>5, Fun_IsBij
<1>7. ExistsBijection(1..b - a, T)
  BY <1>6, Fun_ExistsBij, Fun_ExistsBijSymmetric
<1>8. Cardinality(T) = b - a
  BY <1>7, FS_CountingElements
<1> QED BY <1>1, <1>2, <1>8 DEF T

LEMMA RowInRows ==
  ASSUME NEW S, Times(S), NEW a \in Nat, NEW b \in Nat, a <= b, b <= Cardinality(S),
         NEW t \in S, Row(S, t) \in a..b
  PROVE  Row(Rows(S, a, b), t) = Row(S, t) - a
<1>1. S \subseteq Int /\ t \in Int
  BY DEF Times
<1>2. \A u \in S : u < t <=> Row(S, u) < Row(S, t)
  <2> SUFFICES ASSUME NEW u \in S
               PROVE  u < t <=> Row(S, u) < Row(S, t)
    OBVIOUS
  <2>1. u \in Int /\ Row(S, u) \in Nat /\ Row(S, t) \in Nat
    BY <1>1, RowFacts
  <2>2. u < t => Row(S, u) < Row(S, t)
    BY <2>1, RowFacts
  <2>3. ~ (u < t) => Row(S, t) <= Row(S, u)
    BY <1>1, <2>1, RowFacts
  <2> QED BY <2>1, <2>2, <2>3
<1>3. \A u \in S : Row(S, u) \in Nat
  BY <1>1, RowFacts
<1>4. {u \in Rows(S, a, b) : u < t} = Rows(S, a, Row(S, t))
  BY <1>2, <1>3 DEF Rows
<1>5. Cardinality(Rows(S, a, Row(S, t))) = Row(S, t) - a
  BY <1>1, <1>3, RowFacts, RowsFacts
<1> QED BY <1>4, <1>5 DEF Row

\* The bar a moment sees, and its row.
SeenIn(S, t) == Latest({u \in S : u <= t})

LEMMA LatestIs ==
  ASSUME NEW S, Times(S), NEW m \in S, \A u \in S : u <= m
  PROVE  Latest(S) = m
<1>1. Latest(S) \in S /\ \A u \in S : u <= Latest(S)
  BY LatestOf
<1>2. Latest(S) <= m /\ m <= Latest(S) /\ m \in Int /\ Latest(S) \in Int
  BY <1>1 DEF Times
<1> QED BY <1>2

LEMMA SeenFacts ==
  ASSUME NEW S, Times(S), NEW t \in Int, \E u \in S : u <= t
  PROVE  /\ SeenIn(S, t) \in S /\ SeenIn(S, t) \in Int /\ SeenIn(S, t) <= t
         /\ \A u \in S : u <= t => u <= SeenIn(S, t)
         /\ RowAt(S, t) = Row(S, SeenIn(S, t))
         /\ RowAt(S, t) \in Nat
<1> DEFINE B == {u \in S : u <= t}
           s == SeenIn(S, t)
           A == {u \in S : u < s}
<1>1. S \subseteq Int /\ B \subseteq S /\ B # {} /\ A \subseteq S
  BY DEF Times
<1>2. Times(B) /\ Times(A)
  BY <1>1, TimesWithin
<1>3. s \in B /\ \A u \in B : u <= s
  BY <1>1, <1>2, LatestOf DEF SeenIn
<1>4. s \in Int /\ s \in S /\ s <= t /\ \A u \in S : u <= t => u <= s
  BY <1>1, <1>3
<1> HIDE DEF s
<1>5. ASSUME NEW u \in S
      PROVE  u <= t <=> u < s \/ u = s
  <2>1. u \in Int /\ s \in Int /\ s <= t /\ (u <= t => u <= s)
    BY <1>1, <1>4
  <2> QED BY <2>1
<1>6. ~ (s < s)
  BY <1>4
<1>7. B = A \cup {s} /\ s \notin A
  BY <1>4, <1>5, <1>6
<1> HIDE DEF A, B
<1>8. Cardinality(A) \in Nat /\ Cardinality(B) = Cardinality(A) + 1
  BY <1>2, <1>7, FS_AddElement, FS_CardinalityType DEF Times
<1>9. RowAt(S, t) = Cardinality(B) - 1
  BY DEF RowAt, B
<1>10. Row(S, s) = Cardinality(A)
  BY DEF Row, A
<1> QED BY <1>4, <1>8, <1>9, <1>10 DEF s

\* A later moment sees the same row or a later one.
LEMMA SeenRowGrows ==
  ASSUME NEW S, Times(S), NEW t \in Int, NEW v \in Int, t <= v, \E u \in S : u <= t
  PROVE  (\E u \in S : u <= v) /\ RowAt(S, t) <= RowAt(S, v)
<1>1. S \subseteq Int
  BY DEF Times
<1>2. PICK u \in S : u <= t
  OBVIOUS
<1>3. u <= v
  BY <1>1, <1>2
<1>4. /\ SeenIn(S, t) \in S /\ SeenIn(S, t) \in Int /\ SeenIn(S, t) <= t
      /\ RowAt(S, t) = Row(S, SeenIn(S, t))
  BY <1>2, SeenFacts
<1>5. /\ SeenIn(S, v) \in Int
      /\ \A w \in S : w <= v => w <= SeenIn(S, v)
      /\ RowAt(S, v) = Row(S, SeenIn(S, v))
  BY <1>3, SeenFacts
<1>6. SeenIn(S, t) <= SeenIn(S, v)
  BY <1>4, <1>5
<1> QED BY <1>3, <1>4, <1>5, <1>6, RowFacts

\* Rows a to b - 1 of a set show a moment the bar it saw, if that bar is one of
\* them.
LEMMA SeenInRows ==
  ASSUME NEW S, Times(S), NEW a \in Nat, NEW b \in Nat, a <= b, b <= Cardinality(S),
         NEW t \in Int, \E u \in S : u <= t, RowAt(S, t) \in a..b - 1
  PROVE  /\ \E u \in Rows(S, a, b) : u <= t
         /\ SeenIn(Rows(S, a, b), t) = SeenIn(S, t)
         /\ RowAt(Rows(S, a, b), t) = RowAt(S, t) - a
<1> DEFINE s == SeenIn(S, t)
           T == Rows(S, a, b)
<1>1. /\ s \in S /\ s \in Int /\ s <= t /\ \A u \in S : u <= t => u <= s
      /\ RowAt(S, t) = Row(S, s)
  BY SeenFacts
<1>2. s \in T
  BY <1>1 DEF Rows
<1>3. Times(T) /\ T \subseteq S
  BY RowsFacts
<1>4. Row(T, s) = Row(S, s) - a
  BY <1>1, RowInRows
<1> HIDE DEF s, T
<1>5. Times({u \in T : u <= t})
  BY <1>3, TimesWithin
<1>6. SeenIn(T, t) = s
  BY <1>1, <1>2, <1>3, <1>5, LatestIs DEF SeenIn
<1>7. RowAt(T, t) = Row(T, SeenIn(T, t))
  BY <1>1, <1>2, <1>3, SeenFacts
<1> QED BY <1>1, <1>2, <1>4, <1>6, <1>7 DEF s, T
-----------------------------------------------------------------------------
\* What an exchange answers

\* Bars an interval apart: at most n of them in n intervals.
LEMMA SpacedCount ==
  ASSUME NEW S, Times(S), NEW I \in Nat \ {0}, Spaced(S, I), NEW a \in Int, NEW n \in Nat,
         \A t \in S : a <= t /\ t < a + n * I
  PROVE  Cardinality(S) <= n
<1> DEFINE f == [t \in S |-> (t - a) \div I + 1]
           slot(t) == (t - a) \div I
<1>1. S \subseteq Int
  BY DEF Times
<1>2. ASSUME NEW t \in S
      PROVE  /\ slot(t) \in Int
             /\ I * slot(t) <= t - a /\ t - a < I * slot(t) + I
    BY <1>1
<1>3. ASSUME NEW t \in S
      PROVE  slot(t) \in 0..n - 1
  <2>1. slot(t) \in Int /\ I * slot(t) <= t - a /\ t - a < I * slot(t) + I
    BY <1>2
  <2> HIDE DEF slot
  <2>2. t \in Int /\ 0 <= t - a /\ t - a < n * I
    BY <1>1
  <2>3. slot(t) >= 0
    <3> SUFFICES ASSUME slot(t) + 1 <= 0
                 PROVE  FALSE
      BY <2>1
    <3>1. I * (slot(t) + 1) <= 0
      BY <2>1
    <3>2. I * (slot(t) + 1) = I * slot(t) + I
      BY <2>1
    <3> QED BY <2>1, <2>2, <3>1, <3>2
  <2>4. slot(t) < n
    <3> SUFFICES ASSUME n <= slot(t)
                 PROVE  FALSE
      BY <2>1
    <3>1. n * I <= slot(t) * I
      BY <2>1
    <3>2. slot(t) * I = I * slot(t)
      BY <2>1
    <3> QED BY <2>1, <2>2, <3>1, <3>2
  <2> QED BY <2>1, <2>3, <2>4
<1>4. ASSUME NEW t \in S, NEW u \in S, slot(t) = slot(u)
      PROVE  t = u
  <2>1. /\ slot(t) \in Int /\ I * slot(t) <= t - a /\ t - a < I * slot(t) + I
        /\ I * slot(u) <= u - a /\ u - a < I * slot(u) + I
    BY <1>2
  <2> HIDE DEF slot
  <2>2. t \in Int /\ u \in Int /\ t - u < I /\ u - t < I
    BY <1>1, <1>4, <2>1
  <2>3. (t < u => u - t >= I) /\ (u < t => t - u >= I)
    BY DEF Spaced
  <2> QED BY <2>2, <2>3
<1>5. f \in [S -> 1..n]
  BY <1>3
<1>6. \A t, u \in S : f[t] = f[u] => t = u
  <2> SUFFICES ASSUME NEW t \in S, NEW u \in S, f[t] = f[u]
               PROVE  t = u
    OBVIOUS
  <2>1. slot(t) + 1 = slot(u) + 1 /\ slot(t) \in Int /\ slot(u) \in Int
    BY <1>3
  <2> QED BY <1>4, <2>1
<1> HIDE DEF f
<1>7. f \in Injection(S, 1..n)
  BY <1>5, <1>6, Fun_IsInj
<1>8. IsFiniteSet(1..n) /\ Cardinality(1..n) = n
  BY FS_Interval
<1> QED BY <1>7, <1>8, FS_Injection

\* The bars H an exchange lists, as it answers a request for limit of them from
\* since on, a page at a time.
Begun(H, since) == {t \in H : t >= since}
Reply(H, since, limit, page) ==
  {t \in Begun(H, since) : Row(Begun(H, since), t) < Smaller(limit, page)}

LEMMA ReplyIsPrefix ==
  ASSUME NEW H, Times(H), NEW since \in Int, NEW limit \in Nat, NEW page \in Nat \ {0}
  PROVE  /\ Times(Begun(H, since)) /\ Times(Reply(H, since, limit, page))
         /\ Reply(H, since, limit, page) \subseteq Begun(H, since)
         /\ Begun(H, since) \subseteq H
         /\ \A t \in Reply(H, since, limit, page) : \A u \in Begun(H, since) :
              u <= t => u \in Reply(H, since, limit, page)
         /\ limit >= 1 /\ Begun(H, since) # {} =>
              Earliest(Begun(H, since)) \in Reply(H, since, limit, page)
         /\ Reply(H, since, limit, page) # {} =>
              Earliest(Reply(H, since, limit, page)) = Earliest(Begun(H, since))
<1> DEFINE B == Begun(H, since)
           R == Reply(H, since, limit, page)
<1>1. R \subseteq B /\ B \subseteq H /\ H \subseteq Int /\ B \subseteq Int
  BY DEF Reply, Begun, Times
<1>2. Times(B) /\ Times(R)
  BY <1>1, TimesWithin
<1>3. Smaller(limit, page) \in Nat /\ (limit >= 1 => Smaller(limit, page) >= 1)
  BY DEF Smaller
<1>4. \A t \in B : t \in R <=> Row(B, t) < Smaller(limit, page)
  BY DEF Reply
<1> HIDE DEF B, R
<1>5. ASSUME NEW t \in R, NEW u \in B, u <= t
      PROVE  u \in R
  <2>1. t \in Int /\ u \in Int /\ t \in B
    BY <1>1
  <2>2. Row(B, u) <= Row(B, t) /\ Row(B, u) \in Nat /\ Row(B, t) \in Nat
    BY <1>2, <1>5, <2>1, RowFacts
  <2>3. Row(B, t) < Smaller(limit, page)
    BY <1>4, <2>1
  <2> QED BY <1>3, <1>4, <2>2, <2>3
<1>6. ASSUME B # {}
      PROVE  Earliest(B) \in B /\ Row(B, Earliest(B)) = 0
  <2>1. Earliest(B) \in B /\ Earliest(B) \in Int /\ \A u \in B : Earliest(B) <= u
    BY <1>2, <1>6, EarliestOf
  <2>2. \A u \in B : ~ (u < Earliest(B))
    BY <1>1, <2>1
  <2>3. {u \in B : u < Earliest(B)} = {}
    BY <2>2
  <2> QED BY <2>1, <2>3, FS_EmptySet DEF Row
<1>7. limit >= 1 /\ B # {} => Earliest(B) \in R
  BY <1>3, <1>4, <1>6
<1>8. ASSUME R # {}
      PROVE  Earliest(R) = Earliest(B)
  <2>1. Earliest(R) \in R /\ Earliest(R) \in Int /\ \A u \in R : Earliest(R) <= u
    BY <1>2, <1>8, EarliestOf
  <2>2. Earliest(B) \in B /\ Earliest(B) \in Int /\ \A u \in B : Earliest(B) <= u
    BY <1>1, <1>2, <1>8, EarliestOf
  <2>3. Earliest(B) <= Earliest(R)
    BY <1>1, <2>1, <2>2
  <2>4. Earliest(B) \in R
    BY <1>5, <2>1, <2>2, <2>3
  <2> QED BY <2>1, <2>2, <2>3, <2>4
<1> QED BY <1>1, <1>2, <1>5, <1>7, <1>8 DEF B, R

\* A request that reaches n bars further back and asks for n bars more, or
\* for more still, has the bars of the one before it, if no answer is cut to a
\* page.
LEMMA ReplyGrows ==
  ASSUME NEW H, Times(H), NEW I \in Nat \ {0}, Spaced(H, I), NEW since \in Int,
         NEW limit \in Nat, NEW page \in Nat \ {0}, Cardinality(H) <= page,
         NEW n \in Nat, NEW more \in Nat, n <= more
  PROVE  Reply(H, since, limit, page) \subseteq Reply(H, since - n * I, limit + more, page)
<1> DEFINE back == since - n * I
           B == Begun(H, since)
           C == Begun(H, back)
<1>1. n * I \in Nat /\ back \in Int /\ back <= since /\ since = back + n * I
  <2>1. \A x, y \in Nat : x * y \in Nat
    OBVIOUS
  <2>2. n * I \in Nat
    BY <2>1
  <2> QED BY <2>2
<1> HIDE DEF back
<1>2. H \subseteq Int /\ B \subseteq C /\ C \subseteq H
  <2>1. H \subseteq Int
    BY DEF Times
  <2>2. \A t \in H : t >= since => t >= back
    BY <1>1, <2>1
  <2> QED BY <2>1, <2>2 DEF Begun
<1>3. Times(B) /\ Times(C) /\ Cardinality(C) \in Nat /\ Cardinality(C) <= page
  <2>1. Times(B) /\ Times(C) /\ Cardinality(C) \in Nat /\ Cardinality(H) \in Nat
        /\ Cardinality(C) <= Cardinality(H)
    BY <1>2, TimesWithin
  <2> QED BY <2>1
<1> SUFFICES ASSUME NEW t \in B, Row(B, t) < Smaller(limit, page)
             PROVE  t \in C /\ Row(C, t) < Smaller(limit + more, page)
  BY <1>1, <1>2 DEF Reply, back
<1> DEFINE G == {u \in H : back <= u /\ u < since}
           P == {u \in B : u < t}
           Q == {u \in C : u < t}
<1>4. G \subseteq H /\ P \subseteq B /\ Q \subseteq C /\ t \in C /\ t \in Int
  BY <1>2
<1>5. Times(G) /\ Times(P) /\ Times(Q) /\ Times(G \cup P)
  <2>1. G \cup P \subseteq H
    BY <1>2
  <2> QED BY <1>2, <1>4, <2>1, TimesWithin
<1>6. Cardinality(G) <= n
  <2>1. Spaced(G, I)
    BY <1>4 DEF Spaced
  <2>2. \A u \in G : back <= u /\ u < back + n * I
    BY <1>1
  <2> HIDE DEF G
  <2> QED BY <1>1, <1>5, <2>1, <2>2, SpacedCount
<1>7. Q \subseteq G \cup P
  <2> SUFFICES ASSUME NEW u \in C, u < t
               PROVE  u \in G \cup P
    OBVIOUS
  <2>1. u \in H /\ u \in Int /\ back <= u
    BY <1>2 DEF Begun
  <2>2. CASE u < since
    BY <2>1, <2>2
  <2>3. CASE since <= u
    BY <2>1, <2>3 DEF Begun
  <2> QED BY <2>1, <2>2, <2>3
<1> HIDE DEF G, P, Q
<1>8. /\ Cardinality(Q) <= Cardinality(G \cup P)
      /\ Cardinality(G \cup P) = Cardinality(G) + Cardinality(P) - Cardinality(G \cap P)
  BY <1>5, <1>7, TimesWithin, FS_Union DEF Times
<1>9. /\ Cardinality(G) \in Nat /\ Cardinality(P) \in Nat /\ Cardinality(Q) \in Nat
      /\ Cardinality(G \cup P) \in Nat /\ Cardinality(G \cap P) \in Nat
  BY <1>5, TimesWithin, FS_Intersection, FS_CardinalityType DEF Times
<1>10. Row(B, t) = Cardinality(P) /\ Row(C, t) = Cardinality(Q)
  BY DEF Row, P, Q
<1>11. Row(C, t) < Cardinality(C) /\ Row(C, t) \in Nat
  BY <1>3, <1>4, RowFacts
<1>12. Row(B, t) < limit
  BY <1>9, <1>10 DEF Smaller
<1>13. Row(C, t) < limit + more
  BY <1>6, <1>8, <1>9, <1>10, <1>12
<1>14. Row(C, t) < page
  BY <1>3, <1>11
<1> QED BY <1>4, <1>13, <1>14 DEF Smaller

\* Bars listed later open after those listed before, and take no bar out of an
\* answer.
LEMMA ReplyKeeps ==
  ASSUME NEW H, NEW J, Times(J), H \subseteq J, \A t \in H, u \in J \ H : t < u,
         NEW since \in Int, NEW limit \in Nat, NEW page \in Nat \ {0}
  PROVE  Reply(H, since, limit, page) \subseteq Reply(J, since, limit, page)
<1>1. J \subseteq Int /\ Begun(H, since) \subseteq Begun(J, since)
  BY DEF Times, Begun
<1> SUFFICES ASSUME NEW t \in Begun(H, since), Row(Begun(H, since), t) < Smaller(limit, page)
             PROVE  Row(Begun(J, since), t) < Smaller(limit, page)
  BY <1>1 DEF Reply
<1>2. t \in H /\ t \in Int
  BY <1>1 DEF Begun
<1>3. \A u \in J : u < t => u \in H
  BY <1>1, <1>2
<1>4. {u \in Begun(J, since) : u < t} = {u \in Begun(H, since) : u < t}
  BY <1>3 DEF Begun
<1> QED BY <1>4 DEF Row
-----------------------------------------------------------------------------
\* The invariant

Stages == {"Unplanned", "Initial", "TailCoverage", "HeadTimeCoverage", "HeadWarmup", "Complete"}
Fetch == [since : Int, limit : Nat, rounds : Nat, stage : Stages, bars : SUBSET Int]

Typed ==
  /\ input \in Inputs /\ now \in Int
  /\ turn \in 1..Len(Order) + 1
  /\ fetch \in [Sources -> Fetch]

\* The first bar a base can have from the start asked for on.
Begins(t) ==
  /\ t \in input.history[Base] /\ input.since <= t
  /\ \A u \in input.history[Base] : input.since <= u => t <= u

Traded(bars) == {t \in bars : t >= anchor}

\* The base is asked for from the start until it begins, and then, further and
\* further back, for bars that hold all that is to be traded.
BaseAsked ==
  /\ fetch[Base].stage \in {"Initial", "HeadWarmup", "Complete"}
  /\ fetch[Base].stage # "Complete" => turn = 1
  /\ fetch[Base].stage = "Initial" =>
       anchor = Nowhere /\ fetch[Base].since = input.since /\ fetch[Base].limit = input.limit
  /\ fetch[Base].stage = "HeadWarmup" =>
       /\ Begins(anchor) /\ fetch[Base].limit >= 1
       /\ Whole => /\ anchor \in Answer(Base)
                   /\ Cardinality(Traded(Answer(Base))) >= input.limit

BaseComplete ==
  fetch[Base].stage = "Complete" =>
    /\ Begins(anchor)
    /\ fetch[Base].bars \subseteq input.history[Base]
    /\ anchor \in fetch[Base].bars
    /\ Row(fetch[Base].bars, anchor) = Required(Base)
    /\ window = [start |-> Earliest(fetch[Base].bars), end |-> Latest(fetch[Base].bars),
                 live |-> anchor]
    /\ Whole => Cardinality(Traded(fetch[Base].bars)) >= input.limit

\* Once the head of a source is covered a listed bar of the request covers it;
\* once its tail is, a bar of the answer does, if answers are whole.
HeadKnown(k) == \E t \in Listed(k) : fetch[k].since <= t /\ t <= window.start
TailHeld(k) == \E t \in Answer(k) : t + Interval[k] > window.end

Pending(k) ==
  /\ fetch[k].stage \in {"Initial", "TailCoverage", "HeadTimeCoverage", "HeadWarmup"}
  /\ fetch[k].limit >= 1
  /\ fetch[k].stage = "HeadWarmup" => HeadKnown(k)
  /\ fetch[k].stage \in {"HeadTimeCoverage", "HeadWarmup"} /\ Whole => TailHeld(k)

\* A source that is complete covers the base, has its warm-up, and leaves out
\* no bar in between.
Served(k) ==
  /\ fetch[k].stage = "Complete"
  /\ fetch[k].bars \subseteq input.history[k]
  /\ Covers(fetch[k].bars, window.start, window.end, Interval[k])
  /\ RowAt(fetch[k].bars, window.live) >= Required(k)
  /\ \A t \in input.history[k] :
       Earliest(fetch[k].bars) <= t /\ t <= Latest(fetch[k].bars) => t \in fetch[k].bars

InTurn ==
  fetch[Base].stage = "Complete" =>
    \A i \in 1..Len(Order) : IF i < turn THEN Served(Order[i]) ELSE Pending(Order[i])

Verdicts ==
  /\ verdict \in {"built", "unbuilt"} => Asked = {}
  /\ Whole => verdict \notin {"anchor", "uncovered"}
  /\ verdict = "unbuilt" => \/ Cardinality(fetch[Base].bars) = 1
                           \/ \E k \in Others : Interval[k] < Interval[Base]

Held == BaseAsked /\ BaseComplete /\ InTurn
Planned == Typed /\ Held /\ Verdicts

\* What every state knows of its input.
LEMMA InputFacts ==
  ASSUME Typed
  PROVE  /\ input.since \in Int /\ input.limit \in Nat /\ input.limit >= 1
         /\ input.min_bars \in Nat /\ input.page \in Nat \ {0}
         /\ Base \in Sources /\ Others \subseteq Sources /\ Base \notin Others
         /\ \A k \in Sources : /\ Times(input.history[k]) /\ Spaced(input.history[k], Interval[k])
                               /\ Interval[k] \in Nat \ {0}
                               /\ Required(k) \in Nat
                               /\ Required(k) >= Warmup(input.indicator[k])
                               /\ fetch[k] \in Fetch
         /\ Required(Base) >= Warmup(input.exec)
<1>1. input \in Input /\ input \in Inputs
  BY InputAssumption DEF Typed
<1>2. \A k \in Sources : /\ input.history[k] \subseteq Int
                         /\ input.indicator[k] \in Param
  BY <1>1 DEF Input
<1>3. /\ input.since \in Int /\ input.limit \in Nat \ {0} /\ input.min_bars \in Nat \ {0}
      /\ input.page \in Nat \ {0} /\ input.exec \in Param
  BY <1>1 DEF Input
<1>4. \A p \in Param : Warmup(p) \in Nat
  BY DEF Param, Warmup
<1>5. Base \in Sources /\ Others \subseteq Sources /\ Base \notin Others
  BY IntervalAssumption DEF Sources
<1>6. ASSUME NEW k \in Sources
      PROVE  /\ Required(k) \in Nat
             /\ Required(k) >= Warmup(input.indicator[k])
             /\ k = Base => Required(k) >= Warmup(input.exec)
  <2>1. Warmup(input.indicator[k]) \in Nat /\ Warmup(input.exec) \in Nat
    BY <1>2, <1>3, <1>4
  <2> QED BY <2>1 DEF Required, Larger
<1>7. \A k \in Sources : Interval[k] \in Nat \ {0}
  BY IntervalAssumption
<1>8. \A k \in Sources : Times(input.history[k]) /\ Spaced(input.history[k], Interval[k])
  BY <1>1, <1>2, HistoryAssumption DEF Times
<1>9. \A k \in Sources : fetch[k] \in Fetch
  BY DEF Typed
<1> QED BY <1>3, <1>5, <1>6, <1>7, <1>8, <1>9

\* What is listed is the beginning of the history.
LEMMA ListedFacts ==
  ASSUME Typed, NEW k \in Sources
  PROVE  /\ Times(Listed(k)) /\ Spaced(Listed(k), Interval[k])
         /\ Listed(k) \subseteq input.history[k]
         /\ \A t \in Listed(k), u \in input.history[k] : u <= t => u \in Listed(k)
         /\ \A t \in Listed(k), u \in input.history[k] \ Listed(k) : t < u
         /\ Whole => Cardinality(Listed(k)) <= input.page
<1>1. /\ Times(input.history[k]) /\ Spaced(input.history[k], Interval[k])
      /\ input.page \in Nat /\ Interval[k] \in Nat /\ now \in Int
  BY InputFacts DEF Typed
<1>2. Listed(k) \subseteq input.history[k] /\ input.history[k] \subseteq Int
  BY <1>1 DEF Listed, Times
<1>3. /\ Times(Listed(k)) /\ Cardinality(Listed(k)) <= Cardinality(input.history[k])
      /\ Cardinality(Listed(k)) \in Nat /\ Cardinality(input.history[k]) \in Nat
  BY <1>1, <1>2, TimesWithin
<1>4. Spaced(Listed(k), Interval[k])
  BY <1>1, <1>2 DEF Spaced
<1>5. ASSUME NEW t \in Listed(k), NEW u \in input.history[k], u <= t
      PROVE  u \in Listed(k)
  <2>1. t \in Int /\ u \in Int
    BY <1>2
  <2> DEFINE d == IF input.closed_only THEN Interval[k] ELSE 0
  <2>2. d \in Int /\ t + d <= now
    BY <1>1 DEF Listed
  <2>3. u + d <= now
    BY <1>1, <1>5, <2>1, <2>2
  <2> QED BY <2>3 DEF Listed
<1>6. ASSUME NEW t \in Listed(k), NEW u \in input.history[k] \ Listed(k)
      PROVE  t < u
  <2>1. t \in Int /\ u \in Int
    BY <1>2
  <2> QED BY <1>5, <2>1
<1>7. Whole => Cardinality(input.history[k]) <= input.page
  BY DEF Whole
<1> QED BY <1>1, <1>2, <1>3, <1>4, <1>5, <1>6, <1>7

LEMMA AnswerFacts ==
  ASSUME Typed, NEW k \in Sources
  PROVE  /\ Answer(k) = Reply(Listed(k), fetch[k].since, fetch[k].limit, input.page)
         /\ Times(Answer(k)) /\ Answer(k) \subseteq Listed(k)
         /\ Answer(k) \subseteq input.history[k]
         /\ \A t \in Answer(k) : t >= fetch[k].since
         /\ Answer(k) # {} => \A t \in Listed(k) : t >= fetch[k].since => Earliest(Answer(k)) <= t
         /\ \A t \in input.history[k] :
              (\E a, b \in Answer(k) : a <= t /\ t <= b) => t \in Answer(k)
<1> DEFINE H == Listed(k)
           B == Begun(H, fetch[k].since)
<1>1. /\ fetch[k].since \in Int /\ fetch[k].limit \in Nat /\ input.page \in Nat \ {0}
  BY InputFacts DEF Fetch
<1>2. /\ Times(H) /\ H \subseteq input.history[k] /\ H \subseteq Int /\ input.history[k] \subseteq Int
      /\ \A t \in H, u \in input.history[k] : u <= t => u \in H
  BY ListedFacts, InputFacts DEF Times
<1>3. Answer(k) = Reply(H, fetch[k].since, fetch[k].limit, input.page)
  BY DEF Answer, Reply, Begun
<1> HIDE DEF H
<1>4. PICK since \in Int, limit \in Nat, page \in Nat \ {0} :
        since = fetch[k].since /\ limit = fetch[k].limit /\ page = input.page
  BY <1>1
<1>5. Answer(k) = Reply(H, since, limit, page) /\ B = Begun(H, since)
  BY <1>3, <1>4
<1>6. /\ Times(B) /\ Times(Answer(k)) /\ Answer(k) \subseteq B /\ B \subseteq H
      /\ \A t \in Answer(k) : \A u \in B : u <= t => u \in Answer(k)
      /\ Answer(k) # {} => Earliest(Answer(k)) = Earliest(B)
  BY <1>2, <1>5, ReplyIsPrefix
<1>7. \A t \in H : t \in B <=> t >= fetch[k].since
  BY DEF Begun
<1>8. ASSUME Answer(k) # {}, NEW t \in H, t >= fetch[k].since
      PROVE  Earliest(Answer(k)) <= t
  BY <1>6, <1>7, <1>8, EarliestOf
<1>9. ASSUME NEW t \in input.history[k], NEW a \in Answer(k), NEW b \in Answer(k), a <= t, t <= b
      PROVE  t \in Answer(k)
  <2>1. t \in H /\ a \in H /\ b \in H /\ a \in Int /\ t \in Int /\ a >= fetch[k].since
    BY <1>2, <1>6, <1>7, <1>9
  <2>2. t >= fetch[k].since
    BY <1>1, <1>9, <2>1
  <2> QED BY <1>6, <1>7, <1>9, <2>1, <2>2
<1> QED BY <1>2, <1>3, <1>6, <1>7, <1>8, <1>9 DEF H
-----------------------------------------------------------------------------
\* How answers change from step to step

\* The request for a source reaches at least as far as it did, and so does its
\* answer, if answers are whole.
Grows(k) ==
  /\ Listed(k) \subseteq Listed(k)'
  /\ fetch'[k].since <= fetch[k].since /\ fetch'[k].limit >= fetch[k].limit
  /\ Whole => Answer(k) \subseteq Answer(k)'

LEMMA TickGrows ==
  ASSUME Typed, Tick, NEW k \in Sources
  PROVE  Typed' /\ Grows(k)
<1>1. /\ input' = input /\ fetch' = fetch /\ turn' = turn /\ now' = now + 1
      /\ now \in Int
  BY DEF Tick, Typed
<1>2. Typed'
  BY <1>1 DEF Typed
<1>3. fetch[k].since \in Int /\ fetch[k].limit \in Nat /\ input.page \in Nat \ {0} /\ Interval[k] \in Nat
  BY InputFacts DEF Fetch
<1>4. /\ Listed(k) \subseteq input.history[k] /\ input.history[k] \subseteq Int
      /\ \A t \in Listed(k), u \in input.history[k] \ Listed(k) : t < u
  BY ListedFacts, InputFacts DEF Times
<1>5. Listed(k) \subseteq Listed(k)'
  BY <1>1, <1>3, <1>4 DEF Listed
<1>6. Times(Listed(k)') /\ Listed(k)' \subseteq input.history[k]
  <2>1. Listed(k)' \subseteq input.history[k]
    BY <1>1 DEF Listed
  <2> QED BY <2>1, InputFacts, TimesWithin
<1>7. Answer(k) = Reply(Listed(k), fetch[k].since, fetch[k].limit, input.page)
  BY DEF Answer, Reply, Begun
<1>8. Answer(k)' = Reply(Listed(k)', fetch[k].since, fetch[k].limit, input.page)
  BY <1>1 DEF Answer, Reply, Begun
<1>9. PICK since \in Int, limit \in Nat, page \in Nat \ {0} :
        since = fetch[k].since /\ limit = fetch[k].limit /\ page = input.page
  BY <1>3
<1>10. Reply(Listed(k), since, limit, page) \subseteq Reply(Listed(k)', since, limit, page)
  BY <1>4, <1>5, <1>6, ReplyKeeps
<1>11. Answer(k) \subseteq Answer(k)'
  BY <1>7, <1>8, <1>9, <1>10
<1> QED BY <1>1, <1>2, <1>3, <1>5, <1>11 DEF Grows

LEMMA AnswerNext ==
  ASSUME Typed, input' = input, NEW k \in Sources
  PROVE  Answer(k)' \subseteq input.history[k] /\ Times(Answer(k)')
<1>1. Answer(k)' \subseteq input.history[k]
  BY DEF Answer, Listed
<1> QED BY <1>1, InputFacts, TimesWithin

\* Nothing is asked and no time passes.
LEMMA AnswerStays ==
  ASSUME UNCHANGED <<input, now>>, NEW k \in Sources,
         fetch'[k].since = fetch[k].since, fetch'[k].limit = fetch[k].limit
  PROVE  Listed(k)' = Listed(k) /\ Answer(k)' = Answer(k)
<1>1. Listed(k)' = Listed(k)
  BY DEF Listed
<1> QED BY <1>1 DEF Answer

LEMMA AskAgainGrows ==
  ASSUME Typed, UNCHANGED <<input, now, turn>>, NEW k \in Sources, NEW stage \in Stages,
         NEW grow \in Nat, NEW back \in Nat, back <= grow,
         AskAgain(k, stage, grow, back)
  PROVE  /\ Typed' /\ Grows(k)
         /\ fetch'[k].stage = stage
         /\ \A j \in Sources : j # k => fetch'[j] = fetch[j]
         /\ verdict' \in {verdict, "rounds"}
<1>1. fetch[k] \in Fetch /\ Interval[k] \in Nat \ {0} /\ input.page \in Nat \ {0}
  BY InputFacts
<1>2. back * Interval[k] \in Nat
  <2>1. \A x, y \in Nat : x * y \in Nat
    OBVIOUS
  <2> QED BY <1>1, <2>1
<1>3. /\ Times(Listed(k)) /\ Spaced(Listed(k), Interval[k])
      /\ Whole => Cardinality(Listed(k)) <= input.page
      /\ Answer(k) \in SUBSET Int
  BY ListedFacts, AnswerFacts DEF Times
<1>4. CASE Another(k)
  <2> DEFINE r == [since |-> fetch[k].since - back * Interval[k],
                   limit |-> fetch[k].limit + grow,
                   rounds |-> fetch[k].rounds + 1, stage |-> stage, bars |-> Answer(k)]
  <2>1. fetch' = [fetch EXCEPT ![k] = r] /\ verdict' = verdict
    BY <1>4 DEF AskAgain
  <2>2. r \in Fetch
    BY <1>1, <1>2, <1>3 DEF Fetch
  <2>3. /\ fetch'[k].since = fetch[k].since - back * Interval[k]
        /\ fetch'[k].limit = fetch[k].limit + grow
        /\ fetch'[k].stage = stage
        /\ \A j \in Sources : j # k => fetch'[j] = fetch[j]
    BY <2>1 DEF Typed
  <2>4. Typed'
    BY <2>1, <2>2 DEF Typed
  <2>5. Listed(k)' = Listed(k)
    BY DEF Listed
  <2>6. Answer(k)' = Reply(Listed(k), fetch[k].since - back * Interval[k],
                           fetch[k].limit + grow, input.page)
    BY <2>3, <2>5 DEF Answer, Reply, Begun
  <2>7. Answer(k) = Reply(Listed(k), fetch[k].since, fetch[k].limit, input.page)
    BY DEF Answer, Reply, Begun
  <2>8. PICK since \in Int, limit \in Nat, page \in Nat \ {0}, I \in Nat \ {0} :
          /\ since = fetch[k].since /\ limit = fetch[k].limit /\ page = input.page
          /\ I = Interval[k]
    BY <1>1 DEF Fetch
  <2>9. Cardinality(Listed(k)) <= page =>
          Reply(Listed(k), since, limit, page) \subseteq
            Reply(Listed(k), since - back * I, limit + grow, page)
    BY <1>3, <2>8, ReplyGrows
  <2>10. Whole => Answer(k) \subseteq Answer(k)'
    BY <1>3, <2>6, <2>7, <2>8, <2>9
  <2>11. fetch'[k].since <= fetch[k].since /\ fetch'[k].limit >= fetch[k].limit
    BY <1>1, <1>2, <2>3 DEF Fetch
  <2> QED BY <2>1, <2>3, <2>4, <2>5, <2>10, <2>11 DEF Grows
<1>5. CASE ~ Another(k)
  <2>1. /\ fetch' = [fetch EXCEPT ![k].rounds = @ + 1, ![k].stage = stage, ![k].bars = Answer(k)]
        /\ verdict' = "rounds"
    BY <1>5 DEF AskAgain
  <2>2. /\ fetch'[k].since = fetch[k].since /\ fetch'[k].limit = fetch[k].limit
        /\ fetch'[k].stage = stage
        /\ \A j \in Sources : j # k => fetch'[j] = fetch[j]
    BY <1>1, <2>1 DEF Typed, Fetch
  <2>3. fetch' \in [Sources -> Fetch]
    <3> DEFINE a == [fetch EXCEPT ![k].rounds = @ + 1]
               b == [a EXCEPT ![k].stage = stage]
    <3>1. a \in [Sources -> Fetch]
      BY <1>1 DEF Typed, Fetch
    <3> HIDE DEF a
    <3>2. b \in [Sources -> Fetch]
      BY <3>1 DEF Fetch
    <3> HIDE DEF b
    <3>3. [b EXCEPT ![k].bars = Answer(k)] \in [Sources -> Fetch]
      BY <1>3, <3>2 DEF Fetch
    <3> QED BY <2>1, <3>3 DEF a, b
  <2>4. Typed'
    BY <2>3 DEF Typed
  <2>5. Listed(k)' = Listed(k) /\ Answer(k)' = Answer(k)
    BY <2>2, AnswerStays
  <2>6. fetch[k].since <= fetch[k].since /\ fetch[k].limit >= fetch[k].limit
    BY <1>1 DEF Fetch
  <2> QED BY <2>1, <2>2, <2>4, <2>5, <2>6 DEF Grows
<1> QED BY <1>4, <1>5

\* What a base answer holds of what is to be traded it keeps.
LEMMA TradedGrows ==
  ASSUME Typed, input' = input, anchor' = anchor, Grows(Base), Whole,
         anchor \in Answer(Base), Cardinality(Traded(Answer(Base))) >= input.limit
  PROVE  anchor \in Answer(Base)' /\ Cardinality(Traded(Answer(Base)))' >= input.limit
<1>1. Answer(Base) \subseteq Answer(Base)' /\ Base \in Sources
  BY InputFacts DEF Grows
<1>2. Times(Answer(Base)')
  BY <1>1, AnswerNext
<1>3. /\ Traded(Answer(Base)) \subseteq Traded(Answer(Base))'
      /\ Traded(Answer(Base))' \subseteq Answer(Base)'
  BY <1>1 DEF Traded
<1>4. Times(Traded(Answer(Base))')
  BY <1>2, <1>3, TimesWithin
<1>5. /\ Cardinality(Traded(Answer(Base))) \in Nat /\ Cardinality(Traded(Answer(Base))') \in Nat
      /\ Cardinality(Traded(Answer(Base))) <= Cardinality(Traded(Answer(Base))')
  BY <1>3, <1>4, TimesWithin
<1>6. input.limit \in Nat
  BY InputFacts
<1> QED BY <1>1, <1>5, <1>6

\* Pending sources stay pending while their requests grow.
LEMMA PendingGrows ==
  ASSUME Typed, Typed', UNCHANGED <<input, window>>, NEW k \in Sources, Grows(k),
         fetch[k].limit >= 1,
         fetch'[k].stage \in {"Initial", "TailCoverage", "HeadTimeCoverage", "HeadWarmup"},
         fetch'[k].stage = "HeadWarmup" => HeadKnown(k),
         fetch'[k].stage \in {"HeadTimeCoverage", "HeadWarmup"} /\ Whole => TailHeld(k)
  PROVE  Pending(k)'
<1>1. fetch[k] \in Fetch /\ fetch'[k] \in Fetch
  BY DEF Typed
<1>2. fetch'[k].limit >= 1
  BY <1>1 DEF Grows, Fetch
<1>3. ASSUME HeadKnown(k)
      PROVE  HeadKnown(k)'
  <2>1. PICK t \in Listed(k) : fetch[k].since <= t /\ t <= window.start
    BY <1>3 DEF HeadKnown
  <2>2. t \in Listed(k)' /\ t \in Int /\ fetch'[k].since <= t
    BY <1>1, <2>1, ListedFacts DEF Grows, Fetch, Times
  <2> QED BY <2>1, <2>2 DEF HeadKnown
<1>4. ASSUME TailHeld(k), Whole
      PROVE  TailHeld(k)'
  BY <1>4 DEF TailHeld, Grows
<1>5. Whole' <=> Whole
  BY DEF Whole
<1> QED BY <1>2, <1>3, <1>4, <1>5 DEF Pending
-----------------------------------------------------------------------------
\* Steps of the base

\* What is being asked of whom.
LEMMA AskedFacts ==
  ASSUME Typed, Held, NEW k \in Asked
  PROVE  \/ /\ k = Base /\ fetch[Base].stage # "Complete"
            /\ fetch[Base].stage \in {"Initial", "HeadWarmup"} /\ turn = 1
         \/ /\ k \in Others /\ k \in Sources /\ k # Base /\ fetch[Base].stage = "Complete"
            /\ turn \in 1..Len(Order) /\ k = Order[turn]
            /\ Pending(k)
<1>1. CASE fetch[Base].stage # "Complete"
  BY <1>1 DEF Asked, Held, BaseAsked
<1>2. CASE fetch[Base].stage = "Complete"
  <2>1. turn <= Len(Order) /\ k = Order[turn] /\ turn \in Nat /\ turn >= 1 /\ Len(Order) \in Nat
    BY <1>2, IntervalAssumption DEF Asked, Typed
  <2>2. turn \in 1..Len(Order)
    BY <2>1
  <2>3. k \in Others /\ k \in Sources /\ k # Base
    BY <2>1, <2>2, InputFacts DEF Others
  <2>4. Pending(k)
    BY <1>2, <2>1, <2>2 DEF Held, InTurn
  <2> QED BY <1>2, <2>1, <2>2, <2>3, <2>4
<1> QED BY <1>1, <1>2

\* The plan does not change with what came of it.
LEMMA HeldStill ==
  ASSUME Typed, Held, UNCHANGED <<input, now, fetch, anchor, window, turn>>
  PROVE  Typed' /\ Held'
<1>1. Base \in Sources /\ \A i \in 1..Len(Order) : Order[i] \in Sources
  BY InputFacts DEF Others
<1>2. \A k \in Sources : Listed(k)' = Listed(k) /\ Answer(k)' = Answer(k)
  BY AnswerStays
<1>3. Whole' = Whole /\ Typed' /\ (\A k \in Sources : Required(k)' = Required(k))
  BY DEF Whole, Typed, Required
<1>4. BaseAsked'
  BY <1>1, <1>2, <1>3 DEF Held, BaseAsked, Begins, Traded
<1>5. BaseComplete'
  BY <1>1, <1>3 DEF Held, BaseComplete, Begins, Traded
<1>6. \A k \in Sources : /\ Pending(k) => Pending(k)'
                         /\ Served(k) => Served(k)'
  BY <1>2, <1>3 DEF Pending, HeadKnown, TailHeld, Served
<1>7. InTurn'
  BY <1>1, <1>6 DEF Held, InTurn
<1> QED BY <1>3, <1>4, <1>5, <1>7 DEF Held

LEMMA StepTick ==
  ASSUME Typed, Held, Tick
  PROVE  Typed' /\ Held'
<1>1. UNCHANGED <<input, fetch, anchor, window, turn>>
  BY DEF Tick
<1>2. Base \in Sources /\ \A i \in 1..Len(Order) : Order[i] \in Sources
  BY InputFacts DEF Others
<1>3. Typed' /\ \A k \in Sources : Grows(k)
  BY <1>2, TickGrows
<1>4. Whole' = Whole /\ (\A k \in Sources : Required(k)' = Required(k))
  BY <1>1 DEF Whole, Required
<1>5. BaseAsked'
  <2>1. ASSUME fetch[Base].stage = "HeadWarmup", Whole
        PROVE  anchor \in Answer(Base)' /\ Cardinality(Traded(Answer(Base)))' >= input.limit
    BY <1>1, <1>2, <1>3, <2>1, TradedGrows DEF Held, BaseAsked
  <2> QED BY <1>1, <1>4, <2>1 DEF Held, BaseAsked, Begins
<1>6. BaseComplete'
  BY <1>1, <1>2, <1>4 DEF Held, BaseComplete, Begins, Traded
<1>7. \A k \in Sources : Served(k) => Served(k)'
  BY <1>1, <1>4 DEF Served
<1>8. \A k \in Sources : Pending(k) => Pending(k)'
  BY <1>1, <1>3, PendingGrows DEF Pending
<1>9. InTurn'
  BY <1>1, <1>2, <1>7, <1>8 DEF Held, InTurn
<1> QED BY <1>3, <1>5, <1>6, <1>9 DEF Held

\* Where trading begins, once the base has answered.
LEMMA BaseAnswer ==
  ASSUME Typed, Held, fetch[Base].stage \in {"Initial", "HeadWarmup"},
         Answer(Base) # {}, ~ Short(Base)
  PROVE  /\ Begins(Anchor(Base)) /\ Anchor(Base) \in Int
         /\ fetch[Base].limit >= 1
         /\ Whole => /\ Anchor(Base) \in Answer(Base)
                     /\ Cardinality({t \in Answer(Base) : t >= Anchor(Base)}) >= input.limit
<1>1. /\ Base \in Sources /\ input.limit \in Nat /\ input.limit >= 1 /\ input.since \in Int
      /\ input.history[Base] \subseteq Int
  BY InputFacts DEF Times
<1>2. /\ Times(Answer(Base)) /\ Answer(Base) \subseteq Listed(Base)
      /\ Answer(Base) \subseteq input.history[Base]
      /\ \A t \in Answer(Base) : t >= fetch[Base].since
      /\ \A t \in Listed(Base) : t >= fetch[Base].since => Earliest(Answer(Base)) <= t
  BY <1>1, AnswerFacts
<1>3. CASE fetch[Base].stage = "Initial"
  <2>1. anchor = Nowhere /\ fetch[Base].since = input.since /\ fetch[Base].limit = input.limit
    BY <1>3 DEF Held, BaseAsked
  <2>2. Anchor(Base) = Earliest(Answer(Base))
    BY <2>1 DEF Anchor
  <2>3. /\ Earliest(Answer(Base)) \in Answer(Base) /\ Earliest(Answer(Base)) \in Int
        /\ \A t \in Answer(Base) : Earliest(Answer(Base)) <= t
    BY <1>2, EarliestOf
  <2>4. \A u \in input.history[Base] : input.since <= u => Earliest(Answer(Base)) <= u
    <3> SUFFICES ASSUME NEW u \in input.history[Base], input.since <= u
                 PROVE  Earliest(Answer(Base)) <= u
      OBVIOUS
    <3>1. CASE u \in Listed(Base)
      BY <1>1, <1>2, <2>1, <3>1
    <3>2. CASE u \notin Listed(Base)
      <4>1. Earliest(Answer(Base)) < u
        BY <1>1, <1>2, <2>3, <3>2, ListedFacts
      <4> QED BY <1>1, <2>3, <4>1
    <3> QED BY <3>1, <3>2
  <2>5. Begins(Anchor(Base))
    BY <1>1, <1>2, <2>1, <2>2, <2>3, <2>4 DEF Begins
  <2>6. {t \in Answer(Base) : t >= Anchor(Base)} = Answer(Base)
    <3>1. \A t \in Answer(Base) : t >= Anchor(Base)
      BY <1>1, <1>2, <2>2, <2>3
    <3> QED BY <3>1
  <2>7. Cardinality(Answer(Base)) >= input.limit
    BY <1>1, <1>2, FS_CardinalityType DEF Short, Times
  <2> QED BY <1>1, <2>1, <2>2, <2>3, <2>5, <2>6, <2>7
<1>4. CASE fetch[Base].stage = "HeadWarmup"
  <2>1. /\ Begins(anchor) /\ fetch[Base].limit >= 1
        /\ Whole => anchor \in Answer(Base) /\ Cardinality(Traded(Answer(Base))) >= input.limit
    BY <1>4 DEF Held, BaseAsked
  <2>2. anchor \in Int /\ Anchor(Base) = anchor
    BY <1>1, <2>1, InputAssumption DEF Begins, Anchor
  <2> QED BY <2>1, <2>2 DEF Traded
<1> QED BY <1>3, <1>4

\* A base still asked for leaves the other sources untouched.
LEMMA BaseMoves ==
  ASSUME Typed, Held, Typed', fetch[Base].stage \in {"Initial", "HeadWarmup"},
         UNCHANGED <<input, now, turn>>, fetch'[Base].stage # "Complete", BaseAsked'
  PROVE  Held'
BY DEF Held, BaseComplete, InTurn

LEMMA StepBaseShort ==
  ASSUME Typed, Held, BaseShort
  PROVE  Typed' /\ Held' /\ verdict' = "short"
<1>1. Base \in Asked /\ Base \in Sources
  BY InputFacts DEF BaseShort, Asking
<1>2. fetch[Base].stage \in {"Initial", "HeadWarmup"} /\ fetch[Base].stage # "Complete"
  BY <1>1, AskedFacts, InputFacts
<1>3. UNCHANGED <<input, now, turn, anchor>> /\ fetch' = [fetch EXCEPT ![Base].bars = Answer(Base)]
  BY DEF BaseShort
<1>4. Answer(Base) \in SUBSET Int
  BY <1>1, AnswerFacts DEF Times
<1>5. Typed' /\ /\ fetch'[Base].stage = fetch[Base].stage /\ fetch'[Base].since = fetch[Base].since
                /\ fetch'[Base].limit = fetch[Base].limit
  BY <1>1, <1>3, <1>4 DEF Typed, Fetch
<1>6. Answer(Base)' = Answer(Base)
  BY <1>1, <1>3, <1>5, AnswerStays
<1>7. BaseAsked'
  BY <1>3, <1>5, <1>6 DEF Held, BaseAsked, Begins, Traded, Whole
<1> QED BY <1>2, <1>3, <1>5, <1>7, BaseMoves DEF BaseShort

LEMMA StepBaseUnanchored ==
  ASSUME Typed, Held, Unanchored(Base)
  PROVE  Typed' /\ Held' /\ verdict' = "anchor" /\ ~ Whole
<1>1. Base \in Asked /\ Base \in Sources
  BY InputFacts DEF Unanchored, Asking
<1>2. fetch[Base].stage \in {"Initial", "HeadWarmup"} /\ fetch[Base].stage # "Complete"
  BY <1>1, AskedFacts, InputFacts
<1>3. /\ UNCHANGED <<input, now, turn, anchor>>
      /\ fetch' = [fetch EXCEPT ![Base].bars = Answer(Base),
                                ![Base].stage = IF Base = Base THEN @ ELSE "HeadWarmup"]
  BY DEF Unanchored
<1>4. Answer(Base) \in SUBSET Int
  BY <1>1, AnswerFacts DEF Times
<1>5. Typed' /\ /\ fetch'[Base].stage = fetch[Base].stage /\ fetch'[Base].since = fetch[Base].since
                /\ fetch'[Base].limit = fetch[Base].limit
  BY <1>1, <1>3, <1>4 DEF Typed, Fetch
<1>6. Answer(Base)' = Answer(Base)
  BY <1>1, <1>3, <1>5, AnswerStays
<1>7. BaseAsked'
  BY <1>3, <1>5, <1>6 DEF Held, BaseAsked, Begins, Traded, Whole
<1>8. ~ Whole
  <2>1. Answer(Base) # {} /\ ~ Short(Base) /\ Anchor(Base) \notin Answer(Base)
    BY DEF Unanchored, Asking, Anchored
  <2> QED BY <1>2, <2>1, BaseAnswer
<1> QED BY <1>2, <1>3, <1>5, <1>7, <1>8, BaseMoves DEF Unanchored

LEMMA GrowFacts ==
  ASSUME Typed, NEW bars \in Int
  PROVE  Grow(bars) \in Nat
BY InputFacts DEF Grow, Larger

LEMMA StepBaseWarmUp ==
  ASSUME Typed, Held, WarmUp(Base)
  PROVE  Typed' /\ Held' /\ verdict' \in {verdict, "rounds"}
<1>1. Base \in Asked /\ Base \in Sources /\ Answer(Base) # {} /\ ~ Short(Base)
  BY InputFacts DEF WarmUp, Asking
<1>2. fetch[Base].stage \in {"Initial", "HeadWarmup"} /\ fetch[Base].stage # "Complete"
  BY <1>1, AskedFacts, InputFacts
<1>3. /\ Begins(Anchor(Base)) /\ Anchor(Base) \in Int
      /\ fetch[Base].limit >= 1
      /\ Whole => /\ Anchor(Base) \in Answer(Base)
                  /\ Cardinality({t \in Answer(Base) : t >= Anchor(Base)}) >= input.limit
  BY <1>1, <1>2, BaseAnswer
<1>4. UNCHANGED <<input, now, turn>> /\ anchor' = Anchor(Base)
  BY DEF WarmUp
<1>5. Anchor(Base) \in Answer(Base)
  BY DEF WarmUp, Anchored
<1>6. WarmupBars(Base) \in Int
  BY <1>1, <1>3, <1>5, SeenFacts, AnswerFacts, InputFacts DEF WarmupBars
<1>7. Grow(WarmupBars(Base)) \in Nat
  BY <1>6, GrowFacts
<1>8. AskAgain(Base, "HeadWarmup", Grow(WarmupBars(Base)), Grow(WarmupBars(Base)))
  BY DEF WarmUp, AskEarlier
<1>9. /\ Typed' /\ Grows(Base) /\ fetch'[Base].stage = "HeadWarmup"
      /\ verdict' \in {verdict, "rounds"}
  BY <1>1, <1>4, <1>7, <1>8, AskAgainGrows DEF Stages
<1>10. ASSUME Whole
       PROVE  anchor' \in Answer(Base)' /\ Cardinality({t \in Answer(Base)' : t >= anchor'}) >= input.limit
  <2> DEFINE A == {t \in Answer(Base) : t >= Anchor(Base)}
             B == {t \in Answer(Base)' : t >= anchor'}
  <2>1. Answer(Base) \subseteq Answer(Base)' /\ Times(Answer(Base)')
    BY <1>1, <1>4, <1>9, <1>10, AnswerNext DEF Grows
  <2>2. A \subseteq B /\ B \subseteq Answer(Base)'
    BY <1>4, <2>1
  <2>3. Cardinality(A) >= input.limit /\ anchor' \in Answer(Base)' /\ input.limit \in Nat
    BY <1>3, <1>4, <1>10, <2>1, InputFacts
  <2> HIDE DEF A, B
  <2>4. Times(B)
    BY <2>1, <2>2, TimesWithin
  <2>5. Cardinality(A) \in Nat /\ Cardinality(B) \in Nat /\ Cardinality(A) <= Cardinality(B)
    BY <2>2, <2>4, TimesWithin
  <2> QED BY <2>3, <2>5 DEF B
<1>11. fetch'[Base].limit >= 1
  BY <1>1, <1>3, <1>9 DEF Grows, Typed, Fetch
<1>12. BaseAsked'
  <2>1. turn = 1
    BY <1>2 DEF Held, BaseAsked
  <2>2. Begins(anchor)'
    BY <1>3, <1>4 DEF Begins
  <2>3. Whole' => Whole
    BY <1>4 DEF Whole
  <2> QED BY <1>4, <1>9, <1>10, <1>11, <2>1, <2>2, <2>3 DEF BaseAsked, Traded
<1> QED BY <1>2, <1>4, <1>9, <1>12, BaseMoves

\* The base is cut to its warm-up on the left and keeps all to the right.
LEMMA BaseCut ==
  ASSUME NEW S, Times(S), NEW t \in S, NEW need \in Nat, need <= Row(S, t),
         NEW bars, bars = Rows(S, Row(S, t) - need, Cardinality(S))
  PROVE  /\ Times(bars) /\ bars \subseteq S /\ t \in bars
         /\ Row(bars, t) = need
         /\ \A u \in S : u >= t => u \in bars
<1>1. /\ S \subseteq Int /\ t \in Int /\ Cardinality(S) \in Nat
      /\ Row(S, t) \in Nat /\ Row(S, t) < Cardinality(S)
  BY RowFacts, TimesWithin DEF Times
<1>2. PICK a \in Nat : a = Row(S, t) - need
  BY <1>1
<1>3. Times(bars) /\ bars \subseteq S
  BY <1>1, <1>2, RowsFacts
<1>4. Row(bars, t) = need
  <2>1. Row(S, t) \in a..Cardinality(S)
    BY <1>1, <1>2
  <2>2. Row(Rows(S, a, Cardinality(S)), t) = Row(S, t) - a
    BY <1>1, <1>2, <2>1, RowInRows
  <2> QED BY <1>1, <1>2, <2>2
<1>5. ASSUME NEW u \in S, u >= t
      PROVE  u \in bars
  <2>1. u \in Int /\ Row(S, u) \in Nat /\ Row(S, u) < Cardinality(S)
    BY <1>1, RowFacts
  <2>2. Row(S, t) <= Row(S, u)
    BY <1>1, <1>5, <2>1, RowFacts
  <2>3. Row(S, u) \in a..Cardinality(S) - 1
    BY <1>1, <1>2, <2>1, <2>2
  <2> QED BY <1>2, <2>3 DEF Rows
<1>6. t \in bars
  BY <1>1, <1>5
<1> QED BY <1>3, <1>4, <1>5, <1>6

\* The span of the base, as a request.
LEMMA FirstRequestFacts ==
  ASSUME Typed, NEW bars, Times(bars), bars # {}, NEW k \in Sources
  PROVE  /\ FirstRequest(k, bars) \in Fetch
         /\ FirstRequest(k, bars).stage = "Initial"
         /\ FirstRequest(k, bars).limit >= 1
<1>1. Earliest(bars) \in Int /\ Latest(bars) \in Int /\ Earliest(bars) <= Latest(bars)
  BY EarliestOf, LatestOf
<1>2. Interval[k] \in Nat \ {0}
  BY InputFacts
<1>3. PICK d \in Nat, I \in Nat \ {0} : d = Latest(bars) - Earliest(bars) + Interval[k] - 1 /\ I = Interval[k]
  BY <1>1, <1>2
<1>4. d \div I \in Nat
  BY <1>3
<1>5. (Latest(bars) - Earliest(bars) + Interval[k] - 1) \div Interval[k] + 1 = d \div I + 1
  BY <1>3
<1>6. FirstRequest(k, bars) = [since |-> Earliest(bars), limit |-> d \div I + 1, rounds |-> 0,
                               stage |-> "Initial", bars |-> {}]
  BY <1>5 DEF FirstRequest
<1>7. d \div I + 1 \in Nat /\ d \div I + 1 >= 1
  BY <1>4
<1> HIDE <1>5
<1> QED BY <1>1, <1>6, <1>7 DEF Fetch, Stages

LEMMA StepBaseComplete ==
  ASSUME Typed, Held, CompleteBase
  PROVE  Typed' /\ Held' /\ verdict' = verdict
<1> DEFINE bars == Rows(Answer(Base), Row(Answer(Base), Anchor(Base)) - Required(Base),
                        Cardinality(Answer(Base)))
<1>1. /\ Base \in Asked /\ Base \in Sources /\ Answer(Base) # {} /\ ~ Short(Base)
      /\ ~ (WarmupBars(Base) > 0)
  BY InputFacts DEF CompleteBase, Asking, WarmupMissing
<1>2. fetch[Base].stage \in {"Initial", "HeadWarmup"} /\ turn = 1
  BY <1>1, AskedFacts, InputFacts
<1>3. /\ Begins(Anchor(Base)) /\ Anchor(Base) \in Int
      /\ Whole => Cardinality({t \in Answer(Base) : t >= Anchor(Base)}) >= input.limit
  BY <1>1, <1>2, BaseAnswer
<1>4. /\ UNCHANGED <<input, now, turn, verdict>> /\ anchor' = Anchor(Base)
      /\ fetch' = [k \in Sources |-> IF k = Base
                                     THEN [fetch[k] EXCEPT !.stage = "Complete", !.bars = bars]
                                     ELSE FirstRequest(k, bars)]
      /\ window' = [start |-> Earliest(bars), end |-> Latest(bars), live |-> Anchor(Base)]
  BY DEF CompleteBase
<1>5. /\ Times(Answer(Base)) /\ Answer(Base) \subseteq input.history[Base]
      /\ Anchor(Base) \in Answer(Base) /\ Required(Base) \in Nat
  BY <1>1, AnswerFacts, InputFacts DEF CompleteBase, Anchored
<1>6. Required(Base) <= Row(Answer(Base), Anchor(Base))
  <2> DEFINE A == Answer(Base)
             t == Anchor(Base)
  <2>1. SeenIn(A, t) \in A /\ SeenIn(A, t) \in Int /\ SeenIn(A, t) <= t /\ t <= SeenIn(A, t)
        /\ RowAt(A, t) = Row(A, SeenIn(A, t)) /\ RowAt(A, t) \in Nat
    <3>1. t \in A /\ t <= t
      BY <1>3, <1>5
    <3> QED BY <1>3, <1>5, <3>1, SeenFacts
  <2>2. SeenIn(A, t) = t
    BY <1>3, <2>1
  <2>3. Required(Base) - RowAt(A, t) <= 0
    BY <1>1, <1>5, <2>1 DEF WarmupBars
  <2> QED BY <1>5, <2>1, <2>2, <2>3
<1>7. /\ Times(bars) /\ bars \subseteq Answer(Base) /\ Anchor(Base) \in bars
      /\ Row(bars, Anchor(Base)) = Required(Base)
      /\ \A u \in Answer(Base) : u >= Anchor(Base) => u \in bars
  BY <1>5, <1>6, BaseCut
<1> HIDE DEF bars
<1>8. /\ fetch'[Base].stage = "Complete" /\ fetch'[Base].bars = bars
      /\ \A k \in Others : fetch'[k] = FirstRequest(k, bars)
  BY <1>1, <1>4, InputFacts DEF Fetch
<1>9. Typed'
  <2>1. [fetch[Base] EXCEPT !.stage = "Complete", !.bars = bars] \in Fetch
    BY <1>1, <1>7, InputFacts DEF Fetch, Stages, Times
  <2>2. \A k \in Sources : FirstRequest(k, bars) \in Fetch
    BY <1>7, FirstRequestFacts
  <2>3. fetch' \in [Sources -> Fetch]
    BY <1>4, <2>1, <2>2
  <2> QED BY <1>4, <2>3 DEF Typed
<1>10. {t \in bars : t >= Anchor(Base)} = {t \in Answer(Base) : t >= Anchor(Base)}
  BY <1>7
<1>11. Required(Base)' = Required(Base) /\ Begins(anchor)' /\ Whole' = Whole
  BY <1>3, <1>4 DEF Required, Begins, Whole
<1>12. BaseComplete'
  BY <1>3, <1>4, <1>5, <1>7, <1>8, <1>10, <1>11 DEF BaseComplete, Traded
<1>13. BaseAsked'
  BY <1>8 DEF BaseAsked
<1>14. ASSUME NEW i \in 1..Len(Order)
       PROVE  Pending(Order[i])'
  <2>1. Order[i] \in Others /\ Order[i] \in Sources
    BY InputFacts DEF Others
  <2>2. /\ fetch'[Order[i]].stage = "Initial" /\ fetch'[Order[i]].limit >= 1
    BY <1>7, <1>8, <2>1, FirstRequestFacts
  <2> QED BY <2>2 DEF Pending
<1>15. InTurn'
  <2>1. \A i \in 1..Len(Order) : ~ (i < 1)
    BY IntervalAssumption
  <2> QED BY <1>2, <1>4, <1>14, <2>1 DEF InTurn
<1> QED BY <1>4, <1>9, <1>12, <1>13, <1>15 DEF Held
-----------------------------------------------------------------------------
\* Steps of the other sources

\* The source whose turn it is moves alone.
LEMMA SourceMoves ==
  ASSUME Typed, Held, Typed', UNCHANGED <<input, now, anchor, window>>,
         fetch[Base].stage = "Complete", NEW k \in Others, turn \in 1..Len(Order),
         k = Order[turn],
         \A j \in Sources : j # k => fetch'[j] = fetch[j],
         \/ turn' = turn /\ Pending(k)'
         \/ turn' = turn + 1 /\ Served(k)'
  PROVE  Held'
<1>1. Base \in Sources /\ Base # k /\ \A i \in 1..Len(Order) : Order[i] \in Sources
  BY InputFacts DEF Others
<1>2. fetch'[Base] = fetch[Base]
  BY <1>1
<1>3. Whole' = Whole /\ (\A j \in Sources : Required(j)' = Required(j))
  BY DEF Whole, Required
<1>4. BaseAsked'
  BY <1>2 DEF BaseAsked
<1>5. BaseComplete'
  BY <1>1, <1>2, <1>3 DEF Held, BaseComplete, Begins, Traded
<1>6. ASSUME NEW j \in Sources, j # k
      PROVE  /\ Pending(j) => Pending(j)'
             /\ Served(j) => Served(j)'
  <2>1. fetch'[j] = fetch[j]
    BY <1>6
  <2>2. Listed(j)' = Listed(j) /\ Answer(j)' = Answer(j)
    BY <2>1, AnswerStays
  <2> QED BY <1>3, <2>1, <2>2 DEF Pending, HeadKnown, TailHeld, Served
<1>7. ASSUME NEW i \in 1..Len(Order)
      PROVE  IF i < turn' THEN Served(Order[i])' ELSE Pending(Order[i])'
  <2>1. i \in Int /\ turn \in Int
    BY IntervalAssumption
  <2>2. CASE i = turn
    BY <2>1, <2>2
  <2>3. CASE i # turn
    <3>1. Order[i] # k /\ Order[i] \in Sources
      BY <1>1, <2>3, IntervalAssumption
    <3>2. IF i < turn THEN Served(Order[i]) ELSE Pending(Order[i])
      BY DEF Held, InTurn
    <3>3. i < turn' <=> i < turn
      BY <2>1, <2>3
    <3> QED BY <1>6, <3>1, <3>2, <3>3
  <2> QED BY <2>2, <2>3
<1>8. InTurn'
  BY <1>7 DEF InTurn
<1> QED BY <1>4, <1>5, <1>8 DEF Held

\* What an answer to a pending source says of the base's span.
LEMMA SourceAnswer ==
  ASSUME Typed, Held, NEW k \in Sources, k # Base, Pending(k), Answer(k) # {},
         fetch[Base].stage = "Complete"
  PROVE  /\ Earliest(Answer(k)) \in Answer(k) /\ Earliest(Answer(k)) \in Int
         /\ Latest(Answer(k)) \in Answer(k) /\ Latest(Answer(k)) \in Int
         /\ window.start \in Int /\ window.end \in Int /\ window.live \in Int
         /\ window.live = anchor /\ window.start <= anchor
         /\ HeadKnown(k) <=> Earliest(Answer(k)) <= window.start
         /\ TailHeld(k) <=> Latest(Answer(k)) + Interval[k] > window.end
         /\ ~ HeadMissing(k) => HeadKnown(k)
         /\ ~ TailMissing(k) /\ Whole => TailHeld(k)
<1>1. /\ Times(Answer(k)) /\ Answer(k) \subseteq Listed(k) /\ Listed(k) \subseteq Int
      /\ \A t \in Answer(k) : t >= fetch[k].since
      /\ \A t \in Listed(k) : t >= fetch[k].since => Earliest(Answer(k)) <= t
      /\ Interval[k] \in Nat /\ fetch[k].since \in Int
  BY AnswerFacts, ListedFacts, InputFacts DEF Times, Fetch
<1>2. /\ Earliest(Answer(k)) \in Answer(k) /\ Earliest(Answer(k)) \in Int
      /\ Latest(Answer(k)) \in Answer(k) /\ Latest(Answer(k)) \in Int
      /\ \A t \in Answer(k) : t \in Int /\ t <= Latest(Answer(k))
  BY <1>1, EarliestOf, LatestOf DEF Times
<1>3. /\ window = [start |-> Earliest(fetch[Base].bars), end |-> Latest(fetch[Base].bars),
                   live |-> anchor]
      /\ anchor \in fetch[Base].bars /\ Times(fetch[Base].bars)
  BY InputFacts, TimesWithin DEF Held, BaseComplete
<1>4. /\ window.start \in Int /\ window.end \in Int /\ window.live \in Int
      /\ window.live = anchor /\ window.start <= anchor
  BY <1>3, EarliestOf, LatestOf DEF Times
<1>5. HeadKnown(k) <=> Earliest(Answer(k)) <= window.start
  <2>1. ASSUME HeadKnown(k)
        PROVE  Earliest(Answer(k)) <= window.start
    <3>1. PICK t \in Listed(k) : fetch[k].since <= t /\ t <= window.start
      BY <2>1 DEF HeadKnown
    <3>2. t \in Int /\ Earliest(Answer(k)) <= t
      BY <1>1, <3>1
    <3> QED BY <1>2, <1>4, <3>1, <3>2
  <2>2. ASSUME Earliest(Answer(k)) <= window.start
        PROVE  HeadKnown(k)
    BY <1>1, <1>2, <2>2 DEF HeadKnown
  <2> QED BY <2>1, <2>2
<1>6. TailHeld(k) <=> Latest(Answer(k)) + Interval[k] > window.end
  BY <1>1, <1>2, <1>4 DEF TailHeld
<1>7. ~ HeadMissing(k) => HeadKnown(k)
  BY <1>2, <1>4, <1>5 DEF HeadMissing, Pending
<1>8. ~ TailMissing(k) /\ Whole => TailHeld(k)
  BY <1>1, <1>2, <1>4, <1>6 DEF TailMissing, Pending
<1> QED BY <1>2, <1>4, <1>5, <1>6, <1>7, <1>8

\* A source that moves is the one whose turn it is.
LEMMA SourceTurn ==
  ASSUME Typed, Held, NEW k \in Sources, Asking(k), k # Base
  PROVE  /\ k \in Others /\ fetch[Base].stage = "Complete" /\ Pending(k)
         /\ turn \in 1..Len(Order) /\ k = Order[turn] /\ Answer(k) # {}
BY AskedFacts DEF Asking

LEMMA StepCoverTail ==
  ASSUME Typed, Held, NEW k \in Sources, CoverTail(k)
  PROVE  Typed' /\ Held' /\ verdict' \in {verdict, "rounds"}
<1>1. k # Base /\ Asking(k) /\ UNCHANGED <<input, now, anchor, window, turn>>
  BY DEF CoverTail, TailMissing
<1>2. /\ k \in Others /\ fetch[Base].stage = "Complete" /\ Pending(k)
      /\ turn \in 1..Len(Order) /\ k = Order[turn] /\ Answer(k) # {}
  BY <1>1, SourceTurn
<1>3. /\ Latest(Answer(k)) \in Int /\ window.end \in Int /\ Interval[k] \in Nat \ {0}
  BY <1>1, <1>2, SourceAnswer, InputFacts
<1>4. TailBars(k) \in Int
  BY <1>3 DEF TailBars
<1>5. Grow(TailBars(k)) \in Nat /\ 0 <= Grow(TailBars(k))
  BY <1>4, GrowFacts
<1>6. AskAgain(k, "TailCoverage", Grow(TailBars(k)), 0)
  BY DEF CoverTail, AskLater
<1>7. /\ Typed' /\ Grows(k) /\ fetch'[k].stage = "TailCoverage"
      /\ \A j \in Sources : j # k => fetch'[j] = fetch[j]
      /\ verdict' \in {verdict, "rounds"}
  BY <1>1, <1>5, <1>6, AskAgainGrows DEF Stages
<1>8. Pending(k)'
  BY <1>1, <1>2, <1>7, PendingGrows DEF Pending
<1> QED BY <1>1, <1>2, <1>7, <1>8, SourceMoves

LEMMA StepCoverHead ==
  ASSUME Typed, Held, NEW k \in Sources, CoverHead(k)
  PROVE  Typed' /\ Held' /\ verdict' \in {verdict, "rounds"}
<1>1. /\ k # Base /\ Asking(k) /\ ~ TailMissing(k)
      /\ UNCHANGED <<input, now, anchor, window, turn>>
  BY DEF CoverHead, HeadMissing
<1>2. /\ k \in Others /\ fetch[Base].stage = "Complete" /\ Pending(k)
      /\ turn \in 1..Len(Order) /\ k = Order[turn] /\ Answer(k) # {}
  BY <1>1, SourceTurn
<1>3. /\ Earliest(Answer(k)) \in Int /\ window.start \in Int /\ Interval[k] \in Nat \ {0}
      /\ Whole => TailHeld(k)
  BY <1>1, <1>2, SourceAnswer, InputFacts
<1>4. HeadBars(k) \in Int
  BY <1>3 DEF HeadBars
<1>5. Grow(HeadBars(k)) \in Nat /\ Grow(HeadBars(k)) <= Grow(HeadBars(k))
  BY <1>4, GrowFacts
<1>6. AskAgain(k, "HeadTimeCoverage", Grow(HeadBars(k)), Grow(HeadBars(k)))
  BY DEF CoverHead, AskEarlier
<1>7. /\ Typed' /\ Grows(k) /\ fetch'[k].stage = "HeadTimeCoverage"
      /\ \A j \in Sources : j # k => fetch'[j] = fetch[j]
      /\ verdict' \in {verdict, "rounds"}
  BY <1>1, <1>5, <1>6, AskAgainGrows DEF Stages
<1>8. Pending(k)'
  BY <1>1, <1>2, <1>3, <1>7, PendingGrows DEF Pending
<1> QED BY <1>1, <1>2, <1>7, <1>8, SourceMoves

LEMMA StepWarmUp ==
  ASSUME Typed, Held, NEW k \in Sources, k # Base, WarmUp(k)
  PROVE  Typed' /\ Held' /\ verdict' \in {verdict, "rounds"}
<1>1. /\ Asking(k) /\ ~ TailMissing(k) /\ ~ HeadMissing(k) /\ Anchored(k)
      /\ UNCHANGED <<input, now, anchor, window, turn>>
  BY DEF WarmUp
<1>2. /\ k \in Others /\ fetch[Base].stage = "Complete" /\ Pending(k)
      /\ turn \in 1..Len(Order) /\ k = Order[turn] /\ Answer(k) # {}
  BY <1>1, SourceTurn
<1>3. /\ Earliest(Answer(k)) \in Answer(k) /\ Earliest(Answer(k)) \in Int
      /\ Earliest(Answer(k)) <= window.start /\ window.start \in Int
      /\ window.start <= window.live /\ window.live \in Int
      /\ HeadKnown(k) /\ (Whole => TailHeld(k))
      /\ Times(Answer(k)) /\ Required(k) \in Nat
  BY <1>1, <1>2, SourceAnswer, AnswerFacts, InputFacts
<1>4. WarmupBars(k) \in Int
  <2>1. Earliest(Answer(k)) <= window.live /\ Anchor(k) = window.live
    BY <1>3 DEF Anchor
  <2> QED BY <1>3, <2>1, SeenFacts DEF WarmupBars
<1>5. Grow(WarmupBars(k)) \in Nat /\ Grow(WarmupBars(k)) <= Grow(WarmupBars(k))
  BY <1>4, GrowFacts
<1>6. AskAgain(k, "HeadWarmup", Grow(WarmupBars(k)), Grow(WarmupBars(k)))
  BY DEF WarmUp, AskEarlier
<1>7. /\ Typed' /\ Grows(k) /\ fetch'[k].stage = "HeadWarmup"
      /\ \A j \in Sources : j # k => fetch'[j] = fetch[j]
      /\ verdict' \in {verdict, "rounds"}
  BY <1>1, <1>5, <1>6, AskAgainGrows DEF Stages
<1>8. Pending(k)'
  BY <1>1, <1>2, <1>3, <1>7, PendingGrows DEF Pending
<1> QED BY <1>1, <1>2, <1>7, <1>8, SourceMoves

\* A source that covers the start of the base has a bar for its anchor.
LEMMA StepUnanchored ==
  ASSUME Typed, Held, NEW k \in Sources, k # Base, Unanchored(k)
  PROVE  FALSE
<1>1. Asking(k) /\ ~ HeadMissing(k) /\ ~ Anchored(k)
  BY DEF Unanchored
<1>2. fetch[Base].stage = "Complete" /\ Pending(k) /\ Answer(k) # {}
  BY <1>1, SourceTurn
<1>3. /\ Earliest(Answer(k)) \in Answer(k) /\ Earliest(Answer(k)) \in Int
      /\ Earliest(Answer(k)) <= window.start /\ window.start \in Int
      /\ window.start <= window.live /\ window.live \in Int
      /\ Times(Answer(k))
  BY <1>1, <1>2, SourceAnswer, AnswerFacts
<1>4. Earliest(Answer(k)) <= window.live /\ Anchor(k) = window.live
  BY <1>3 DEF Anchor
<1>5. RowAt(Answer(k), Anchor(k)) \in Nat
  BY <1>3, <1>4, SeenFacts
<1> QED BY <1>1, <1>5, InputAssumption DEF Anchored

LEMMA StepCompleteSource ==
  ASSUME Typed, Held, NEW k \in Sources, CompleteSource(k)
  PROVE  Typed' /\ Held' /\ verdict' \in {verdict, "uncovered"} /\ (Whole => verdict' = verdict)
<1>1. /\ k # Base /\ Asking(k) /\ ~ TailMissing(k) /\ ~ HeadMissing(k) /\ ~ (WarmupBars(k) > 0)
      /\ UNCHANGED <<input, now, anchor, window>>
  BY DEF CompleteSource, WarmupMissing
<1>2. /\ k \in Others /\ fetch[Base].stage = "Complete" /\ Pending(k)
      /\ turn \in 1..Len(Order) /\ k = Order[turn] /\ Answer(k) # {}
  BY <1>1, SourceTurn
<1>3. /\ Earliest(Answer(k)) \in Answer(k) /\ Earliest(Answer(k)) \in Int
      /\ Latest(Answer(k)) \in Answer(k)
      /\ Earliest(Answer(k)) <= window.start /\ window.start \in Int
      /\ window.start <= window.live /\ window.live \in Int
      /\ HeadKnown(k) /\ (Whole => TailHeld(k))
      /\ TailHeld(k) <=> Latest(Answer(k)) + Interval[k] > window.end
      /\ Times(Answer(k)) /\ Required(k) \in Nat /\ Answer(k) \subseteq input.history[k]
      /\ Answer(k) \in SUBSET Int
  BY <1>1, <1>2, SourceAnswer, AnswerFacts, InputFacts DEF Times
<1>4. CASE Covers(Answer(k), window.start, window.end, Interval[k])
  <2>1. /\ fetch' = [fetch EXCEPT ![k].stage = "Complete", ![k].bars = Answer(k)]
        /\ turn' = turn + 1 /\ verdict' = verdict
    BY <1>4 DEF CompleteSource
  <2>2. /\ fetch' \in [Sources -> Fetch]
        /\ fetch'[k].stage = "Complete" /\ fetch'[k].bars = Answer(k)
        /\ \A j \in Sources : j # k => fetch'[j] = fetch[j]
    BY <1>3, <2>1 DEF Typed, Fetch, Stages
  <2>3. Typed'
    BY <1>1, <1>2, <2>1, <2>2, IntervalAssumption DEF Typed
  <2>4. RowAt(Answer(k), window.live) >= Required(k)
    <3>1. Earliest(Answer(k)) <= window.live /\ Anchor(k) = window.live
      BY <1>1, <1>3 DEF Anchor
    <3>2. RowAt(Answer(k), window.live) \in Nat
      BY <1>3, <3>1, SeenFacts
    <3> QED BY <1>1, <1>3, <3>1, <3>2 DEF WarmupBars
  <2>5. \A t \in input.history[k] :
          Earliest(Answer(k)) <= t /\ t <= Latest(Answer(k)) => t \in Answer(k)
    BY <1>3, AnswerFacts
  <2>6. Required(k)' = Required(k)
    BY <1>1 DEF Required
  <2>7. Served(k)'
    BY <1>1, <1>3, <1>4, <2>2, <2>4, <2>5, <2>6 DEF Served
  <2> QED BY <1>1, <1>2, <2>1, <2>2, <2>3, <2>7, SourceMoves
<1>5. CASE ~ Covers(Answer(k), window.start, window.end, Interval[k])
  <2>1. /\ fetch' = [fetch EXCEPT ![k].stage = "HeadWarmup", ![k].bars = Answer(k)]
        /\ turn' = turn /\ verdict' = "uncovered"
    BY <1>5 DEF CompleteSource
  <2>2. /\ fetch' \in [Sources -> Fetch]
        /\ fetch'[k].stage = "HeadWarmup" /\ fetch'[k].since = fetch[k].since
        /\ fetch'[k].limit = fetch[k].limit
        /\ \A j \in Sources : j # k => fetch'[j] = fetch[j]
    BY <1>3, <2>1 DEF Typed, Fetch, Stages
  <2>3. Typed'
    BY <1>1, <2>1, <2>2 DEF Typed
  <2>4. ~ Whole
    BY <1>2, <1>3, <1>5 DEF Covers
  <2>5. Listed(k)' = Listed(k) /\ (Whole' = Whole)
    BY <1>1, <2>2, AnswerStays DEF Whole
  <2>6. Pending(k)'
    BY <1>1, <1>2, <1>3, <2>2, <2>4, <2>5 DEF Pending, HeadKnown
  <2> QED BY <1>1, <1>2, <2>1, <2>2, <2>3, <2>4, <2>6, SourceMoves
<1> QED BY <1>4, <1>5
-----------------------------------------------------------------------------
\* The plan

\* When nothing is asked any more the base and every other source are complete.
LEMMA AllServed ==
  ASSUME Typed, Held, Asked = {}
  PROVE  fetch[Base].stage = "Complete" /\ \A k \in Others : Served(k)
<1>1. fetch[Base].stage = "Complete" /\ ~ (turn <= Len(Order))
  BY DEF Asked
<1>2. ASSUME NEW k \in Others
      PROVE  Served(k)
  <2>1. PICK i \in 1..Len(Order) : k = Order[i]
    BY DEF Others
  <2>2. i < turn
    BY <1>1, IntervalAssumption DEF Typed
  <2> QED BY <1>1, <2>1, <2>2 DEF Held, InTurn
<1> QED BY <1>1, <1>2

\* What finish() finds.
LEMMA FinishedFacts ==
  ASSUME Typed, Held, Asked = {}
  PROVE  /\ Begins(anchor) /\ anchor \in Int
         /\ anchor \in fetch[Base].bars /\ Row(fetch[Base].bars, anchor) = Required(Base)
         /\ window.start = Earliest(fetch[Base].bars) /\ window.end = Latest(fetch[Base].bars)
         /\ Whole => Cardinality(Traded(fetch[Base].bars)) >= input.limit
         /\ \A k \in Sources :
              /\ Finished.bars[k] = fetch[k].bars /\ Times(fetch[k].bars)
              /\ fetch[k].bars \subseteq input.history[k]
              /\ Spaced(fetch[k].bars, Interval[k])
              /\ Finished.warmup[k] = RowAt(fetch[k].bars, anchor)
              /\ Finished.warmup[k] \in Nat
              /\ Finished.warmup[k] >= Required(k)
              /\ Finished.warmup[k] <= Cardinality(fetch[k].bars)
              /\ \E u \in fetch[k].bars : u <= Earliest(fetch[Base].bars)
              /\ \E u \in fetch[k].bars : u <= anchor
         /\ Finished.warmup[Base] = Required(Base)
         /\ \A k \in Others :
              /\ Covers(fetch[k].bars, Earliest(fetch[Base].bars), Latest(fetch[Base].bars), Interval[k])
              /\ Served(k)
<1>1. fetch[Base].stage = "Complete" /\ \A k \in Others : Served(k)
  BY AllServed
<1>2. /\ Base \in Sources /\ Base \notin Others /\ Required(Base) \in Nat
      /\ \A k \in Sources : k = Base \/ k \in Others
      /\ \A k \in Sources : Times(input.history[k]) /\ Spaced(input.history[k], Interval[k])
  BY InputFacts DEF Sources
<1>3. /\ Begins(anchor) /\ anchor \in fetch[Base].bars
      /\ fetch[Base].bars \subseteq input.history[Base]
      /\ Row(fetch[Base].bars, anchor) = Required(Base)
      /\ window.start = Earliest(fetch[Base].bars) /\ window.end = Latest(fetch[Base].bars)
      /\ window.live = anchor
      /\ Whole => Cardinality(Traded(fetch[Base].bars)) >= input.limit
  BY <1>1 DEF Held, BaseComplete
<1>4. ASSUME NEW k \in Sources
      PROVE  /\ fetch[k].bars \subseteq input.history[k] /\ Times(fetch[k].bars)
             /\ Spaced(fetch[k].bars, Interval[k]) /\ Finished.bars[k] = fetch[k].bars
  <2>1. fetch[k].bars \subseteq input.history[k]
    BY <1>1, <1>2, <1>3 DEF Served
  <2>2. Spaced(fetch[k].bars, Interval[k])
    BY <1>2, <2>1 DEF Spaced
  <2> QED BY <1>2, <2>1, <2>2, TimesWithin DEF Finished
<1>5. anchor \in Int /\ Times(fetch[Base].bars)
  BY <1>2, <1>3, <1>4 DEF Times
<1>6. Earliest(fetch[Base].bars) \in fetch[Base].bars /\ Earliest(fetch[Base].bars) \in Int
      /\ Earliest(fetch[Base].bars) <= anchor
  BY <1>3, <1>5, EarliestOf
<1>7. BarAt(fetch[Base].bars, Required(Base)) = anchor
  BY <1>3, <1>5, BarAtUnique
<1>8. ASSUME NEW k \in Sources
      PROVE  \E u \in fetch[k].bars : u <= Earliest(fetch[Base].bars)
  <2>1. CASE k = Base
    BY <1>6, <2>1
  <2>2. CASE k \in Others
    <3>1. fetch[k].bars # {} /\ Earliest(fetch[k].bars) <= window.start
      BY <1>1, <2>2 DEF Served, Covers
    <3>2. Earliest(fetch[k].bars) \in fetch[k].bars
      BY <1>4, <3>1, EarliestOf
    <3> QED BY <1>3, <3>1, <3>2
  <2> QED BY <1>2, <2>1, <2>2
<1>9. ASSUME NEW k \in Sources
      PROVE  /\ \E u \in fetch[k].bars : u <= anchor
             /\ RowAt(fetch[k].bars, anchor) \in Nat
             /\ RowAt(fetch[k].bars, anchor) <= Cardinality(fetch[k].bars)
             /\ k = Base => RowAt(fetch[k].bars, anchor) = Required(Base)
  <2>1. PICK u \in fetch[k].bars : u <= Earliest(fetch[Base].bars)
    BY <1>8
  <2>2. u \in Int /\ u <= anchor
    BY <1>4, <1>5, <1>6, <2>1 DEF Times
  <2>3. /\ SeenIn(fetch[k].bars, anchor) \in fetch[k].bars /\ SeenIn(fetch[k].bars, anchor) \in Int
        /\ SeenIn(fetch[k].bars, anchor) <= anchor
        /\ \A w \in fetch[k].bars : w <= anchor => w <= SeenIn(fetch[k].bars, anchor)
        /\ RowAt(fetch[k].bars, anchor) = Row(fetch[k].bars, SeenIn(fetch[k].bars, anchor))
        /\ RowAt(fetch[k].bars, anchor) \in Nat
    BY <1>4, <1>5, <2>2, SeenFacts
  <2>4. RowAt(fetch[k].bars, anchor) <= Cardinality(fetch[k].bars)
    BY <1>4, <2>3, RowFacts
  <2>5. k = Base => SeenIn(fetch[k].bars, anchor) = anchor
    BY <1>3, <1>5, <2>3
  <2> QED BY <1>3, <2>1, <2>2, <2>3, <2>4, <2>5
<1>10. ASSUME NEW k \in Sources
       PROVE  /\ Finished.warmup[k] = RowAt(fetch[k].bars, anchor)
              /\ Finished.warmup[k] >= Required(k)
  <2>1. CASE k = Base
    BY <1>2, <1>9, <2>1 DEF Finished
  <2>2. CASE k \in Others
    <3>1. RowAt(fetch[k].bars, anchor) >= Required(k)
      BY <1>1, <1>3, <2>2 DEF Served
    <3> QED BY <1>2, <1>7, <2>2, <3>1 DEF Finished
  <2> QED BY <1>2, <2>1, <2>2
<1>11. \A k \in Others :
         Covers(fetch[k].bars, Earliest(fetch[Base].bars), Latest(fetch[Base].bars), Interval[k])
  BY <1>1, <1>3 DEF Served
<1>12. Finished.warmup[Base] = Required(Base)
  BY <1>2 DEF Finished
<1> QED BY <1>1, <1>3, <1>4, <1>5, <1>8, <1>9, <1>10, <1>11, <1>12

LEMMA StepFinish ==
  ASSUME Typed, Held, Finish
  PROVE  /\ Typed' /\ Held' /\ Asked' = {}
         /\ \/ verdict' = "built" /\ Buildable(Finished) /\ pack' = Finished
            \/ /\ verdict' = "unbuilt"
               /\ \/ Cardinality(fetch[Base].bars) = 1
                  \/ \E k \in Others : Interval[k] < Interval[Base]
<1>1. UNCHANGED <<input, now, fetch, anchor, window, turn>> /\ Asked = {} /\ Asked' = {}
  BY DEF Finish, Asked
<1>2. Typed' /\ Held'
  BY <1>1, HeldStill
<1>3. CASE Buildable(Finished) /\ \A k \in Others : Finished.warmup[k] >= Required(k)
  BY <1>1, <1>2, <1>3 DEF Finish
<1>4. CASE ~ (Buildable(Finished) /\ \A k \in Others : Finished.warmup[k] >= Required(k))
  <2>1. verdict' = "unbuilt"
    BY <1>4 DEF Finish
  <2>2. ASSUME Cardinality(fetch[Base].bars) # 1,
               \A k \in Others : ~ (Interval[k] < Interval[Base])
        PROVE  FALSE
    <3>1. /\ Base \in Sources /\ Others \subseteq Sources /\ \A k \in Sources : k = Base \/ k \in Others
          /\ \A k \in Sources : Interval[k] \in Nat
      BY InputFacts DEF Sources
    <3>2. /\ anchor \in fetch[Base].bars
          /\ \A k \in Sources :
               /\ Finished.bars[k] = fetch[k].bars /\ Times(fetch[k].bars)
               /\ Spaced(fetch[k].bars, Interval[k])
               /\ Finished.warmup[k] >= Required(k)
               /\ Finished.warmup[k] <= Cardinality(fetch[k].bars)
          /\ \A k \in Others :
               Covers(fetch[k].bars, Earliest(fetch[Base].bars), Latest(fetch[Base].bars), Interval[k])
      BY <1>1, FinishedFacts
    <3>3. Cardinality(fetch[Base].bars) \in Nat /\ Cardinality(fetch[Base].bars) # 0
      BY <3>1, <3>2, FS_EmptySet, FS_CardinalityType DEF Times
    <3>4. Cardinality(Finished.bars[Base]) >= 2
      BY <2>2, <3>1, <3>2, <3>3
    <3>5. \A k \in Sources : Interval[k] >= Interval[Base]
      BY <2>2, <3>1
    <3>6. Buildable(Finished)
      BY <3>1, <3>2, <3>4, <3>5 DEF Buildable
    <3> QED BY <1>4, <3>1, <3>2, <3>6
  <2> QED BY <1>1, <1>2, <2>1, <2>2
<1> QED BY <1>3, <1>4

\* What an answer, or the want of one, may bring the verdict to.
LEMMA AskingVerdict ==
  ASSUME verdict = "asking", input' = input,
         verdict' \in {"asking", "rounds", "short", "empty", "anchor", "uncovered"},
         Whole => verdict' \notin {"anchor", "uncovered"}
  PROVE  Verdicts'
<1>1. Whole' = Whole
  BY DEF Whole
<1> QED BY <1>1 DEF Verdicts

LEMMA PlannedInit == Init => Planned
<1> SUFFICES ASSUME Init
             PROVE  Planned
  OBVIOUS
<1>1. /\ input \in Inputs /\ now \in 0..Horizon /\ turn = 1 /\ verdict = "asking"
      /\ anchor = Nowhere
      /\ fetch = [k \in Sources |->
                IF k = Base
                THEN [since |-> input.since, limit |-> input.limit, rounds |-> 0,
                      stage |-> "Initial", bars |-> {}]
                ELSE [since |-> 0, limit |-> 0, rounds |-> 0, stage |-> "Unplanned", bars |-> {}]]
  BY DEF Init
<1>2. input.since \in Int /\ input.limit \in Nat
  BY <1>1, InputAssumption DEF Input
<1>3. Base \in Sources /\ Len(Order) \in Nat
  BY IntervalAssumption DEF Sources
<1>4. /\ fetch \in [Sources -> Fetch]
      /\ fetch[Base].stage = "Initial" /\ fetch[Base].since = input.since
      /\ fetch[Base].limit = input.limit
  BY <1>1, <1>2, <1>3 DEF Fetch, Stages
<1>5. Typed
  <2>1. 1 \in 1..Len(Order) + 1 /\ now \in Int
    BY <1>1, <1>3, HorizonAssumption
  <2> QED BY <1>1, <1>4, <2>1 DEF Typed
<1>6. Held
  BY <1>1, <1>4 DEF Held, BaseAsked, BaseComplete, InTurn
<1> QED BY <1>1, <1>5, <1>6 DEF Planned, Verdicts

LEMMA PlannedStep == Planned /\ [Next]_vars => Planned'
<1> SUFFICES ASSUME Typed, Held, Verdicts, [Next]_vars
             PROVE  Typed' /\ Held' /\ Verdicts'
  BY DEF Planned
<1> DEFINE still == UNCHANGED <<input, now, fetch, anchor, window, turn>>
<1>1. ASSUME still, verdict' = verdict
      PROVE  Typed' /\ Held' /\ Verdicts'
  <2>1. Asked' = Asked /\ Whole' = Whole
    BY <1>1 DEF Asked, Whole
  <2> QED BY <1>1, <2>1, HeldStill DEF Verdicts
<1>2. CASE UNCHANGED vars
  BY <1>1, <1>2 DEF vars
<1>3. CASE Tick
  BY <1>3, StepTick, AskingVerdict DEF Tick
<1>4. CASE NoAnswer
  <2>1. still /\ verdict = "asking" /\ verdict' = "empty"
    BY <1>4 DEF NoAnswer
  <2> QED BY <2>1, HeldStill, AskingVerdict
<1>5. CASE BaseShort
  BY <1>5, StepBaseShort, AskingVerdict DEF BaseShort, Asking
<1>6. CASE CompleteBase
  <2>1. verdict = "asking" /\ input' = input
    BY <1>6 DEF CompleteBase, Asking
  <2> QED BY <1>6, <2>1, StepBaseComplete, AskingVerdict
<1>7. ASSUME NEW k \in Sources, Unanchored(k)
      PROVE  Typed' /\ Held' /\ Verdicts'
  <2>1. CASE k = Base
    BY <1>7, <2>1, StepBaseUnanchored, AskingVerdict DEF Unanchored, Asking
  <2>2. CASE k # Base
    BY <1>7, <2>2, StepUnanchored
  <2> QED BY <2>1, <2>2
<1>8. ASSUME NEW k \in Sources, CoverTail(k)
      PROVE  Typed' /\ Held' /\ Verdicts'
  BY <1>8, StepCoverTail, AskingVerdict DEF CoverTail, Asking
<1>9. ASSUME NEW k \in Sources, CoverHead(k)
      PROVE  Typed' /\ Held' /\ Verdicts'
  BY <1>9, StepCoverHead, AskingVerdict DEF CoverHead, Asking
<1>10. ASSUME NEW k \in Sources, WarmUp(k)
       PROVE  Typed' /\ Held' /\ Verdicts'
  <2>1. verdict = "asking" /\ input' = input
    BY <1>10 DEF WarmUp, Asking
  <2>2. Typed' /\ Held' /\ verdict' \in {verdict, "rounds"}
    BY <1>10, StepBaseWarmUp, StepWarmUp
  <2> QED BY <2>1, <2>2, AskingVerdict
<1>11. ASSUME NEW k \in Sources, CompleteSource(k)
       PROVE  Typed' /\ Held' /\ Verdicts'
  BY <1>11, StepCompleteSource, AskingVerdict DEF CompleteSource, Asking
<1>12. CASE Finish
  <2>1. input' = input
    BY <1>12 DEF Finish
  <2>2. UNCHANGED fetch
    BY <1>12 DEF Finish
  <2> QED BY <1>12, <2>1, <2>2, StepFinish DEF Verdicts
<1>13. CASE CutPack
  BY <1>1, <1>13 DEF CutPack
<1>14. CASE ExtractActive
  BY <1>1, <1>14 DEF ExtractActive
<1> QED
  BY <1>2, <1>3, <1>4, <1>5, <1>6, <1>7, <1>8, <1>9, <1>10, <1>11, <1>12, <1>13, <1>14
  DEF Next, Ingest

LEMMA AlwaysPlanned == Spec => []Planned
<1> QED BY PlannedInit, PlannedStep, PTL DEF Spec

\* With an exchange that answers in full a plan ends short of data or of
\* rounds, never with a base without its anchor or a source that lost what it
\* covered; and finish() refuses a complete plan only for what nothing before
\* it looks at.
THEOREM PlannedForDataOnly == Spec => []OnlyDataIsMissing
<1>1. Planned => OnlyDataIsMissing
  BY DEF Planned, Verdicts, OnlyDataIsMissing
<1> QED BY <1>1, AlwaysPlanned, PTL

LEMMA EarliestIs ==
  ASSUME NEW S, Times(S), NEW m \in S, \A u \in S : m <= u
  PROVE  Earliest(S) = m
<1>1. Earliest(S) \in S /\ \A u \in S : Earliest(S) <= u
  BY EarliestOf
<1>2. Earliest(S) <= m /\ m <= Earliest(S) /\ m \in Int /\ Earliest(S) \in Int
  BY <1>1 DEF Times
<1> QED BY <1>2

\* What the optimizer may try needs no more warm-up than the plan has.
LEMMA CandidateFits ==
  ASSUME NEW p \in Param, NEW v \in Candidates(p)
  PROVE  v \in Nat /\ v <= Warmup(p)
BY DEF Param, Candidates, Warmup

\* A complete plan has for every source what the caller asked for, and the
\* warm-up of any parameter the optimizer may try.
THEOREM CompletePlanIsEnough == Spec => []CompleteIsEnough
<1>1. ASSUME Planned
      PROVE  CompleteIsEnough
  <2> SUFFICES ASSUME Asked = {}
               PROVE  /\ Whole => Cardinality({t \in fetch[Base].bars : t >= anchor}) >= input.limit
                      /\ anchor = Earliest({t \in input.history[Base] : t >= input.since})
                      /\ \A v \in Candidates(input.exec) : Row(fetch[Base].bars, anchor) >= v
                      /\ \A k \in Sources :
                           /\ \A v \in Candidates(input.indicator[k]) :
                                RowAt(fetch[k].bars, anchor) >= v
                           /\ \A t \in fetch[Base].bars : \E u \in fetch[k].bars : u <= t
                           /\ Latest(fetch[k].bars) + Interval[k] > Latest(fetch[Base].bars)
    BY DEF CompleteIsEnough
  <2>1. Typed /\ Held
    BY <1>1 DEF Planned
  <2>2. /\ Base \in Sources /\ \A k \in Sources : k = Base \/ k \in Others
        /\ input.since \in Int /\ input.exec \in Param
        /\ \A k \in Sources : /\ Times(input.history[k]) /\ input.indicator[k] \in Param
                              /\ Interval[k] \in Nat \ {0} /\ Required(k) \in Nat
                              /\ Required(k) >= Warmup(input.indicator[k])
        /\ Required(Base) >= Warmup(input.exec)
    BY <2>1, InputFacts, InputAssumption DEF Typed, Sources, Input
  <2>3. Whole => Cardinality({t \in fetch[Base].bars : t >= anchor}) >= input.limit
    BY <2>1, FinishedFacts DEF Traded
  <2>4. anchor = Earliest({t \in input.history[Base] : t >= input.since})
    <3> DEFINE S == {t \in input.history[Base] : t >= input.since}
    <3>1. Times(S)
      <4>1. S \subseteq input.history[Base]
        OBVIOUS
      <4> HIDE DEF S
      <4> QED BY <2>2, <4>1, TimesWithin
    <3>2. Begins(anchor) /\ anchor \in Int
      BY <2>1, FinishedFacts
    <3>3. anchor \in S /\ \A u \in S : anchor <= u
      BY <2>2, <3>2 DEF Begins, Times
    <3> HIDE DEF S
    <3>4. Earliest(S) = anchor
      BY <3>1, <3>3, EarliestIs
    <3> QED BY <3>4 DEF S
  <2>5. Row(fetch[Base].bars, anchor) = Required(Base)
    BY <2>1, FinishedFacts
  <2>6. \A v \in Candidates(input.exec) : Row(fetch[Base].bars, anchor) >= v
    <3> SUFFICES ASSUME NEW v \in Candidates(input.exec)
                 PROVE  Required(Base) >= v
      BY <2>5
    <3>1. v \in Nat /\ v <= Warmup(input.exec)
      BY <2>2, CandidateFits
    <3> QED BY <2>2, <3>1 DEF Param, Warmup
  <2>7. ASSUME NEW k \in Sources
        PROVE  /\ \A v \in Candidates(input.indicator[k]) : RowAt(fetch[k].bars, anchor) >= v
               /\ \A t \in fetch[Base].bars : \E u \in fetch[k].bars : u <= t
               /\ Latest(fetch[k].bars) + Interval[k] > Latest(fetch[Base].bars)
    <3>1. /\ anchor \in fetch[Base].bars /\ Times(fetch[Base].bars) /\ Times(fetch[k].bars)
          /\ RowAt(fetch[k].bars, anchor) \in Nat
          /\ RowAt(fetch[k].bars, anchor) >= Required(k)
          /\ \E u \in fetch[k].bars : u <= Earliest(fetch[Base].bars)
      BY <2>1, <2>2, FinishedFacts
    <3>2. ASSUME NEW v \in Candidates(input.indicator[k])
          PROVE  RowAt(fetch[k].bars, anchor) >= v
      <4>1. v \in Nat /\ v <= Warmup(input.indicator[k]) /\ Warmup(input.indicator[k]) \in Nat
        BY <2>2, CandidateFits DEF Param, Warmup
      <4> QED BY <2>2, <3>1, <4>1
    <3>3. /\ Earliest(fetch[Base].bars) \in Int /\ Latest(fetch[Base].bars) \in Int
          /\ \A t \in fetch[Base].bars : Earliest(fetch[Base].bars) <= t
      BY <3>1, EarliestOf, LatestOf
    <3>4. ASSUME NEW t \in fetch[Base].bars
          PROVE  \E u \in fetch[k].bars : u <= t
      <4>1. PICK u \in fetch[k].bars : u <= Earliest(fetch[Base].bars)
        BY <3>1
      <4>2. u \in Int /\ t \in Int
        BY <3>1 DEF Times
      <4> QED BY <3>3, <4>1, <4>2
    <3>5. Latest(fetch[k].bars) + Interval[k] > Latest(fetch[Base].bars)
      <4>1. CASE k = Base
        BY <2>2, <3>3, <4>1
      <4>2. CASE k \in Others
        BY <2>1, <4>2, FinishedFacts DEF Covers
      <4> QED BY <2>2, <4>1, <4>2
    <3> QED BY <3>2, <3>4, <3>5
  <2> QED BY <2>3, <2>4, <2>6, <2>7
<1>2. Planned => CompleteIsEnough
  BY <1>1
<1> QED BY <1>2, AlwaysPlanned, PTL
-----------------------------------------------------------------------------
\* Cutting

\* A pack p that the planner built of the bars f holds, or that was cut from
\* it: each base row sees the bar it saw before, and some base row has both its
\* own warm-up and that of the other sources before it.
Fits(p, f) ==
  /\ Buildable(p)
  /\ \A k \in Sources :
       Times(p.bars[k]) /\ p.bars[k] \subseteq f[k].bars /\ p.warmup[k] \in Nat
  /\ \E t \in p.bars[Base] :
       /\ Row(p.bars[Base], t) = p.warmup[Base]
       /\ \A k \in Others : RowAt(p.bars[k], t) >= p.warmup[k]
  /\ \A k \in Others, t \in p.bars[Base] : SeenIn(p.bars[k], t) = SeenIn(f[k].bars, t)

Kept == verdict = "built" => Fits(pack, fetch)

LEMMA SourceFacts ==
  /\ Base \in Sources /\ Others \subseteq Sources /\ Base \notin Others
  /\ \A k \in Sources : (k = Base \/ k \in Others) /\ Interval[k] \in Nat \ {0}
BY IntervalAssumption DEF Sources

\* Every base row of a pack sees a bar of every other source.
LEMMA RowsSee ==
  ASSUME NEW p, NEW f, Fits(p, f), NEW k \in Others, NEW t \in p.bars[Base]
  PROVE  /\ t \in Int /\ Times(p.bars[k])
         /\ \E u \in p.bars[k] : u <= t
         /\ SeenIn(p.bars[k], t) \in p.bars[k]
         /\ RowAt(p.bars[k], t) \in 0..Cardinality(p.bars[k]) - 1
<1>1. Times(p.bars[k]) /\ Times(p.bars[Base])
  BY SourceFacts DEF Fits
<1>2. /\ p.bars[k] # {}
      /\ Earliest(p.bars[k]) <= Earliest(p.bars[Base])
  BY DEF Fits, Buildable, Covers
<1>3. /\ Earliest(p.bars[k]) \in p.bars[k] /\ Earliest(p.bars[k]) \in Int
      /\ Earliest(p.bars[Base]) \in Int /\ Earliest(p.bars[Base]) <= t /\ t \in Int
  BY <1>1, <1>2, EarliestOf DEF Times
<1>4. Earliest(p.bars[k]) <= t
  BY <1>2, <1>3
<1>5. /\ SeenIn(p.bars[k], t) \in p.bars[k] /\ SeenIn(p.bars[k], t) \in Int
      /\ RowAt(p.bars[k], t) = Row(p.bars[k], SeenIn(p.bars[k], t))
  BY <1>1, <1>3, <1>4, SeenFacts
<1>6. RowAt(p.bars[k], t) \in 0..Cardinality(p.bars[k]) - 1
  BY <1>1, <1>5, BarAtUnique
<1> QED BY <1>1, <1>3, <1>4, <1>5, <1>6

\* A base row maps to the row its bar sees.
LEMMA MapsToSeen ==
  ASSUME NEW p, NEW f, Fits(p, f), NEW k \in Others, NEW t \in p.bars[Base]
  PROVE  /\ Row(p.bars[Base], t) \in 0..Cardinality(p.bars[Base]) - 1
         /\ MapOf([mapping |-> Mapping(p, k)], Row(p.bars[Base], t)) = RowAt(p.bars[k], t)
<1> DEFINE n == Cardinality(p.bars[Base])
           r == Row(p.bars[Base], t)
<1>1. Times(p.bars[Base])
  BY SourceFacts DEF Fits
<1>2. r \in 0..n - 1 /\ BarAt(p.bars[Base], r) = t /\ n \in Nat
  BY <1>1, BarAtUnique, TimesWithin
<1> HIDE DEF n, r
<1>3. PICK i \in 1..n : i = r + 1 /\ i - 1 = r
  BY <1>2
<1>4. Mapping(p, k)[i] = RowAt(p.bars[k], BarAt(p.bars[Base], i - 1))
  BY DEF Mapping, n
<1> QED BY <1>2, <1>3, <1>4 DEF MapOf, n, r

\* The first base row a slice trades.
FirstLive(p, start, len) == start + Smaller(p.warmup[Base], len - 1)

\* Rows a to b - 1 of another source hold all that the base rows of a slice see,
\* and the warm-up before the first row traded.
Taken(p, start, len, k, a, b) ==
  /\ a \in Nat /\ b \in Nat /\ a <= b /\ b <= Cardinality(p.bars[k])
  /\ \A t \in Rows(p.bars[Base], start, start + len) : RowAt(p.bars[k], t) \in a..b - 1
  /\ \A t \in p.bars[Base] :
       Row(p.bars[Base], t) = FirstLive(p, start, len) =>
         /\ RowAt(p.bars[k], t) >= p.warmup[k]
         /\ RowAt(p.bars[k], t) \in a..b - 1
         /\ Cut(p, start, len, k).warmup = RowAt(p.bars[k], t) - a

\* These are the rows a slice takes.
LEMMA CutRange ==
  ASSUME NEW p, NEW f, Fits(p, f), NEW k \in Others,
         NEW start \in Nat, NEW len \in Nat, Cuttable(p, start, len),
         NEW a, a = Cut(p, start, len, k).start, NEW b, b = Cut(p, start, len, k).end
  PROVE  Taken(p, start, len, k, a, b)
<1> DEFINE m == [mapping |-> Mapping(p, k)]
           w == Window(p, start, len)
           M == Mapped(m, w.pack)
           n == Cardinality(p.bars[k])
           live == start + Smaller(p.warmup[Base], len - 1)
           first == MapOf(m, live) - p.warmup[k]
<1>1. /\ Times(p.bars[Base]) /\ Times(p.bars[k]) /\ p.warmup[Base] \in Nat /\ p.warmup[k] \in Nat
      /\ k # Base /\ n \in Nat
  BY SourceFacts, TimesWithin DEF Fits
<1>2. /\ len > 0 /\ start + len <= Cardinality(p.bars[Base]) /\ Cardinality(p.bars[Base]) \in Nat
      /\ MapOf(m, live) >= p.warmup[k]
  BY <1>1, TimesWithin DEF Cuttable, Projects, Window
<1>3. live \in start..start + len - 1
  BY <1>1, <1>2 DEF Smaller
<1>4. ASSUME NEW r \in start..start + len - 1
      PROVE  MapOf(m, r) \in 0..n - 1 /\ MapOf(m, r) # None /\ MapOf(m, r) \in M
  <2>1. r \in 0..Cardinality(p.bars[Base]) - 1
    BY <1>2
  <2>2. PICK t \in p.bars[Base] : Row(p.bars[Base], t) = r
    BY <1>1, <2>1, RowNumbers
  <2>3. MapOf(m, r) = RowAt(p.bars[k], t) /\ RowAt(p.bars[k], t) \in 0..n - 1
    BY <2>2, MapsToSeen, RowsSee
  <2>4. MapOf(m, r) \in 0..n - 1 /\ MapOf(m, r) # None
    BY <2>3, InputAssumption
  <2> QED BY <2>4 DEF Mapped, Window
<1>5. M \subseteq 0..n - 1
  BY <1>4 DEF Mapped, Window
<1>6. /\ Cut(p, start, len, k).start = Lowest(m, w, p.warmup[k])
      /\ Cut(p, start, len, k).end = Highest(m, w) + 1
      /\ Cut(p, start, len, k).warmup = MapOf(m, live) - Lowest(m, w, p.warmup[k])
  BY <1>1 DEF Cut, Projected, Window
<1>7. /\ Lowest(m, w, p.warmup[k]) = Earliest(M \cup {first})
      /\ Highest(m, w) = Latest(M)
  BY DEF Lowest, Highest, Earliest, Latest, Window
<1>8. MapOf(m, live) \in M /\ MapOf(m, live) \in 0..n - 1
  BY <1>3, <1>4
<1> HIDE DEF M, m, w, live, n
<1>9. first \in 0..n - 1 /\ first <= MapOf(m, live)
  BY <1>1, <1>2, <1>8
<1>10. Times(M) /\ Times(M \cup {first})
  <2>1. IsFiniteSet(0..n - 1) /\ M \cup {first} \subseteq 0..n - 1
    <3>1. n - 1 \in Int /\ 0 \in Int
      BY <1>1
    <3>2. IsFiniteSet(0..n - 1)
      BY <3>1, FS_Interval
    <3> QED BY <1>5, <1>9, <3>2
  <2>2. Times(0..n - 1)
    BY <1>1, <2>1 DEF Times
  <2> QED BY <1>5, <2>1, <2>2, TimesWithin
<1>11. /\ a \in M \cup {first} /\ \A r \in M \cup {first} : a <= r
       /\ b - 1 \in M /\ b \in Int /\ \A r \in M : r <= b - 1
  <2>1. /\ Earliest(M \cup {first}) \in M \cup {first}
        /\ \A r \in M \cup {first} : Earliest(M \cup {first}) <= r
    BY <1>10, EarliestOf
  <2>2. Latest(M) \in M /\ Latest(M) \in Int /\ \A r \in M : r <= Latest(M)
    BY <1>8, <1>10, LatestOf
  <2>3. a = Earliest(M \cup {first}) /\ b = Latest(M) + 1
    BY <1>6, <1>7
  <2>4. b - 1 = Latest(M) /\ b \in Int
    BY <2>2, <2>3
  <2> QED BY <2>1, <2>2, <2>3, <2>4
<1>12. /\ a \in 0..n - 1 /\ b - 1 \in 0..n - 1
       /\ \A r \in M : a <= r /\ r <= b - 1 /\ r \in Int
  <2> HIDE DEF first
  <2>1. M \cup {first} \subseteq 0..n - 1
    BY <1>5, <1>9
  <2>2. \A r \in 0..n - 1 : r \in Int
    BY <1>1
  <2> QED BY <1>5, <1>11, <2>1, <2>2
<1>13. a \in Nat /\ b \in Nat /\ a <= b /\ b <= n
  <2>1. a <= b - 1
    BY <1>11, <1>12
  <2> QED BY <1>1, <1>11, <1>12, <2>1
<1>14. ASSUME NEW t \in Rows(p.bars[Base], start, start + len)
       PROVE  RowAt(p.bars[k], t) \in a..b - 1
  <2>1. t \in p.bars[Base] /\ Row(p.bars[Base], t) \in start..start + len - 1
    BY DEF Rows
  <2>2. MapOf(m, Row(p.bars[Base], t)) \in M
    BY <1>4, <2>1
  <2>3. RowAt(p.bars[k], t) \in M
    BY <2>1, <2>2, MapsToSeen DEF m
  <2> QED BY <1>12, <1>13, <2>3
<1>15. ASSUME NEW t \in p.bars[Base], Row(p.bars[Base], t) = live
       PROVE  /\ RowAt(p.bars[k], t) >= p.warmup[k] /\ RowAt(p.bars[k], t) \in a..b - 1
              /\ Cut(p, start, len, k).warmup = RowAt(p.bars[k], t) - a
  <2>1. RowAt(p.bars[k], t) = MapOf(m, live)
    BY <1>15, MapsToSeen DEF m
  <2>2. RowAt(p.bars[k], t) \in a..b - 1
    BY <1>8, <1>12, <1>13, <2>1
  <2> QED BY <1>2, <1>6, <2>1, <2>2
<1> QED BY <1>13, <1>14, <1>15 DEF live, n, Taken, FirstLive

\* The base rows of a slice, the first traded among them.
LEMMA SliceBase ==
  ASSUME NEW p, NEW f, Fits(p, f), NEW start \in Nat, NEW len \in Nat, len > 0,
         start + len <= Cardinality(p.bars[Base])
  PROVE  /\ Slice(p, start, len).bars[Base] = Rows(p.bars[Base], start, start + len)
         /\ Slice(p, start, len).warmup[Base] = Smaller(p.warmup[Base], len - 1)
         /\ Smaller(p.warmup[Base], len - 1) \in 0..len - 1
         /\ Times(Rows(p.bars[Base], start, start + len))
         /\ Rows(p.bars[Base], start, start + len) \subseteq p.bars[Base]
         /\ Cardinality(Rows(p.bars[Base], start, start + len)) = len
<1>1. /\ Times(p.bars[Base]) /\ p.warmup[Base] \in Nat /\ Base \in Sources
      /\ Cardinality(p.bars[Base]) \in Nat
  BY SourceFacts, TimesWithin DEF Fits
<1>2. PICK s \in 0..len - 1 : s = Smaller(p.warmup[Base], len - 1)
  BY <1>1 DEF Smaller
<1>3. PICK S : S = p.bars[Base]
  OBVIOUS
<1>4. PICK end \in Nat : end = start + len /\ start <= end /\ end - start = len
  OBVIOUS
<1>5. Window(p, start, len).active[1] = start + s /\ start + s - start = s
  BY <1>2 DEF Window
<1>6. /\ Cut(p, start, len, Base).start = start /\ Cut(p, start, len, Base).end = end
      /\ Cut(p, start, len, Base).warmup = Window(p, start, len).active[1] - start
  BY <1>4 DEF Cut
<1>7. /\ Slice(p, start, len).bars[Base] = Rows(S, Cut(p, start, len, Base).start,
                                                  Cut(p, start, len, Base).end)
      /\ Slice(p, start, len).warmup[Base] = Cut(p, start, len, Base).warmup
  BY <1>1, <1>3 DEF Slice
<1>8. /\ Slice(p, start, len).bars[Base] = Rows(S, start, end)
      /\ Slice(p, start, len).warmup[Base] = s
  BY <1>5, <1>6, <1>7
<1>9. /\ Times(Rows(S, start, end)) /\ Rows(S, start, end) \subseteq S
      /\ Cardinality(Rows(S, start, end)) = len
  BY <1>1, <1>3, <1>4, RowsFacts
<1> QED BY <1>2, <1>3, <1>4, <1>8, <1>9

LEMMA SliceLive ==
  ASSUME NEW p, NEW f, Fits(p, f), NEW start \in Nat, NEW len \in Nat, len > 0,
         start + len <= Cardinality(p.bars[Base])
  PROVE  \E t \in Rows(p.bars[Base], start, start + len) :
           /\ t \in p.bars[Base] /\ Row(p.bars[Base], t) = FirstLive(p, start, len)
           /\ Row(Rows(p.bars[Base], start, start + len), t) = Smaller(p.warmup[Base], len - 1)
<1>1. PICK S : S = p.bars[Base]
  OBVIOUS
<1>2. Times(S) /\ Cardinality(S) \in Nat /\ start + len <= Cardinality(S)
  BY <1>1, SourceFacts, TimesWithin DEF Fits
<1>3. PICK s \in 0..len - 1 : s = Smaller(p.warmup[Base], len - 1)
  BY SliceBase
<1>4. PICK end \in Nat : end = start + len /\ start <= end /\ end - start = len
  OBVIOUS
<1>5. start + s \in 0..Cardinality(S) - 1 /\ start + s \in start..end - 1
      /\ start + s \in start..end /\ start + s - start = s
  BY <1>2, <1>3, <1>4
<1>6. PICK t \in S : Row(S, t) = start + s
  BY <1>2, <1>5, RowNumbers
<1>7. t \in Rows(S, start, end)
  BY <1>5, <1>6 DEF Rows
<1>8. Row(Rows(S, start, end), t) = Row(S, t) - start
  BY <1>2, <1>4, <1>5, <1>6, RowInRows
<1> QED BY <1>1, <1>3, <1>4, <1>5, <1>6, <1>7, <1>8 DEF FirstLive

\* What a slice is for another source.
LEMMA SliceOther ==
  ASSUME NEW p, NEW f, Fits(p, f), NEW k \in Others,
         NEW start \in Nat, NEW len \in Nat, Cuttable(p, start, len)
  PROVE  /\ Times(Slice(p, start, len).bars[k])
         /\ Slice(p, start, len).bars[k] \subseteq p.bars[k]
         /\ Slice(p, start, len).warmup[k] \in Nat
         /\ Slice(p, start, len).warmup[k] <= Cardinality(Slice(p, start, len).bars[k])
         /\ \A t \in Rows(p.bars[Base], start, start + len) :
              /\ \E u \in Slice(p, start, len).bars[k] : u <= t
              /\ SeenIn(Slice(p, start, len).bars[k], t) = SeenIn(p.bars[k], t)
              /\ Row(p.bars[Base], t) = FirstLive(p, start, len) =>
                   RowAt(Slice(p, start, len).bars[k], t) = Slice(p, start, len).warmup[k]
<1>1. PICK a, b : a = Cut(p, start, len, k).start /\ b = Cut(p, start, len, k).end
  OBVIOUS
<1> DEFINE T == Rows(p.bars[k], a, b)
           W == Cut(p, start, len, k).warmup
<1>2. Slice(p, start, len).bars[k] = T /\ Slice(p, start, len).warmup[k] = W
  BY <1>1, SourceFacts DEF Slice
<1>3. Taken(p, start, len, k, a, b)
  BY <1>1, CutRange
<1>4. /\ a \in Nat /\ b \in Nat /\ a <= b /\ b <= Cardinality(p.bars[k])
      /\ \A t \in Rows(p.bars[Base], start, start + len) : RowAt(p.bars[k], t) \in a..b - 1
      /\ \A t \in p.bars[Base] :
           Row(p.bars[Base], t) = FirstLive(p, start, len) =>
             RowAt(p.bars[k], t) \in a..b - 1 /\ W = RowAt(p.bars[k], t) - a
  BY <1>3 DEF Taken
<1> HIDE DEF W
<1>5. Times(p.bars[k]) /\ Times(T) /\ T \subseteq p.bars[k] /\ Cardinality(T) = b - a
  BY <1>4, SourceFacts, RowsFacts DEF Fits
<1>6. W \in Nat /\ W <= b - a
  <2>1. len > 0 /\ start + len <= Cardinality(p.bars[Base])
    BY DEF Cuttable
  <2>2. PICK t \in p.bars[Base] : Row(p.bars[Base], t) = FirstLive(p, start, len)
    BY <2>1, SliceLive
  <2> QED BY <1>4, <2>2
<1>7. ASSUME NEW t \in Rows(p.bars[Base], start, start + len)
      PROVE  /\ \E u \in T : u <= t
             /\ SeenIn(T, t) = SeenIn(p.bars[k], t)
             /\ RowAt(T, t) = RowAt(p.bars[k], t) - a
  <2>1. t \in p.bars[Base]
    BY DEF Rows
  <2>2. t \in Int /\ (\E u \in p.bars[k] : u <= t) /\ RowAt(p.bars[k], t) \in a..b - 1
    BY <1>4, <2>1, RowsSee
  <2> QED BY <1>4, <1>5, <2>2, SeenInRows
<1>8. \A t \in Rows(p.bars[Base], start, start + len) : t \in p.bars[Base]
  BY DEF Rows
<1> HIDE DEF T
<1>9. \A t \in Rows(p.bars[Base], start, start + len) :
        Row(p.bars[Base], t) = FirstLive(p, start, len) => RowAt(T, t) = W
  BY <1>4, <1>7, <1>8
<1> QED BY <1>2, <1>5, <1>6, <1>7, <1>9

\* What finish() builds fits.
LEMMA FinishedFits ==
  ASSUME Typed, Held, Asked = {}, Buildable(Finished)
  PROVE  Fits(Finished, fetch)
<1>1. /\ anchor \in fetch[Base].bars
      /\ Row(fetch[Base].bars, anchor) = Required(Base)
      /\ Finished.warmup[Base] = Required(Base)
      /\ \A k \in Sources :
           /\ Finished.bars[k] = fetch[k].bars /\ Times(fetch[k].bars)
           /\ Finished.warmup[k] = RowAt(fetch[k].bars, anchor)
           /\ Finished.warmup[k] \in Nat
  BY FinishedFacts
<1>2. Base \in Sources /\ Others \subseteq Sources
  BY SourceFacts
<1>3. /\ anchor \in Finished.bars[Base]
      /\ Row(Finished.bars[Base], anchor) = Finished.warmup[Base]
      /\ \A k \in Others : RowAt(Finished.bars[k], anchor) >= Finished.warmup[k]
  BY <1>1, <1>2
<1> QED BY <1>1, <1>2, <1>3 DEF Fits

\* What is cut from a pack fits when the pack does.
LEMMA SliceFits ==
  ASSUME NEW p, NEW f, Fits(p, f), NEW start \in Nat, NEW len \in Nat,
         Cuttable(p, start, len), Buildable(Slice(p, start, len))
  PROVE  Fits(Slice(p, start, len), f)
<1>1. PICK q : q = Slice(p, start, len)
  OBVIOUS
<1>2. PICK B : B = Rows(p.bars[Base], start, start + len)
  OBVIOUS
<1>3. len > 0 /\ start + len <= Cardinality(p.bars[Base])
  BY DEF Cuttable
<1>4. /\ q.bars[Base] = B /\ q.warmup[Base] = Smaller(p.warmup[Base], len - 1)
      /\ q.warmup[Base] \in Nat /\ Times(B) /\ B \subseteq p.bars[Base]
  BY <1>1, <1>2, <1>3, SliceBase
<1>5. PICK t \in B : /\ t \in p.bars[Base] /\ Row(p.bars[Base], t) = FirstLive(p, start, len)
                     /\ Row(B, t) = Smaller(p.warmup[Base], len - 1)
  BY <1>2, <1>3, SliceLive
<1>6. ASSUME NEW k \in Others
      PROVE  /\ Times(q.bars[k]) /\ q.bars[k] \subseteq p.bars[k] /\ q.warmup[k] \in Nat
             /\ \A v \in B : SeenIn(q.bars[k], v) = SeenIn(p.bars[k], v)
             /\ RowAt(q.bars[k], t) = q.warmup[k]
  <2>1. /\ Times(Slice(p, start, len).bars[k])
        /\ Slice(p, start, len).bars[k] \subseteq p.bars[k]
        /\ Slice(p, start, len).warmup[k] \in Nat
    BY SliceOther
  <2>2. \A v \in Rows(p.bars[Base], start, start + len) :
          /\ \E u \in Slice(p, start, len).bars[k] : u <= v
          /\ SeenIn(Slice(p, start, len).bars[k], v) = SeenIn(p.bars[k], v)
          /\ Row(p.bars[Base], v) = FirstLive(p, start, len) =>
               RowAt(Slice(p, start, len).bars[k], v) = Slice(p, start, len).warmup[k]
    BY SliceOther
  <2>3. t \in Rows(p.bars[Base], start, start + len)
    BY <1>2
  <2>4. RowAt(Slice(p, start, len).bars[k], t) = Slice(p, start, len).warmup[k]
    BY <1>5, <2>2, <2>3
  <2> QED BY <1>1, <1>2, <2>1, <2>2, <2>4
<1>7. \A k \in Sources : /\ k = Base \/ k \in Others
                         /\ p.bars[k] \subseteq f[k].bars
  BY SourceFacts DEF Fits
<1>8. \A k \in Sources : Times(q.bars[k]) /\ q.bars[k] \subseteq f[k].bars /\ q.warmup[k] \in Nat
  BY <1>4, <1>6, <1>7
<1>9. \A k \in Others, v \in q.bars[Base] : SeenIn(q.bars[k], v) = SeenIn(f[k].bars, v)
  BY <1>4, <1>6 DEF Fits
<1>10. /\ t \in q.bars[Base] /\ Row(q.bars[Base], t) = q.warmup[Base]
       /\ \A k \in Others : RowAt(q.bars[k], t) >= q.warmup[k]
  BY <1>4, <1>5, <1>6
<1> QED BY <1>1, <1>8, <1>9, <1>10 DEF Fits

\* From the base row on that has all its warm-up, the rows have that of the
\* other sources.
LEMMA WarmFrom ==
  ASSUME NEW p, NEW f, Fits(p, f), NEW k \in Others, NEW t \in p.bars[Base],
         Row(p.bars[Base], t) >= p.warmup[Base]
  PROVE  RowAt(p.bars[k], t) >= p.warmup[k]
<1>1. PICK v \in p.bars[Base] : /\ Row(p.bars[Base], v) = p.warmup[Base]
                                /\ RowAt(p.bars[k], v) >= p.warmup[k]
  BY DEF Fits
<1>2. Times(p.bars[Base]) /\ v \in Int /\ t \in Int /\ p.warmup[k] \in Nat
  BY SourceFacts DEF Fits, Times
<1>3. v <= t
  <2> SUFFICES ASSUME t < v
               PROVE  FALSE
    BY <1>2
  <2>1. Row(p.bars[Base], t) < Row(p.bars[Base], v) /\ Row(p.bars[Base], t) \in Nat
        /\ Row(p.bars[Base], v) \in Nat
    BY <1>2, RowFacts
  <2> QED BY <1>1, <2>1
<1>4. /\ Times(p.bars[k]) /\ \E u \in p.bars[k] : u <= v
      /\ RowAt(p.bars[k], v) \in Int /\ RowAt(p.bars[k], t) \in Int
  BY RowsSee
<1>5. RowAt(p.bars[k], v) <= RowAt(p.bars[k], t)
  BY <1>2, <1>3, <1>4, SeenRowGrows
<1> QED BY <1>1, <1>2, <1>4, <1>5

LEMMA ActiveFits ==
  ASSUME NEW p, NEW f, Fits(p, f), Buildable(Active(p))
  PROVE  Fits(Active(p), f)
<1>1. PICK q : q = Active(p)
  OBVIOUS
<1>2. \A k \in Sources : /\ k = Base \/ k \in Others
                         /\ q.bars[k] = Rows(p.bars[k], p.warmup[k], Cardinality(p.bars[k]))
                         /\ q.warmup[k] = 0
  BY <1>1, SourceFacts DEF Active
<1>3. ASSUME NEW k \in Sources
      PROVE  /\ Times(p.bars[k]) /\ p.bars[k] \subseteq f[k].bars
             /\ p.warmup[k] \in Nat /\ Cardinality(p.bars[k]) \in Nat
             /\ p.warmup[k] <= Cardinality(p.bars[k])
  BY TimesWithin DEF Fits, Buildable
<1>4. \A k \in Sources : Times(q.bars[k]) /\ q.bars[k] \subseteq p.bars[k]
  BY <1>2, <1>3, RowsFacts
<1>5. ASSUME NEW k \in Others, NEW t \in q.bars[Base]
      PROVE  /\ SeenIn(q.bars[k], t) = SeenIn(p.bars[k], t)
             /\ RowAt(q.bars[k], t) >= 0 /\ t \in p.bars[Base]
  <2>1. /\ k \in Sources /\ Base \in Sources
    BY SourceFacts
  <2>2. t \in p.bars[Base] /\ Row(p.bars[Base], t) >= p.warmup[Base]
    BY <1>2, <1>3, <2>1 DEF Rows
  <2>3. /\ RowAt(p.bars[k], t) >= p.warmup[k]
        /\ t \in Int /\ (\E u \in p.bars[k] : u <= t)
        /\ RowAt(p.bars[k], t) \in 0..Cardinality(p.bars[k]) - 1
    BY <2>2, WarmFrom, RowsSee
  <2>4. PICK a \in Nat, b \in Nat : a = p.warmup[k] /\ b = Cardinality(p.bars[k]) /\ a <= b
    BY <1>3, <2>1
  <2>5. RowAt(p.bars[k], t) \in a..b - 1 /\ q.bars[k] = Rows(p.bars[k], a, b)
        /\ Times(p.bars[k]) /\ b <= Cardinality(p.bars[k])
    BY <1>2, <1>3, <2>1, <2>3, <2>4
  <2>6. /\ SeenIn(q.bars[k], t) = SeenIn(p.bars[k], t)
        /\ RowAt(q.bars[k], t) = RowAt(p.bars[k], t) - a
    BY <2>3, <2>4, <2>5, SeenInRows
  <2> QED BY <2>2, <2>4, <2>5, <2>6
<1>6. PICK t \in p.bars[Base] : Row(p.bars[Base], t) = p.warmup[Base]
  BY DEF Fits
<1>7. t \in q.bars[Base] /\ Row(q.bars[Base], t) = 0
  <2>1. PICK a \in Nat, b \in Nat : a = p.warmup[Base] /\ b = Cardinality(p.bars[Base]) /\ a <= b
    BY <1>3, SourceFacts
  <2>2. Times(p.bars[Base]) /\ t \in Int /\ Row(p.bars[Base], t) < b
    BY <1>3, <2>1, SourceFacts, RowFacts DEF Times
  <2>3. Row(p.bars[Base], t) \in a..b - 1 /\ Row(p.bars[Base], t) \in a..b
    BY <1>6, <2>1, <2>2
  <2>4. Row(Rows(p.bars[Base], a, b), t) = Row(p.bars[Base], t) - a
    BY <2>1, <2>2, <2>3, RowInRows
  <2>5. q.bars[Base] = Rows(p.bars[Base], a, b)
    BY <1>2, <2>1, SourceFacts
  <2> QED BY <1>6, <2>1, <2>3, <2>4, <2>5 DEF Rows
<1>8. \A k \in Sources : Times(q.bars[k]) /\ q.bars[k] \subseteq f[k].bars /\ q.warmup[k] \in Nat
  BY <1>2, <1>3, <1>4
<1>9. \A k \in Others, v \in q.bars[Base] : SeenIn(q.bars[k], v) = SeenIn(f[k].bars, v)
  BY <1>5 DEF Fits
<1>10. /\ Row(q.bars[Base], t) = q.warmup[Base]
       /\ \A k \in Others : RowAt(q.bars[k], t) >= q.warmup[k]
  BY <1>2, <1>5, <1>7, SourceFacts
<1> QED BY <1>1, <1>7, <1>8, <1>9, <1>10 DEF Fits

LEMMA KeptStep == Planned /\ Kept /\ [Next]_vars => Kept'
<1> SUFFICES ASSUME Planned, Kept, [Next]_vars, verdict' = "built"
             PROVE  Fits(pack', fetch')
  BY DEF Kept
<1>1. CASE UNCHANGED <<fetch, pack, verdict>>
  BY <1>1 DEF Kept
<1>2. CASE Finish
  <2>1. Typed /\ Held /\ Asked = {} /\ fetch' = fetch
    BY <1>2 DEF Planned, Finish
  <2>2. Buildable(Finished) /\ pack' = Finished
    BY <1>2, <2>1, StepFinish
  <2> QED BY <2>1, <2>2, FinishedFits
<1>3. CASE CutPack
  <2>1. PICK start \in 0..Cardinality(pack.bars[Base]), len \in 1..Cardinality(pack.bars[Base]) :
          /\ Cuttable(pack, start, len) /\ Buildable(Slice(pack, start, len))
          /\ pack' = Slice(pack, start, len)
    BY <1>3 DEF CutPack
  <2>2. Fits(pack, fetch) /\ fetch' = fetch
    BY <1>3 DEF Kept, CutPack
  <2>3. start \in Nat /\ len \in Nat
    OBVIOUS
  <2> QED BY <2>1, <2>2, <2>3, SliceFits
<1>4. CASE ExtractActive
  <2>1. /\ Fits(pack, fetch) /\ fetch' = fetch
        /\ Buildable(Active(pack)) /\ pack' = Active(pack)
    BY <1>4 DEF Kept, ExtractActive
  <2> QED BY <2>1, ActiveFits
<1>5. ASSUME Tick \/ Ingest
      PROVE  FALSE
  <2>1. CASE Tick
    BY <2>1 DEF Tick
  <2>2. CASE NoAnswer \/ BaseShort
    BY <2>2 DEF NoAnswer, BaseShort
  <2>3. CASE CompleteBase
    <3>1. verdict = "asking" /\ verdict' = verdict
      BY <2>3 DEF CompleteBase, Asking
    <3> QED BY <3>1
  <2>4. ASSUME NEW k \in Sources,
               \/ Unanchored(k)
               \/ CoverTail(k)
               \/ CoverHead(k)
               \/ WarmUp(k)
               \/ CompleteSource(k)
        PROVE  FALSE
    <3>1. verdict = "asking"
      BY <2>4 DEF Unanchored, CoverTail, CoverHead, WarmUp, CompleteSource, Asking
    <3>2. verdict' \in {verdict, "rounds", "anchor", "uncovered"}
      <4>1. CASE Unanchored(k)
        BY <4>1 DEF Unanchored
      <4>2. CASE CoverTail(k)
        BY <4>2 DEF CoverTail, AskLater, AskAgain
      <4>3. CASE CoverHead(k)
        BY <4>3 DEF CoverHead, AskEarlier, AskAgain
      <4>4. CASE WarmUp(k)
        BY <4>4 DEF WarmUp, AskEarlier, AskAgain
      <4>5. CASE CompleteSource(k)
        BY <4>5 DEF CompleteSource
      <4> QED BY <2>4, <4>1, <4>2, <4>3, <4>4, <4>5
    <3> QED BY <3>1, <3>2
  <2> QED BY <1>5, <2>1, <2>2, <2>3, <2>4 DEF Ingest
<1> QED BY <1>1, <1>2, <1>3, <1>4, <1>5 DEF Next, vars

\* Where bars are nested the bar a base row of a complete plan sees has not
\* ended when the row opens.
LEMMA NestedSight ==
  ASSUME Typed, Held, Asked = {}, Nested, NEW k \in Others, NEW t \in fetch[Base].bars
  PROVE  SeenIn(fetch[k].bars, t) + Interval[k] > t
<1>1. /\ k \in Sources /\ Base \in Sources /\ Interval[k] \in Nat \ {0}
      /\ Times(input.history[k]) /\ Spaced(input.history[k], Interval[k])
  BY InputFacts
<1>2. PICK E, L, s : /\ E = Earliest(fetch[k].bars) /\ L = Latest(fetch[k].bars)
                     /\ s = SeenIn(fetch[k].bars, t)
  OBVIOUS
<1>3. /\ Times(fetch[Base].bars) /\ fetch[Base].bars \subseteq input.history[Base]
      /\ Times(fetch[k].bars) /\ fetch[k].bars \subseteq input.history[k]
      /\ \E u \in fetch[k].bars : u <= Earliest(fetch[Base].bars)
      /\ Covers(fetch[k].bars, Earliest(fetch[Base].bars), Latest(fetch[Base].bars), Interval[k])
      /\ Served(k)
  BY <1>1, FinishedFacts
<1>4. /\ fetch[k].bars # {} /\ E <= Earliest(fetch[Base].bars)
      /\ L + Interval[k] > Latest(fetch[Base].bars)
      /\ \A v \in input.history[k] : E <= v /\ v <= L => v \in fetch[k].bars
  BY <1>2, <1>3 DEF Covers, Served
<1>5. /\ E \in fetch[k].bars /\ E \in Int /\ L \in fetch[k].bars /\ L \in Int
      /\ \A v \in fetch[k].bars : v <= L
      /\ t \in Int /\ Earliest(fetch[Base].bars) \in Int /\ Earliest(fetch[Base].bars) <= t
      /\ Latest(fetch[Base].bars) \in Int /\ t <= Latest(fetch[Base].bars)
  BY <1>2, <1>3, <1>4, EarliestOf, LatestOf DEF Times
<1>6. E <= t
  BY <1>4, <1>5
<1>7. s \in fetch[k].bars /\ s \in Int /\ \A v \in fetch[k].bars : v <= t => v <= s
  BY <1>2, <1>3, <1>5, <1>6, SeenFacts
<1>8. PICK u \in input.history[k] : u <= t /\ t < u + Interval[k]
  BY <1>3 DEF Nested
<1>9. u \in Int /\ E \in input.history[k]
  BY <1>1, <1>3, <1>5 DEF Times
<1>10. E <= u
  <2> SUFFICES ASSUME u < E
               PROVE  FALSE
    BY <1>5, <1>9
  <2>1. E - u >= Interval[k]
    BY <1>1, <1>9 DEF Spaced
  <2> QED BY <1>1, <1>5, <1>6, <1>8, <1>9, <2>1
<1>11. CASE u <= L
  <2>1. u <= s
    BY <1>4, <1>7, <1>8, <1>10, <1>11
  <2> QED BY <1>1, <1>2, <1>5, <1>7, <1>8, <1>9, <2>1
<1>12. CASE L < u
  <2>1. L <= s
    BY <1>5, <1>7, <1>8, <1>9, <1>12
  <2> QED BY <1>1, <1>2, <1>4, <1>5, <1>7, <2>1
<1> QED BY <1>5, <1>9, <1>11, <1>12

\* A cut of two rows or more that reaches past the warm-up is never refused.
LEMMA CutsSucceed ==
  ASSUME NEW p, NEW f, Fits(p, f), NEW start \in Nat, NEW len \in Nat,
         len >= 2, len > p.warmup[Base], start + len <= Cardinality(p.bars[Base]),
         \A k \in Others, t \in p.bars[Base] : SeenIn(p.bars[k], t) + Interval[k] > t
  PROVE  Cuttable(p, start, len) /\ Buildable(Slice(p, start, len))
<1>1. PICK q : q = Slice(p, start, len)
  OBVIOUS
<1>2. PICK B : B = Rows(p.bars[Base], start, start + len)
  OBVIOUS
<1>3. p.warmup[Base] \in Nat /\ Base \in Sources /\ len > 0
  BY SourceFacts DEF Fits
<1>4. Smaller(p.warmup[Base], len - 1) = p.warmup[Base]
  BY <1>3 DEF Smaller
<1>5. PICK t \in p.bars[Base] : t \in B /\ Row(p.bars[Base], t) = FirstLive(p, start, len)
  <2>1. \E t \in Rows(p.bars[Base], start, start + len) :
          t \in p.bars[Base] /\ Row(p.bars[Base], t) = FirstLive(p, start, len)
    BY <1>3, SliceLive
  <2> QED BY <1>2, <2>1
<1>6. Cuttable(p, start, len)
  <2> SUFFICES ASSUME NEW k \in Others
               PROVE  Projects([mapping |-> Mapping(p, k)], Window(p, start, len), p.warmup[k])
    BY DEF Cuttable
  <2>1. Row(p.bars[Base], t) >= p.warmup[Base]
    BY <1>3, <1>4, <1>5 DEF FirstLive
  <2>2. RowAt(p.bars[k], t) >= p.warmup[k] /\ RowAt(p.bars[k], t) \in Int
    BY <2>1, WarmFrom, RowsSee
  <2>3. MapOf([mapping |-> Mapping(p, k)], FirstLive(p, start, len)) = RowAt(p.bars[k], t)
    BY <1>5, MapsToSeen
  <2>4. Window(p, start, len).active[1] = FirstLive(p, start, len)
    BY DEF Window, FirstLive
  <2> QED BY <2>2, <2>3, <2>4, InputAssumption DEF Projects
<1>7. /\ q.bars[Base] = B /\ q.warmup[Base] = p.warmup[Base]
      /\ Times(B) /\ B \subseteq p.bars[Base] /\ Cardinality(B) = len
  <2>1. /\ Slice(p, start, len).bars[Base] = Rows(p.bars[Base], start, start + len)
        /\ Slice(p, start, len).warmup[Base] = Smaller(p.warmup[Base], len - 1)
    BY <1>3, SliceBase
  <2>2. /\ Times(Rows(p.bars[Base], start, start + len))
        /\ Rows(p.bars[Base], start, start + len) \subseteq p.bars[Base]
        /\ Cardinality(Rows(p.bars[Base], start, start + len)) = len
    BY <1>3, SliceBase
  <2> QED BY <1>1, <1>2, <1>4, <2>1, <2>2
<1>8. ASSUME NEW k \in Others
      PROVE  /\ Times(q.bars[k]) /\ q.bars[k] \subseteq p.bars[k]
             /\ q.warmup[k] <= Cardinality(q.bars[k])
             /\ \A v \in B : /\ \E u \in q.bars[k] : u <= v
                             /\ SeenIn(q.bars[k], v) = SeenIn(p.bars[k], v)
  <2>1. \A v \in Rows(p.bars[Base], start, start + len) :
          /\ \E u \in Slice(p, start, len).bars[k] : u <= v
          /\ SeenIn(Slice(p, start, len).bars[k], v) = SeenIn(p.bars[k], v)
          /\ Row(p.bars[Base], v) = FirstLive(p, start, len) =>
               RowAt(Slice(p, start, len).bars[k], v) = Slice(p, start, len).warmup[k]
    BY <1>6, SliceOther
  <2>2. /\ Times(Slice(p, start, len).bars[k]) /\ Slice(p, start, len).bars[k] \subseteq p.bars[k]
        /\ Slice(p, start, len).warmup[k] <= Cardinality(Slice(p, start, len).bars[k])
    BY <1>6, SliceOther
  <2>3. /\ Times(q.bars[k]) /\ q.bars[k] \subseteq p.bars[k]
        /\ q.warmup[k] <= Cardinality(q.bars[k])
    BY <1>1, <2>2
  <2>4. ASSUME NEW v \in B
        PROVE  (\E u \in q.bars[k] : u <= v) /\ SeenIn(q.bars[k], v) = SeenIn(p.bars[k], v)
    BY <1>1, <1>2, <2>1
  <2> QED BY <2>3, <2>4
<1>9. \A k \in Sources : /\ k = Base \/ k \in Others
                         /\ Spaced(p.bars[k], Interval[k]) /\ Interval[k] >= Interval[Base]
  BY SourceFacts DEF Fits, Buildable
<1>10. ASSUME NEW k \in Sources
       PROVE  /\ Spaced(q.bars[k], Interval[k]) /\ Interval[k] >= Interval[Base]
              /\ q.warmup[k] <= Cardinality(q.bars[k])
  <2>1. q.bars[k] \subseteq p.bars[k]
    BY <1>7, <1>8, <1>9
  <2>2. Spaced(q.bars[k], Interval[k])
    BY <1>9, <2>1 DEF Spaced
  <2>3. q.warmup[Base] <= Cardinality(q.bars[Base])
    BY <1>3, <1>7
  <2> QED BY <1>8, <1>9, <2>2, <2>3
<1>11. ASSUME NEW k \in Others
       PROVE  Covers(q.bars[k], Earliest(B), Latest(B), Interval[k])
  <2>1. /\ Earliest(B) \in B /\ Earliest(B) \in Int /\ Latest(B) \in B /\ Latest(B) \in Int
    BY <1>5, <1>7, EarliestOf, LatestOf
  <2>2. PICK u \in q.bars[k] : u <= Earliest(B)
    BY <1>8, <2>1
  <2>3. /\ Earliest(q.bars[k]) \in Int /\ \A v \in q.bars[k] : Earliest(q.bars[k]) <= v /\ v \in Int
        /\ Latest(q.bars[k]) \in Int /\ \A v \in q.bars[k] : v <= Latest(q.bars[k])
    BY <1>8, <2>2, EarliestOf, LatestOf DEF Times
  <2>4. Earliest(q.bars[k]) <= Earliest(B)
    BY <2>1, <2>2, <2>3
  <2>5. PICK s : s = SeenIn(q.bars[k], Latest(B))
    OBVIOUS
  <2>6. s \in q.bars[k] /\ s + Interval[k] > Latest(B)
    <3>1. \E v \in q.bars[k] : v <= Latest(B)
      BY <1>8, <2>1
    <3>2. s \in q.bars[k]
      BY <1>8, <2>1, <2>5, <3>1, SeenFacts
    <3>3. Latest(B) \in p.bars[Base] /\ s = SeenIn(p.bars[k], Latest(B))
      BY <1>7, <1>8, <2>1, <2>5
    <3> QED BY <3>2, <3>3
  <2>7. Interval[k] \in Nat
    BY SourceFacts
  <2>8. Latest(q.bars[k]) + Interval[k] > Latest(B)
    BY <2>1, <2>3, <2>6, <2>7
  <2> QED BY <2>2, <2>4, <2>8 DEF Covers
<1>12. Buildable(q)
  BY <1>7, <1>10, <1>11 DEF Buildable
<1> QED BY <1>1, <1>6, <1>12

\* A base row of a pack, whatever was cut off it, sees the bar of another
\* source that it saw in the plan; and a cut of a pack of nested bars is never
\* refused for what it leaves of the other sources.
THEOREM CutsKeepTheirSight == Spec => []CutsKeepSight
<1>1. Init => Kept
  BY DEF Init, Kept
<1>2. ASSUME Planned, Kept
      PROVE  CutsKeepSight
  <2> SUFFICES ASSUME verdict = "built"
               PROVE  /\ \A k \in Others, t \in pack.bars[Base] :
                           Seen(pack, k, t) = Seen(Finished, k, t)
                      /\ Nested => \A start \in 0..Cardinality(pack.bars[Base]),
                                      len \in 2..Cardinality(pack.bars[Base]) :
                           start + len <= Cardinality(pack.bars[Base]) /\ len > pack.warmup[Base] =>
                             Cuttable(pack, start, len) /\ Buildable(Slice(pack, start, len))
    BY DEF CutsKeepSight
  <2>1. Fits(pack, fetch) /\ Typed /\ Held /\ Asked = {}
    BY <1>2 DEF Planned, Verdicts, Kept
  <2>2. \A k \in Others, t \in pack.bars[Base] : SeenIn(pack.bars[k], t) = SeenIn(fetch[k].bars, t)
    BY <2>1 DEF Fits
  <2>3. \A k \in Others, t \in pack.bars[Base] : Seen(pack, k, t) = Seen(Finished, k, t)
    <3>1. \A k \in Others : Finished.bars[k] = fetch[k].bars
      BY SourceFacts DEF Finished
    <3> QED BY <2>2, <3>1 DEF Seen, SeenIn
  <2>4. ASSUME Nested, NEW start \in 0..Cardinality(pack.bars[Base]),
               NEW len \in 2..Cardinality(pack.bars[Base]),
               start + len <= Cardinality(pack.bars[Base]), len > pack.warmup[Base]
        PROVE  Cuttable(pack, start, len) /\ Buildable(Slice(pack, start, len))
    <3>1. \A t \in pack.bars[Base] : t \in fetch[Base].bars
      BY <2>1, SourceFacts DEF Fits
    <3>2. \A k \in Others, t \in pack.bars[Base] : SeenIn(pack.bars[k], t) + Interval[k] > t
      BY <2>1, <2>2, <2>4, <3>1, NestedSight
    <3>3. start \in Nat /\ len \in Nat /\ len >= 2
      OBVIOUS
    <3> QED BY <2>1, <2>4, <3>2, <3>3, CutsSucceed
  <2> QED BY <2>3, <2>4
<1>3. Planned /\ Kept => CutsKeepSight
  BY <1>2
<1> QED BY <1>1, <1>3, AlwaysPlanned, KeptStep, PTL DEF Spec

-----------------------------------------------------------------------------
\* What a row of a signal reads

PackOK(p) ==
  p \in Pack /\ (\A k \in Sources : IsFiniteSet(p.bars[k])) /\ Buildable(p)

Moment(p, i) == BarAt(p.bars[Base], i - 1)

\* The base rows of a pack are numbered in the order of their times.
LEMMA MomentFacts ==
  ASSUME NEW p, PackOK(p)
  PROVE  /\ Cardinality(p.bars[Base]) \in Nat
         /\ \A k \in Sources : Times(p.bars[k]) /\ Spaced(p.bars[k], Interval[k])
                               /\ Interval[k] \in Nat \ {0} /\ Interval[k] >= Interval[Base]
         /\ \A i \in 1..Cardinality(p.bars[Base]) :
              Moment(p, i) \in p.bars[Base] /\ Moment(p, i) \in Int
         /\ \A i \in 1..Cardinality(p.bars[Base]) : \A m \in 1..i : Moment(p, m) <= Moment(p, i)
<1> DEFINE S == p.bars[Base]
           n == Cardinality(S)
<1>1. \A k \in Sources : Times(p.bars[k]) /\ Spaced(p.bars[k], Interval[k])
                         /\ Interval[k] \in Nat \ {0} /\ Interval[k] >= Interval[Base]
  BY SourceFacts DEF PackOK, Pack, Buildable, Times
<1>2. Times(S) /\ n \in Nat
  BY <1>1, SourceFacts, TimesWithin
<1> HIDE DEF n, S
<1>3. ASSUME NEW i \in 1..n
      PROVE  /\ Moment(p, i) \in S /\ Moment(p, i) \in Int
             /\ Row(S, Moment(p, i)) = i - 1
  <2>1. i - 1 \in 0..n - 1
    BY <1>2
  <2> QED BY <1>2, <2>1, BarAtRow DEF Moment, n, S
<1>4. ASSUME NEW i \in 1..n, NEW m \in 1..i
      PROVE  Moment(p, m) <= Moment(p, i)
  <2>1. m \in 1..n /\ m - 1 <= i - 1
    BY <1>2
  <2>2. ~ Row(S, Moment(p, i)) < Row(S, Moment(p, m))
    BY <1>2, <1>3, <2>1
  <2>3. ~ Moment(p, i) < Moment(p, m)
    BY <1>2, <1>3, <2>1, <2>2, RowFacts
  <2> QED BY <1>3, <2>1, <2>3
<1> QED BY <1>1, <1>2, <1>3, <1>4 DEF n, S

\* Every base row sees a bar of every source, and maps to its row.
LEMMA MappingSees ==
  ASSUME NEW p, PackOK(p), NEW k \in Sources, NEW i \in 1..Cardinality(p.bars[Base])
  PROVE  LET seen == SeenIn(p.bars[k], Moment(p, i))
         IN  /\ seen \in p.bars[k] /\ seen \in Int /\ seen <= Moment(p, i)
             /\ Mapping(p, k)[i] = Row(p.bars[k], seen)
             /\ Mapping(p, k)[i] \in 0..Cardinality(p.bars[k]) - 1
<1> DEFINE S == p.bars[k]
           t == Moment(p, i)
<1>1. Times(S) /\ Times(p.bars[Base]) /\ t \in p.bars[Base] /\ t \in Int
  BY MomentFacts, SourceFacts
<1>2. \E u \in S : u <= t
  <2>1. CASE k = Base
    BY <1>1, <2>1
  <2>2. CASE k \in Others
    <3>1. S # {} /\ Earliest(S) <= Earliest(p.bars[Base])
      BY <2>2 DEF PackOK, Buildable, Covers
    <3>2. /\ Earliest(S) \in S /\ Earliest(S) \in Int
          /\ Earliest(p.bars[Base]) \in Int /\ Earliest(p.bars[Base]) <= t
      BY <1>1, <3>1, EarliestOf
    <3> QED BY <1>1, <3>1, <3>2
  <2> QED BY <2>1, <2>2, SourceFacts
<1>3. /\ SeenIn(S, t) \in S /\ SeenIn(S, t) \in Int /\ SeenIn(S, t) <= t
      /\ RowAt(S, t) = Row(S, SeenIn(S, t))
  BY <1>1, <1>2, SeenFacts
<1>4. Row(S, SeenIn(S, t)) \in 0..Cardinality(S) - 1
  BY <1>1, <1>3, BarAtUnique
<1>5. Mapping(p, k)[i] = RowAt(S, t)
  BY DEF Mapping, Moment
<1> QED BY <1>3, <1>4, <1>5

\* The row of another source a row reads, at most the one it sees.
Place(p, k, m, lag) == Mapping(p, k)[m] - lag + 1

LEMMA PlaceFacts ==
  ASSUME NEW p, PackOK(p), NEW k \in Sources, NEW m \in 1..Cardinality(p.bars[Base]),
         NEW lag \in Nat, Mapping(p, k)[m] >= lag
  PROVE  /\ Place(p, k, m, lag) \in 1..Cardinality(p.bars[k])
         /\ LET t == BarAt(p.bars[k], Place(p, k, m, lag) - 1)
            IN  /\ t \in p.bars[k] /\ t \in Int /\ t <= SeenIn(p.bars[k], Moment(p, m))
                /\ lag > 0 => t + Interval[k] <= SeenIn(p.bars[k], Moment(p, m))
<1>1. PICK S, seen, a, r : /\ S = p.bars[k] /\ seen = SeenIn(S, Moment(p, m))
                           /\ a = Mapping(p, k)[m] /\ r = a - lag
  OBVIOUS
<1>2. /\ Times(S) /\ Spaced(S, Interval[k]) /\ Interval[k] \in Nat \ {0}
      /\ Cardinality(S) \in Nat
  BY <1>1, MomentFacts, TimesWithin
<1>3. seen \in S /\ seen \in Int /\ a = Row(S, seen) /\ a \in 0..Cardinality(S) - 1
  BY <1>1, MappingSees
<1>4. r \in 0..Cardinality(S) - 1 /\ r <= a /\ (lag > 0 => r < a)
  BY <1>1, <1>2, <1>3
<1>5. PICK t : t = BarAt(S, r) /\ t \in S /\ t \in Int /\ Row(S, t) = r
  BY <1>2, <1>4, BarAtRow
<1>6. t <= seen
  <2>1. ~ seen < t
    BY <1>2, <1>3, <1>4, <1>5, RowFacts
  <2> QED BY <1>3, <1>5, <2>1
<1>7. lag > 0 => t < seen
  BY <1>3, <1>4, <1>5, <1>6
<1>8. lag > 0 => t + Interval[k] <= seen
  <2> SUFFICES ASSUME lag > 0
               PROVE  t + Interval[k] <= seen
    OBVIOUS
  <2>1. seen - t >= Interval[k]
    BY <1>2, <1>3, <1>5, <1>7 DEF Spaced
  <2> QED BY <1>2, <1>3, <1>5, <2>1
<1>9. Place(p, k, m, lag) = r + 1 /\ Place(p, k, m, lag) - 1 = r
  <2>1. Place(p, k, m, lag) = a - lag + 1
    BY <1>1 DEF Place
  <2>2. a \in Int /\ r = a - lag
    BY <1>1, <1>3
  <2> QED BY <2>1, <2>2
<1>10. BarAt(p.bars[k], Place(p, k, m, lag) - 1) = t /\ seen = SeenIn(p.bars[k], Moment(p, m))
  BY <1>1, <1>5, <1>9
<1>11. Place(p, k, m, lag) \in 1..Cardinality(p.bars[k])
  BY <1>1, <1>2, <1>4, <1>9
<1> QED BY <1>1, <1>5, <1>6, <1>8, <1>10, <1>11

\* What a row reads is over when the row is, and when a later one is.
LEMMA ReadIsOver ==
  ASSUME PackOK(call.pack), ~ InPlace, NEW k \in Sources,
         NEW i \in 1..Cardinality(call.pack.bars[Base]), NEW m \in 1..i,
         NEW offset \in Nat, Mapping(call.pack, k)[m] >= Lag(call, k, offset)
  PROVE  /\ Lag(call, k, offset) \in Nat
         /\ Place(call.pack, k, m, Lag(call, k, offset)) \in 1..Cardinality(call.pack.bars[k])
         /\ Over(k, Place(call.pack, k, m, Lag(call, k, offset)), i)
<1>1. PICK p, lag : p = call.pack /\ lag = Lag(call, k, offset)
  OBVIOUS
<1>2. /\ lag \in Nat
      /\ Natural(call, k) \/ lag > 0
  BY <1>1 DEF Lag
<1>3. /\ i \in Int /\ m \in 1..Cardinality(p.bars[Base])
      /\ Moment(p, i) \in Int /\ Moment(p, m) \in Int /\ Moment(p, m) <= Moment(p, i)
      /\ Interval[k] \in Nat \ {0} /\ Interval[Base] \in Nat \ {0} /\ Interval[k] >= Interval[Base]
  BY <1>1, MomentFacts, SourceFacts
<1>4. PICK t : /\ t = BarAt(p.bars[k], Place(p, k, m, lag) - 1)
               /\ t \in Int /\ t <= Moment(p, m)
               /\ lag > 0 => t + Interval[k] <= Moment(p, m)
  <2>1. SeenIn(p.bars[k], Moment(p, m)) \in Int /\ SeenIn(p.bars[k], Moment(p, m)) <= Moment(p, m)
    BY <1>1, <1>3, MappingSees
  <2>2. PICK t : /\ t = BarAt(p.bars[k], Place(p, k, m, lag) - 1)
                 /\ t \in Int /\ t <= SeenIn(p.bars[k], Moment(p, m))
                 /\ lag > 0 => t + Interval[k] <= SeenIn(p.bars[k], Moment(p, m))
    BY <1>1, <1>2, <1>3, PlaceFacts
  <2> QED BY <1>3, <2>1, <2>2
<1>5. Natural(call, k) => Interval[k] = Interval[Base]
  BY <1>3, SourceFacts DEF InPlace
<1>6. t + Interval[k] <= Moment(p, i) + Interval[Base]
  BY <1>2, <1>3, <1>4, <1>5
<1>7. TimeOf(k, Place(p, k, m, lag)) = t /\ TimeOf(Base, i) = Moment(p, i)
  BY <1>1, <1>4 DEF TimeOf, BarAt, Moment
<1>8. Place(p, k, m, lag) \in 1..Cardinality(p.bars[k])
  BY <1>1, <1>2, <1>3, PlaceFacts
<1> QED BY <1>1, <1>2, <1>6, <1>7, <1>8 DEF Over

-----------------------------------------------------------------------------
\* Operands

Numbered(s) == Len(s) \in Nat /\ DOMAIN s = 1..Len(s)

LEMMA MadeList ==
  ASSUME NEW n \in Nat, NEW s, s = [i \in 1..n |-> s[i]]
  PROVE  Len(s) = n /\ Numbered(s)
<1> DEFINE X == {s[i] : i \in 1..n}
<1>1. s \in [1..n -> X]
  OBVIOUS
<1> HIDE DEF X
<1>2. s \in Seq(X)
  BY <1>1
<1>3. Len(s) \in Nat /\ DOMAIN s = 1..Len(s)
  BY <1>2
<1>4. Len(s) = n
  BY <1>3
<1> QED BY <1>3, <1>4 DEF Numbered

LEMMA OffsetFacts ==
  ASSUME NEW x, x.kind = "data", WellFormed(x)
  PROVE  /\ Numbered(Offset(x.offset).at)
         /\ \A j \in DOMAIN Offset(x.offset).at : Offset(x.offset).at[j] \in Nat
<1>1. PICK at : at = x.offset.at /\ at \in Seq(Nat)
  BY DEF WellFormed
<1>2. /\ Len(at) \in Nat /\ DOMAIN at = 1..Len(at) /\ \A j \in 1..Len(at) : at[j] \in Nat
      /\ Len(at) >= 1
      /\ x.offset.form = "range" => Len(at) >= 2
  BY <1>1 DEF WellFormed
<1>3. CASE x.offset.form = "range"
  <2>1. PICK n \in Int : n = at[2] - at[1] + 1
    BY <1>2, <1>3
  <2>2. PICK q : q = [i \in 1..n |-> at[1] + i - 1]
    OBVIOUS
  <2>3. Offset(x.offset).at = q
    BY <1>1, <1>3, <2>1, <2>2 DEF Offset
  <2>4. \A i \in 1..n : q[i] \in Nat
    BY <1>2, <2>2
  <2>5. PICK k \in Nat : 1..n = 1..k
    <3>1. CASE n >= 0
      BY <3>1
    <3>2. CASE ~ n >= 0
      <4>1. 1..n = 1..0
        BY <3>2
      <4> QED BY <4>1
    <3> QED BY <3>1, <3>2
  <2>6. Numbered(q)
    BY <2>2, <2>5, MadeList
  <2> QED BY <2>2, <2>3, <2>4, <2>6
<1>4. CASE x.offset.form # "range"
  <2>1. Offset(x.offset).at = at
    BY <1>1, <1>4 DEF Offset
  <2> QED BY <1>2, <2>1 DEF Numbered
<1> QED BY <1>3, <1>4

CallOK(in) ==
  /\ PackOK(in.pack)
  /\ HasColumns(in.source, in.pack) /\ HasColumns(in.indicators, in.pack)
  /\ \A name \in DOMAIN in.params : in.params[name] \in Value

\* What a row of a column that was shifted and mapped shows.
LEMMA ReadFacts ==
  ASSUME NEW in, CallOK(in), NEW k \in Sources, NEW name, NEW offset \in Nat,
         Column(in, k, name) \in [1..Cardinality(in.pack.bars[k]) -> Value]
  PROVE  /\ Read(in, k, name, offset) \in [BaseRows(in) -> Value]
         /\ \A m \in BaseRows(in) :
              Read(in, k, name, offset)[m]
                = IF Mapping(in.pack, k)[m] >= Lag(in, k, offset)
                  THEN Column(in, k, name)[Place(in.pack, k, m, Lag(in, k, offset))]
                  ELSE NaN
<1>1. PICK p, lag, column : /\ p = in.pack /\ lag = Lag(in, k, offset)
                            /\ column = Column(in, k, name)
  OBVIOUS
<1>2. lag \in Nat /\ PackOK(p) /\ BaseRows(in) = 1..Cardinality(p.bars[Base])
  BY <1>1 DEF Lag, CallOK, BaseRows
<1>3. DOMAIN Mapping(p, k) = BaseRows(in)
  BY <1>2 DEF Mapping
<1>4. Read(in, k, name, offset)
        = [m \in BaseRows(in) |-> IF Mapping(p, k)[m] >= lag
                                  THEN column[Place(p, k, m, lag)] ELSE NaN]
  BY <1>1, <1>3 DEF Read, Shifted, Place
<1>5. ASSUME NEW m \in BaseRows(in), Mapping(p, k)[m] >= lag
      PROVE  column[Place(p, k, m, lag)] \in Value
  <2>1. Place(p, k, m, lag) \in 1..Cardinality(p.bars[k])
    BY <1>2, <1>5, PlaceFacts
  <2> QED BY <1>1, <2>1
<1>6. NaN \in Value
  BY DEF Value
<1> QED BY <1>1, <1>4, <1>5, <1>6

LEMMA ColumnFacts ==
  ASSUME NEW in, CallOK(in), NEW x, x.kind = "data", Resolves(in, x)
  PROVE  /\ SourceOf(x) \in Sources
         /\ Column(in, SourceOf(x), x.name)
              \in [1..Cardinality(in.pack.bars[SourceOf(x)]) -> Value]
<1>1. PICK k, name : k = SourceOf(x) /\ name = x.name
  OBVIOUS
<1>2. k \in DOMAIN in.source /\ (Has(in.source, k, name) \/ Has(in.indicators, k, name))
  BY <1>1 DEF Resolves
<1>3. k \in Sources
  BY <1>2 DEF CallOK, HasColumns
<1>4. Column(in, k, name) \in [1..Cardinality(in.pack.bars[k]) -> Value]
  BY <1>2 DEF CallOK, HasColumns, Column, Has
<1> QED BY <1>1, <1>3, <1>4

Kinds == {"data", "param", "scalar", "none"}

\* The series of an operand of a comparison.
LEMMA SeriesFacts ==
  ASSUME NEW in, CallOK(in), NEW x, WellFormed(x), x.kind \in Kinds, Resolves(in, x)
  PROVE  /\ Numbered(Series(in, x))
         /\ \A j \in DOMAIN Series(in, x) :
              /\ DOMAIN Series(in, x)[j] = BaseRows(in)
              /\ x.kind # "none" => Series(in, x)[j] \in [BaseRows(in) -> Value]
<1>1. CASE x.kind = "data"
  <2>1. PICK k, at : k = SourceOf(x) /\ at = Offset(x.offset).at
    OBVIOUS
  <2>2. Numbered(at) /\ \A j \in DOMAIN at : at[j] \in Nat
    BY <1>1, <2>1, OffsetFacts
  <2>3. Series(in, x) = [j \in DOMAIN at |-> Read(in, k, x.name, at[j])]
    BY <1>1, <2>1 DEF Series
  <2>4. Numbered(Series(in, x))
    BY <2>2, <2>3, MadeList DEF Numbered
  <2>5. \A j \in DOMAIN at : Read(in, k, x.name, at[j]) \in [BaseRows(in) -> Value]
    BY <1>1, <2>1, <2>2, ColumnFacts, ReadFacts
  <2> QED BY <2>3, <2>4, <2>5
<1>2. CASE x.kind = "param"
  <2>1. Series(in, x) = <<Constant(in, in.params[x.name])>>
    BY <1>2 DEF Series
  <2>2. in.params[x.name] \in Value
    BY <1>2 DEF Resolves, CallOK
  <2> QED BY <2>1, <2>2 DEF Constant, Numbered
<1>3. CASE x.kind \in {"scalar", "none"}
  <2>1. Series(in, x) = <<Constant(in, x.value)>>
    BY <1>3 DEF Series
  <2>2. x.kind = "scalar" => x.value \in Value
    BY DEF WellFormed
  <2> QED BY <1>3, <2>1, <2>2 DEF Constant, Numbered
<1> QED BY <1>1, <1>2, <1>3 DEF Kinds

-----------------------------------------------------------------------------
\* What a row reads in a call of which it does not know the bars that are open

\* Two series of n rows that are alike up to row i.
AlikeTo(a, b, n, i) ==
  DOMAIN a = 1..n /\ DOMAIN b = 1..n /\ \A m \in 1..i : a[m] = b[m]

LEMMA UnseenFields ==
  ASSUME call \in Calls, NEW i
  PROVE  /\ Unseen(i).pack = call.pack /\ Unseen(i).params = call.params
         /\ Unseen(i).template = call.template
         /\ Unseen(i).source = Scrambled(call.source, i)
         /\ Unseen(i).indicators = Scrambled(call.indicators, i)
BY SignalsAssumption DEF Unseen

LEMMA ScrambledFacts ==
  ASSUME NEW columns_, NEW i, HasColumns(columns_, call.pack)
  PROVE  /\ HasColumns(Scrambled(columns_, i), call.pack)
         /\ DOMAIN Scrambled(columns_, i) = DOMAIN columns_
         /\ \A k \in DOMAIN columns_ :
              /\ DOMAIN Scrambled(columns_, i)[k] = DOMAIN columns_[k]
              /\ \A name \in DOMAIN columns_[k] : \A row \in 1..Cardinality(call.pack.bars[k]) :
                   Over(k, row, i) =>
                     Scrambled(columns_, i)[k][name][row] = columns_[k][name][row]
<1>1. NaN \in Value
  BY DEF Value
<1> QED BY <1>1 DEF HasColumns, Scrambled

LEMMA CallFacts ==
  ASSUME call \in Calls
  PROVE  /\ CallOK(call)
         /\ \A i : CallOK(Unseen(i))
         /\ \A i, x : Resolves(call, x) => Resolves(Unseen(i), x)
         /\ \A i : BaseRows(Unseen(i)) = BaseRows(call)
<1>1. CallOK(call)
  BY SignalsAssumption DEF CallOK, PackOK
<1>2. ASSUME NEW i
      PROVE  CallOK(Unseen(i)) /\ BaseRows(Unseen(i)) = BaseRows(call)
  BY <1>1, UnseenFields, ScrambledFacts DEF CallOK, BaseRows
<1>3. ASSUME NEW i, NEW x, Resolves(call, x)
      PROVE  Resolves(Unseen(i), x)
  <2>1. HasColumns(call.source, call.pack) /\ HasColumns(call.indicators, call.pack)
    BY <1>1 DEF CallOK
  <2>2. \A k, name : /\ Has(call.source, k, name) => Has(Unseen(i).source, k, name)
                     /\ Has(call.indicators, k, name) => Has(Unseen(i).indicators, k, name)
    BY <2>1, UnseenFields, ScrambledFacts DEF Has
  <2>3. DOMAIN Unseen(i).source = DOMAIN call.source
    BY <2>1, UnseenFields, ScrambledFacts
  <2> QED BY <1>3, <2>2, <2>3, UnseenFields DEF Resolves
<1> QED BY <1>1, <1>2, <1>3

\* The value a row reads is known to it.
LEMMA ColumnKnown ==
  ASSUME call \in Calls, NEW x, x.kind = "data", Resolves(call, x), NEW i,
         NEW row \in 1..Cardinality(call.pack.bars[SourceOf(x)]), Over(SourceOf(x), row, i)
  PROVE  Column(Unseen(i), SourceOf(x), x.name)[row] = Column(call, SourceOf(x), x.name)[row]
<1>1. PICK k, name : k = SourceOf(x) /\ name = x.name
  OBVIOUS
<1>2. /\ HasColumns(call.source, call.pack) /\ HasColumns(call.indicators, call.pack)
      /\ Has(call.source, k, name) \/ Has(call.indicators, k, name)
  BY <1>1, CallFacts DEF CallOK, Resolves
<1>3. Has(Unseen(i).source, k, name) <=> Has(call.source, k, name)
  BY <1>2, UnseenFields, ScrambledFacts DEF Has
<1>4. CASE Has(call.source, k, name)
  <2>1. Unseen(i).source[k][name][row] = call.source[k][name][row]
    BY <1>1, <1>2, <1>4, UnseenFields, ScrambledFacts DEF Has
  <2> QED BY <1>1, <1>3, <1>4, <2>1 DEF Column
<1>5. CASE ~ Has(call.source, k, name)
  <2>1. Unseen(i).indicators[k][name][row] = call.indicators[k][name][row]
    BY <1>1, <1>2, <1>5, UnseenFields, ScrambledFacts DEF Has
  <2> QED BY <1>1, <1>3, <1>5, <2>1 DEF Column
<1> QED BY <1>4, <1>5

\* An operand reads the same, up to the row.
LEMMA SeriesKnown ==
  ASSUME call \in Calls, ~ InPlace, NEW i \in BaseRows(call), NEW x, WellFormed(x),
         x.kind \in Kinds, Resolves(call, x)
  PROVE  /\ Len(Series(Unseen(i), x)) = Len(Series(call, x))
         /\ \A j \in 1..Len(Series(call, x)) :
              AlikeTo(Series(call, x)[j], Series(Unseen(i), x)[j],
                      Cardinality(call.pack.bars[Base]), i)
<1>1. PICK in, n : in = Unseen(i) /\ n = Cardinality(call.pack.bars[Base])
  OBVIOUS
<1>2. /\ CallOK(call) /\ CallOK(in) /\ Resolves(in, x) /\ in.pack = call.pack
      /\ BaseRows(call) = 1..n /\ BaseRows(in) = 1..n /\ n \in Nat
  BY <1>1, CallFacts, UnseenFields, MomentFacts DEF BaseRows, CallOK
<1>3. CASE x.kind = "data"
  <2>1. PICK k, at, name : k = SourceOf(x) /\ at = Offset(x.offset).at /\ name = x.name
    OBVIOUS
  <2>2. Numbered(at) /\ \A j \in DOMAIN at : at[j] \in Nat
    BY <1>3, <2>1, OffsetFacts
  <2>3. /\ Series(call, x) = [j \in DOMAIN at |-> Read(call, k, name, at[j])]
        /\ Series(in, x) = [j \in DOMAIN at |-> Read(in, k, name, at[j])]
    BY <1>3, <2>1 DEF Series
  <2>4. Len(Series(in, x)) = Len(at) /\ Len(Series(call, x)) = Len(at)
    BY <2>2, <2>3, MadeList DEF Numbered
  <2>5. /\ k \in Sources
        /\ Column(call, k, name) \in [1..Cardinality(call.pack.bars[k]) -> Value]
        /\ Column(in, k, name) \in [1..Cardinality(call.pack.bars[k]) -> Value]
    BY <1>2, <1>3, <2>1, ColumnFacts
  <2>6. ASSUME NEW j \in DOMAIN at, NEW m \in 1..i
        PROVE  Read(call, k, name, at[j])[m] = Read(in, k, name, at[j])[m]
    <3>1. PICK lag : lag = Lag(call, k, at[j])
      OBVIOUS
    <3>2. Lag(in, k, at[j]) = lag /\ at[j] \in Nat /\ m \in 1..n
      BY <1>2, <2>2, <3>1 DEF Lag, Natural
    <3>3. Read(call, k, name, at[j])[m]
            = IF Mapping(call.pack, k)[m] >= lag
              THEN Column(call, k, name)[Place(call.pack, k, m, lag)] ELSE NaN
      <4>1. m \in BaseRows(call)
        BY <1>2, <3>2
      <4>2. Read(call, k, name, at[j])[m]
              = IF Mapping(call.pack, k)[m] >= Lag(call, k, at[j])
                THEN Column(call, k, name)[Place(call.pack, k, m, Lag(call, k, at[j]))] ELSE NaN
        BY <1>2, <2>5, <3>2, <4>1, ReadFacts
      <4> QED BY <3>1, <4>2
    <3>5. Read(in, k, name, at[j])[m]
            = IF Mapping(call.pack, k)[m] >= lag
              THEN Column(in, k, name)[Place(call.pack, k, m, lag)] ELSE NaN
      <4>1. Column(in, k, name) \in [1..Cardinality(in.pack.bars[k]) -> Value]
        BY <1>2, <2>5
      <4>2. Read(in, k, name, at[j])[m]
              = IF Mapping(in.pack, k)[m] >= Lag(in, k, at[j])
                THEN Column(in, k, name)[Place(in.pack, k, m, Lag(in, k, at[j]))] ELSE NaN
        BY <1>2, <2>5, <3>2, <4>1, ReadFacts
      <4> QED BY <1>2, <3>2, <4>2
    <3>4. ASSUME Mapping(call.pack, k)[m] >= lag
          PROVE  Column(call, k, name)[Place(call.pack, k, m, lag)]
                   = Column(in, k, name)[Place(call.pack, k, m, lag)]
      <4>1. /\ Place(call.pack, k, m, lag) \in 1..Cardinality(call.pack.bars[k])
            /\ Over(k, Place(call.pack, k, m, lag), i)
        BY <1>1, <1>2, <2>5, <3>1, <3>2, <3>4, ReadIsOver DEF CallOK
      <4> QED BY <1>1, <1>3, <2>1, <4>1, ColumnKnown
    <3> QED BY <3>3, <3>4, <3>5
  <2>7. ASSUME NEW j \in DOMAIN at
        PROVE  AlikeTo(Read(call, k, name, at[j]), Read(in, k, name, at[j]), n, i)
    <3>1. at[j] \in Nat
      BY <2>2
    <3>2. /\ DOMAIN Read(call, k, name, at[j]) = 1..n
          /\ DOMAIN Read(in, k, name, at[j]) = 1..n
      BY <1>2, <2>5, <3>1, ReadFacts
    <3> QED BY <2>6, <3>2 DEF AlikeTo
  <2> QED BY <1>1, <2>2, <2>3, <2>4, <2>7 DEF Numbered
<1>4. CASE x.kind # "data"
  <2>1. Series(in, x) = Series(call, x)
    BY <1>1, <1>2, <1>4, UnseenFields DEF Series, Constant
  <2>2. Numbered(Series(call, x)) /\ \A j \in DOMAIN Series(call, x) :
          DOMAIN Series(call, x)[j] = 1..n
    BY <1>2, SeriesFacts
  <2> QED BY <1>1, <2>1, <2>2 DEF AlikeTo, Numbered
<1> QED BY <1>3, <1>4

-----------------------------------------------------------------------------
\* The flag of a zone, row by row

StayRow(x, op, l, r, e, i) ==
  IF i = 0 THEN FALSE
  ELSE /\ ~ Masked(op, l, r, e, i)
       /\ Enters(op, l, r, e, i) \/ (x[i - 1] /\ Inside(l, r, e, i))
IsStays(x, op, l, r, e, n) == x = [i \in 0..n |-> StayRow(x, op, l, r, e, i)]

LEMMA StaysGrow ==
  ASSUME NEW op, NEW l, NEW r, NEW e, NEW n \in Nat, NEW x, IsStays(x, op, l, r, e, n)
  PROVE  \E y : IsStays(y, op, l, r, e, n + 1)
<1>0. PICK y : y = [i \in 0..n + 1 |-> IF i <= n THEN x[i] ELSE StayRow(x, op, l, r, e, i)]
  OBVIOUS
<1>1. \A i \in 0..n : x[i] = StayRow(x, op, l, r, e, i) /\ y[i] = x[i]
  BY <1>0 DEF IsStays
<1>2. \A i \in 0..n + 1 : StayRow(y, op, l, r, e, i) = StayRow(x, op, l, r, e, i)
  <2> SUFFICES ASSUME NEW i \in 0..n + 1, i # 0
               PROVE  y[i - 1] = x[i - 1]
    BY DEF StayRow
  <2> QED BY <1>1
<1>3. \A i \in 0..n + 1 : y[i] = StayRow(y, op, l, r, e, i)
  <2> TAKE i \in 0..n + 1
  <2>1. y[i] = StayRow(x, op, l, r, e, i)
    BY <1>0, <1>1
  <2> QED BY <1>2, <2>1
<1>4. IsStays(y, op, l, r, e, n + 1)
  BY <1>0, <1>3 DEF IsStays
<1> QED BY <1>4

LEMMA StaysExist ==
  ASSUME NEW op, NEW l, NEW r, NEW e, NEW n \in Nat
  PROVE  \E x : IsStays(x, op, l, r, e, n)
<1> DEFINE Bad == {m \in Nat : ~ \E x : IsStays(x, op, l, r, e, m)}
<1> SUFFICES ASSUME Bad # {}
             PROVE  FALSE
  OBVIOUS
<1>1. PICK m \in Bad : \A k \in Bad : m <= k
  BY LeastNumber
<1>2. m \in Nat /\ ~ \E x : IsStays(x, op, l, r, e, m)
  OBVIOUS
<1>3. m # 0
  <2>1. PICK x : x = [i \in 0..0 |-> FALSE]
    OBVIOUS
  <2>2. IsStays(x, op, l, r, e, 0)
    BY <2>1 DEF IsStays, StayRow
  <2> QED BY <1>2, <2>2
<1>4. m - 1 \in Nat /\ m - 1 \notin Bad /\ (m - 1) + 1 = m
  BY <1>1, <1>2, <1>3
<1>5. PICK x : IsStays(x, op, l, r, e, m - 1)
  BY <1>4
<1> QED BY <1>2, <1>4, <1>5, StaysGrow

\* What the flag is on a row.
LEMMA StaysRows ==
  ASSUME NEW op, NEW l, NEW r, NEW e, Len(l) \in Nat
  PROVE  /\ Stays(op, l, r, e)[0] = FALSE
         /\ \A i \in 1..Len(l) :
              /\ Stays(op, l, r, e)[i] \in BOOLEAN
              /\ Stays(op, l, r, e)[i]
                   <=> /\ ~ Masked(op, l, r, e, i)
                       /\ \/ Enters(op, l, r, e, i)
                          \/ Stays(op, l, r, e)[i - 1] /\ Inside(l, r, e, i)
<1>0. PICK n \in Nat : n = Len(l)
  OBVIOUS
<1>1. Stays(op, l, r, e) = CHOOSE x : IsStays(x, op, l, r, e, n)
  BY <1>0 DEF Stays, IsStays, StayRow
<1>2. PICK x : x = Stays(op, l, r, e) /\ IsStays(x, op, l, r, e, n)
  BY <1>1, StaysExist
<1>3. IsStays(x, op, l, r, e, n)
  BY <1>2
<1>4. \A i \in 0..n : x[i] = StayRow(x, op, l, r, e, i)
  BY <1>3 DEF IsStays
<1>5. x[0] = FALSE
  <2>1. 0 \in 0..n
    BY <1>0
  <2>2. StayRow(x, op, l, r, e, 0) = FALSE
    BY Zenon DEF StayRow
  <2> QED BY <1>4, <2>1, <2>2
<1>6. ASSUME NEW i \in 1..n
      PROVE  x[i] = /\ ~ Masked(op, l, r, e, i)
                    /\ \/ Enters(op, l, r, e, i)
                       \/ x[i - 1] /\ Inside(l, r, e, i)
  <2>1. i \in 0..n /\ i # 0
    OBVIOUS
  <2> QED BY <1>4, <2>1 DEF StayRow
<1> QED BY <1>0, <1>2, <1>5, <1>6

-----------------------------------------------------------------------------
\* Comparisons of series that are alike up to a row are alike on it

\* The operands of a zone.
ZoneAlike(l, r, e, l2, r2, e2, n, i) ==
  AlikeTo(l, l2, n, i) /\ AlikeTo(r, r2, n, i) /\ AlikeTo(e, e2, n, i)

LEMMA MaskAlike ==
  ASSUME NEW l, NEW r, NEW e, NEW l2, NEW r2, NEW e2, NEW n \in Nat, NEW i \in 1..n,
         ZoneAlike(l, r, e, l2, r2, e2, n, i), NEW m \in 1..i
  PROVE  /\ Blank(l, r, e, m) <=> Blank(l2, r2, e2, m)
         /\ Blank(l, r, e, m - 1) <=> Blank(l2, r2, e2, m - 1)
         /\ Inside(l, r, e, m) <=> Inside(l2, r2, e2, m)
         /\ \A op : Masked(op, l, r, e, m) <=> Masked(op, l2, r2, e2, m)
<1>1. \A k \in 1..i : l[k] = l2[k] /\ r[k] = r2[k] /\ e[k] = e2[k]
  BY DEF ZoneAlike, AlikeTo
<1>2. /\ DOMAIN l = 1..n /\ DOMAIN l2 = 1..n /\ DOMAIN r = 1..n /\ DOMAIN r2 = 1..n
      /\ DOMAIN e = 1..n /\ DOMAIN e2 = 1..n
  BY DEF ZoneAlike, AlikeTo
<1>3. Blank(l, r, e, m) <=> Blank(l2, r2, e2, m)
  BY <1>1, <1>2 DEF Blank, Missing
<1>4. Blank(l, r, e, m - 1) <=> Blank(l2, r2, e2, m - 1)
  <2>1. CASE m = 1
    BY <1>2, <2>1 DEF Blank, Missing
  <2>2. CASE m # 1
    <3>1. m - 1 \in 1..i
      BY <2>2
    <3> QED BY <1>1, <1>2, <3>1 DEF Blank, Missing
  <2> QED BY <2>1, <2>2
<1>5. Inside(l, r, e, m) <=> Inside(l2, r2, e2, m)
  BY <1>1 DEF Inside, Low, High
<1> QED BY <1>3, <1>4, <1>5 DEF Masked

LEMMA EnterAlike ==
  ASSUME NEW l, NEW r, NEW e, NEW l2, NEW r2, NEW e2, NEW n \in Nat, NEW i \in 1..n,
         ZoneAlike(l, r, e, l2, r2, e2, n, i), NEW op, NEW m \in 2..i
  PROVE  /\ Inside(l, r, e, m - 1) <=> Inside(l2, r2, e2, m - 1)
         /\ Enters(op, l, r, e, m) <=> Enters(op, l2, r2, e2, m)
<1>1. \A k \in 1..i : l[k] = l2[k] /\ r[k] = r2[k] /\ e[k] = e2[k]
  BY DEF ZoneAlike, AlikeTo
<1>2. m \in 1..i /\ m - 1 \in 1..i
  OBVIOUS
<1>3. Inside(l, r, e, m) <=> Inside(l2, r2, e2, m)
  BY <1>2, MaskAlike
<1>4. Inside(l, r, e, m - 1) <=> Inside(l2, r2, e2, m - 1)
  BY <1>1, <1>2 DEF Inside, Low, High
<1> QED BY <1>1, <1>2, <1>3, <1>4 DEF Enters, Low, High

\* The first row has none before it.
LEMMA FirstIsMasked ==
  ASSUME NEW op, op # "in", NEW l, NEW r, NEW e, NEW n \in Nat, DOMAIN l = 1..n
  PROVE  Masked(op, l, r, e, 1)
BY DEF Masked, Blank, Missing

LEMMA StaysAlike ==
  ASSUME NEW l, NEW r, NEW e, NEW l2, NEW r2, NEW e2, NEW n \in Nat, NEW i \in 1..n,
         ZoneAlike(l, r, e, l2, r2, e2, n, i), Len(l) = n, Len(l2) = n,
         NEW op, op # "in"
  PROVE  Stays(op, l, r, e)[i] = Stays(op, l2, r2, e2)[i]
<1>1. PICK x, y : x = Stays(op, l, r, e) /\ y = Stays(op, l2, r2, e2)
  OBVIOUS
<1>2. /\ x[0] = FALSE /\ y[0] = FALSE
      /\ \A m \in 1..n :
           /\ x[m] \in BOOLEAN /\ y[m] \in BOOLEAN
           /\ x[m] <=> /\ ~ Masked(op, l, r, e, m)
                       /\ Enters(op, l, r, e, m) \/ (x[m - 1] /\ Inside(l, r, e, m))
           /\ y[m] <=> /\ ~ Masked(op, l2, r2, e2, m)
                       /\ Enters(op, l2, r2, e2, m) \/ (y[m - 1] /\ Inside(l2, r2, e2, m))
  BY <1>1, StaysRows
<1> DEFINE Bad == {m \in Nat : m <= i /\ x[m] # y[m]}
<1>3. Bad = {}
  <2> SUFFICES ASSUME Bad # {}
               PROVE  FALSE
    OBVIOUS
  <2>1. PICK m \in Bad : \A k \in Bad : m <= k
    BY LeastNumber
  <2>2. m \in Nat /\ m <= i /\ x[m] # y[m]
    OBVIOUS
  <2>3. m # 0
    BY <1>2, <2>2
  <2>4. m \in 1..n /\ m \in 1..i /\ m - 1 \in Nat /\ m - 1 <= i /\ m - 1 \notin Bad
    BY <2>1, <2>2, <2>3
  <2>5. x[m - 1] = y[m - 1]
    BY <2>4
  <2>6. Masked(op, l, r, e, m) <=> Masked(op, l2, r2, e2, m)
    BY <2>4, MaskAlike
  <2>7. Inside(l, r, e, m) <=> Inside(l2, r2, e2, m)
    BY <2>4, MaskAlike
  <2>8. ~ Masked(op, l, r, e, m) => (Enters(op, l, r, e, m) <=> Enters(op, l2, r2, e2, m))
    <3>1. CASE m = 1
      BY <3>1, FirstIsMasked DEF ZoneAlike, AlikeTo
    <3>2. CASE m # 1
      <4>1. m \in 2..i
        BY <2>4, <3>2
      <4> QED BY <4>1, EnterAlike
    <3> QED BY <3>1, <3>2
  <2>9. (x[m] <=> y[m]) /\ x[m] \in BOOLEAN /\ y[m] \in BOOLEAN
    BY <1>2, <2>4, <2>5, <2>6, <2>7, <2>8
  <2> QED BY <2>2, <2>9
<1>4. i \in Nat /\ i \notin Bad
  BY <1>3
<1> QED BY <1>1, <1>4

\* What fires in a zone.
ZoneFires(op, l, r, e, i) ==
  /\ ~ Masked(op, l, r, e, i)
  /\ op = "in" => Inside(l, r, e, i)
  /\ op = "xin" => Inside(l, r, e, i) /\ ~ Inside(l, r, e, i - 1)
  /\ op \notin {"in", "xin"} => Stays(op, l, r, e)[i]

LEMMA RangedRow ==
  ASSUME NEW op, NEW l, NEW r, NEW e, NEW i \in DOMAIN l, op \notin {"in", "xin"} => Stays(op, l, r, e)[i] \in BOOLEAN
  PROVE  /\ Ranged(op, l, r, e)[i] = [masked |-> Masked(op, l, r, e, i),
                                      fires |-> ZoneFires(op, l, r, e, i)]
         /\ Masked(op, l, r, e, i) \in BOOLEAN /\ ZoneFires(op, l, r, e, i) \in BOOLEAN
<1> DEFINE shown == CASE op = "in" -> Inside(l, r, e, i)
                      [] op = "xin" -> Inside(l, r, e, i) /\ ~ Inside(l, r, e, i - 1)
                      [] OTHER -> Stays(op, l, r, e)[i]
<1>1. Ranged(op, l, r, e)[i] = [masked |-> Masked(op, l, r, e, i),
                                fires |-> ~ Masked(op, l, r, e, i) /\ shown]
  BY DEF Ranged
<1>2. (~ Masked(op, l, r, e, i) /\ shown) <=> ZoneFires(op, l, r, e, i)
  BY DEF ZoneFires
<1>3. ZoneFires(op, l, r, e, i) \in BOOLEAN
  BY DEF ZoneFires
<1>4. (~ Masked(op, l, r, e, i) /\ shown) \in BOOLEAN
  OBVIOUS
<1>5. (~ Masked(op, l, r, e, i) /\ shown) = ZoneFires(op, l, r, e, i)
  BY <1>2, <1>3, <1>4
<1>6. Masked(op, l, r, e, i) \in BOOLEAN
  BY DEF Masked
<1> HIDE DEF shown
<1> QED BY <1>1, <1>3, <1>5, <1>6

\* A zone, row by row.
LEMMA RangedAlike ==
  ASSUME NEW l, NEW r, NEW e, NEW l2, NEW r2, NEW e2, NEW n \in Nat, NEW i \in 1..n,
         ZoneAlike(l, r, e, l2, r2, e2, n, i), Len(l) = n, Len(l2) = n, NEW op
  PROVE  Ranged(op, l, r, e)[i] = Ranged(op, l2, r2, e2)[i]
<1>1. i \in DOMAIN l /\ i \in DOMAIN l2 /\ i \in 1..i
  BY DEF ZoneAlike, AlikeTo
<1>2. Stays(op, l, r, e)[i] \in BOOLEAN /\ Stays(op, l2, r2, e2)[i] \in BOOLEAN
  BY StaysRows
<1>3. Masked(op, l, r, e, i) <=> Masked(op, l2, r2, e2, i)
  BY <1>1, MaskAlike
<1>4. Inside(l, r, e, i) <=> Inside(l2, r2, e2, i)
  BY <1>1, MaskAlike
<1>5. op = "xin" /\ ~ Masked(op, l, r, e, i)
        => (Inside(l, r, e, i - 1) <=> Inside(l2, r2, e2, i - 1))
  <2> SUFFICES ASSUME op = "xin", ~ Masked(op, l, r, e, i)
               PROVE  Inside(l, r, e, i - 1) <=> Inside(l2, r2, e2, i - 1)
    OBVIOUS
  <2>1. i # 1
    BY FirstIsMasked DEF ZoneAlike, AlikeTo
  <2>2. i \in 2..i
    BY <2>1
  <2> QED BY <2>2, EnterAlike
<1>6. op \notin {"in", "xin"} => Stays(op, l, r, e)[i] = Stays(op, l2, r2, e2)[i]
  BY StaysAlike
<1>7. ZoneFires(op, l, r, e, i) <=> ZoneFires(op, l2, r2, e2, i)
  BY <1>3, <1>4, <1>5, <1>6 DEF ZoneFires
<1>8. /\ Masked(op, l, r, e, i) \in BOOLEAN /\ Masked(op, l2, r2, e2, i) \in BOOLEAN
      /\ ZoneFires(op, l, r, e, i) \in BOOLEAN /\ ZoneFires(op, l2, r2, e2, i) \in BOOLEAN
      /\ Ranged(op, l, r, e)[i] = [masked |-> Masked(op, l, r, e, i),
                                   fires |-> ZoneFires(op, l, r, e, i)]
      /\ Ranged(op, l2, r2, e2)[i] = [masked |-> Masked(op, l2, r2, e2, i),
                                      fires |-> ZoneFires(op, l2, r2, e2, i)]
  BY <1>1, <1>2, RangedRow
<1> QED BY <1>3, <1>7, <1>8

\* A comparison of two values.
Blind(l, r, i) == Missing(l, i) \/ Missing(r, i)
SimpleFires(op, l, r, i) == ~ Blind(l, r, i) /\ Related(op, l[i], r[i])

LEMMA SimpleRow ==
  ASSUME NEW op, NEW l, NEW r, NEW i \in DOMAIN l
  PROVE  /\ Simple(op, l, r)[i] = [fires |-> SimpleFires(op, l, r, i), masked |-> Blind(l, r, i)]
         /\ SimpleFires(op, l, r, i) \in BOOLEAN /\ Blind(l, r, i) \in BOOLEAN
<1>1. SimpleFires(op, l, r, i) \in BOOLEAN
  BY DEF SimpleFires
<1>2. Blind(l, r, i) \in BOOLEAN
  BY DEF Blind
<1>3. Simple(op, l, r)[i] = [fires |-> SimpleFires(op, l, r, i), masked |-> Blind(l, r, i)]
  BY DEF Simple, SimpleFires, Blind
<1> QED BY <1>1, <1>2, <1>3

\* A crossing looks at two rows.
CrossMasked(l, r, i) == i = 1 \/ Blind(l, r, i) \/ Blind(l, r, i - 1)
CrossFires(op, l, r, i) ==
  /\ ~ CrossMasked(l, r, i)
  /\ SimpleFires(op, l, r, i) /\ ~ SimpleFires(op, l, r, i - 1)

LEMMA CrossRow ==
  ASSUME NEW op, NEW l, NEW r, NEW n \in Nat, DOMAIN l = 1..n, NEW i \in 1..n
  PROVE  /\ Crosses(op, l, r)[i] = [fires |-> CrossFires(op, l, r, i), masked |-> CrossMasked(l, r, i)]
         /\ CrossFires(op, l, r, i) \in BOOLEAN /\ CrossMasked(l, r, i) \in BOOLEAN
<1>1. PICK s : s = Simple(op, l, r)
  OBVIOUS
<1>2. DOMAIN s = 1..n
  BY <1>1 DEF Simple
<1>3. CrossFires(op, l, r, i) \in BOOLEAN /\ CrossMasked(l, r, i) \in BOOLEAN
  BY DEF CrossFires, CrossMasked
<1> DEFINE mask == i = 1 \/ s[i].masked \/ s[i - 1].masked
           fire == ~ mask /\ s[i].fires /\ ~ s[i - 1].fires
<1>4. Crosses(op, l, r)[i] = [fires |-> fire, masked |-> mask]
  BY <1>1, <1>2 DEF Crosses, Rises
<1>5. ASSUME NEW m \in 1..n
      PROVE  s[m].masked = Blind(l, r, m) /\ s[m].fires = SimpleFires(op, l, r, m)
  <2>1. s[m] = [fires |-> SimpleFires(op, l, r, m), masked |-> Blind(l, r, m)]
    BY <1>1, SimpleRow
  <2> QED BY <2>1
<1>6. i # 1 => i - 1 \in 1..n
  OBVIOUS
<1>7. mask <=> CrossMasked(l, r, i)
  BY <1>5, <1>6 DEF CrossMasked
<1>8. fire <=> CrossFires(op, l, r, i)
  BY <1>5, <1>6, <1>7 DEF CrossFires, CrossMasked
<1>9. mask \in BOOLEAN /\ fire \in BOOLEAN
  OBVIOUS
<1> HIDE DEF mask, fire
<1>10. mask = CrossMasked(l, r, i) /\ fire = CrossFires(op, l, r, i)
  BY <1>3, <1>7, <1>8, <1>9
<1> QED BY <1>3, <1>4, <1>10

LEMMA PairAlike ==
  ASSUME NEW l, NEW r, NEW l2, NEW r2, NEW n \in Nat, NEW i \in 1..n,
         AlikeTo(l, l2, n, i), AlikeTo(r, r2, n, i), NEW m \in 1..i, NEW op
  PROVE  /\ Blind(l, r, m) <=> Blind(l2, r2, m)
         /\ SimpleFires(op, l, r, m) <=> SimpleFires(op, l2, r2, m)
<1>1. l[m] = l2[m] /\ r[m] = r2[m] /\ m \in 1..n
  BY DEF AlikeTo
<1>2. Blind(l, r, m) <=> Blind(l2, r2, m)
  BY <1>1 DEF Blind, Missing, AlikeTo
<1> QED BY <1>1, <1>2 DEF SimpleFires

LEMMA ComparisonAlike ==
  ASSUME NEW c, NEW l, NEW r, NEW e, NEW l2, NEW r2, NEW e2, NEW n \in Nat, NEW i \in 1..n,
         AlikeTo(l, l2, n, i), AlikeTo(r, r2, n, i), Zoned(c) => AlikeTo(e, e2, n, i),
         Len(l) = n, Len(l2) = n
  PROVE  Comparison(c, l, r, e)[i] = Comparison(c, l2, r2, e2)[i]
<1>1. CASE Zoned(c)
  <2>1. ZoneAlike(l, r, e, l2, r2, e2, n, i)
    BY <1>1 DEF ZoneAlike
  <2>2. Ranged(c.op, l, r, e)[i] = Ranged(c.op, l2, r2, e2)[i]
    BY <2>1, RangedAlike
  <2> QED BY <1>1, <2>2 DEF Comparison
<1>2. i \in DOMAIN l /\ i \in DOMAIN l2 /\ i \in 1..i /\ DOMAIN l = 1..n /\ DOMAIN l2 = 1..n
  BY DEF AlikeTo
<1>3. \A m \in 1..i : /\ Blind(l, r, m) <=> Blind(l2, r2, m)
                      /\ SimpleFires(c.op, l, r, m) <=> SimpleFires(c.op, l2, r2, m)
  BY PairAlike
<1>4. CASE ~ Zoned(c) /\ c.op \in Crossing
  <2>1. CrossMasked(l, r, i) <=> CrossMasked(l2, r2, i)
    BY <1>2, <1>3 DEF CrossMasked
  <2>2. CrossFires(c.op, l, r, i) <=> CrossFires(c.op, l2, r2, i)
    <3>1. CASE i = 1
      BY <3>1 DEF CrossFires, CrossMasked
    <3>2. CASE i # 1
      <4>1. i - 1 \in 1..i
        BY <3>2
      <4> QED BY <1>2, <1>3, <2>1, <4>1 DEF CrossFires
    <3> QED BY <3>1, <3>2
  <2>3. /\ CrossFires(c.op, l, r, i) \in BOOLEAN /\ CrossMasked(l, r, i) \in BOOLEAN
        /\ CrossFires(c.op, l2, r2, i) \in BOOLEAN /\ CrossMasked(l2, r2, i) \in BOOLEAN
        /\ Crosses(c.op, l, r)[i] = [fires |-> CrossFires(c.op, l, r, i), masked |-> CrossMasked(l, r, i)]
        /\ Crosses(c.op, l2, r2)[i] = [fires |-> CrossFires(c.op, l2, r2, i), masked |-> CrossMasked(l2, r2, i)]
    BY <1>2, CrossRow
  <2>4. Crosses(c.op, l, r)[i] = Crosses(c.op, l2, r2)[i]
    BY <2>1, <2>2, <2>3
  <2> QED BY <1>4, <2>4 DEF Comparison
<1>5. CASE ~ Zoned(c) /\ c.op \notin Crossing
  <2>1. /\ SimpleFires(c.op, l, r, i) \in BOOLEAN /\ Blind(l, r, i) \in BOOLEAN
        /\ SimpleFires(c.op, l2, r2, i) \in BOOLEAN /\ Blind(l2, r2, i) \in BOOLEAN
        /\ Simple(c.op, l, r)[i] = [fires |-> SimpleFires(c.op, l, r, i), masked |-> Blind(l, r, i)]
        /\ Simple(c.op, l2, r2)[i] = [fires |-> SimpleFires(c.op, l2, r2, i), masked |-> Blind(l2, r2, i)]
    BY <1>2, SimpleRow
  <2>2. Simple(c.op, l, r)[i] = Simple(c.op, l2, r2)[i]
    BY <1>2, <1>3, <2>1
  <2> QED BY <1>5, <2>2 DEF Comparison
<1> QED BY <1>1, <1>4, <1>5

-----------------------------------------------------------------------------
\* The rows of comparisons of a condition

Uses(c) == IF Zoned(c) THEN {c.left, c.right, c.end} ELSE {c.left, c.right}

LEMMA UsesFacts ==
  ASSUME NEW c, IsComparison(c)
  PROVE  /\ DOMAIN Operands(c) = IF Zoned(c) THEN 1..3 ELSE 1..2
         /\ \A j \in DOMAIN Operands(c) : Operands(c)[j] \in Uses(c)
         /\ \A x \in Uses(c) : \E j \in DOMAIN Operands(c) : Operands(c)[j] = x
         /\ \A x \in Uses(c) : WellFormed(x) /\ x.kind \in {"data", "param", "scalar"}
<1>1. \A x \in Uses(c) : WellFormed(x) /\ x.kind \in {"data", "param", "scalar"}
  BY DEF Uses, IsComparison, Zoned
<1>2. CASE Zoned(c)
  <2>1. Operands(c) = <<c.left, c.right, c.end>> /\ Uses(c) = {c.left, c.right, c.end}
    BY <1>2 DEF Operands, Uses
  <2> QED BY <1>1, <1>2, <2>1
<1>3. CASE ~ Zoned(c)
  <2>1. Operands(c) = <<c.left, c.right>> /\ Uses(c) = {c.left, c.right}
    BY <1>3 DEF Operands, Uses
  <2> QED BY <1>1, <1>3, <2>1
<1> QED BY <1>2, <1>3

\* The longest of two or three lengths.
LEMMA LongestIs ==
  ASSUME NEW lengths, NEW n \in {2, 3}, DOMAIN lengths = 1..n,
         \A j \in 1..n : lengths[j] \in Nat
  PROVE  LongestOf(lengths) \in Nat
<1> DEFINE S == {lengths[j] : j \in DOMAIN lengths}
<1>1. \E m \in S : \A j \in DOMAIN lengths : lengths[j] <= m
  <2>1. PICK a \in Nat, b \in Nat, d \in Nat :
          /\ a = lengths[1] /\ b = lengths[2] /\ d = IF n = 3 THEN lengths[3] ELSE a
    <3>1. 1 \in 1..n /\ 2 \in 1..n /\ (n = 3 => 3 \in 1..n)
      OBVIOUS
    <3> QED BY <3>1
  <2>2. a \in S /\ b \in S /\ d \in S
    <3>1. 1 \in 1..n /\ 2 \in 1..n /\ (n = 3 => 3 \in 1..n)
      OBVIOUS
    <3> QED BY <2>1, <3>1
  <2>3. \A j \in 1..n : lengths[j] \in {a, b, d}
    <3>1. \A j \in 1..n : j = 1 \/ j = 2 \/ (n = 3 /\ j = 3)
      OBVIOUS
    <3> QED BY <2>1, <3>1
  <2>4. \E m \in {a, b, d} : a <= m /\ b <= m /\ d <= m
    OBVIOUS
  <2> HIDE DEF S
  <2> QED BY <2>2, <2>3, <2>4
<1>2. LongestOf(lengths) \in S
  BY <1>1 DEF LongestOf
<1> QED BY <1>2

\* Which of its series an operand brings to a comparison.
Turn(in, x, m) == IF Len(Series(in, x)) = 1 THEN 1 ELSE m

LEMMA PickFacts ==
  ASSUME NEW in, CallOK(in), NEW c, IsComparison(c), Evaluable(in, c)
  PROVE  /\ Longest(in, c) \in Nat /\ Longest(in, c) >= 1
         /\ \A x \in Uses(c) :
              /\ WellFormed(x) /\ x.kind \in Kinds /\ Resolves(in, x)
              /\ Numbered(Series(in, x)) /\ Len(Series(in, x)) \in {1, Longest(in, c)}
              /\ \A j \in DOMAIN Series(in, x) : Series(in, x)[j] \in [BaseRows(in) -> Value]
              /\ \A m \in 1..Longest(in, c) :
                   /\ Turn(in, x, m) \in DOMAIN Series(in, x)
                   /\ Pick(in, x, m) = Series(in, x)[Turn(in, x, m)]
<1>1. PICK n \in {2, 3} : DOMAIN Operands(c) = 1..n
  BY UsesFacts
<1>2. ASSUME NEW x \in Uses(c)
      PROVE  /\ WellFormed(x) /\ x.kind \in Kinds /\ Resolves(in, x) /\ Numbered(Series(in, x))
             /\ \A j \in DOMAIN Series(in, x) : Series(in, x)[j] \in [BaseRows(in) -> Value]
  <2>1. PICK j \in DOMAIN Operands(c) : Operands(c)[j] = x
    BY UsesFacts
  <2>2. Resolves(in, x)
    BY <2>1 DEF Evaluable
  <2>3. WellFormed(x) /\ x.kind \in Kinds /\ x.kind # "none"
    BY UsesFacts DEF Kinds
  <2> QED BY <2>2, <2>3, SeriesFacts
<1>3. PICK lengths : lengths = Lengths(in, c)
  OBVIOUS
<1>4. /\ DOMAIN lengths = 1..n
      /\ \A j \in 1..n : lengths[j] = Len(Series(in, Operands(c)[j]))
  BY <1>1, <1>3 DEF Lengths
<1>5. \A j \in 1..n : lengths[j] \in Nat
  BY <1>1, <1>2, <1>4, UsesFacts DEF Numbered
<1>6. PICK most \in Nat : most = Longest(in, c)
  BY <1>3, <1>4, <1>5, LongestIs DEF Longest
<1>7. most > 0 /\ \A j \in 1..n : lengths[j] \in {1, most}
  BY <1>3, <1>4, <1>6 DEF Evaluable, Broadcasts, Fit, Longest
<1>8. ASSUME NEW x \in Uses(c)
      PROVE  Len(Series(in, x)) \in {1, most}
  <2>1. PICK j \in DOMAIN Operands(c) : Operands(c)[j] = x
    BY UsesFacts
  <2> QED BY <1>1, <1>4, <1>7, <2>1
<1>9. ASSUME NEW x \in Uses(c), NEW m \in 1..most
      PROVE  /\ Turn(in, x, m) \in DOMAIN Series(in, x)
             /\ Pick(in, x, m) = Series(in, x)[Turn(in, x, m)]
  <2>1. Turn(in, x, m) \in DOMAIN Series(in, x)
    BY <1>2, <1>8, <1>9 DEF Turn, Numbered
  <2> QED BY <2>1 DEF Turn, Pick, Nth
<1> QED BY <1>2, <1>6, <1>7, <1>8, <1>9

SomeMasked(each, i) == \E m \in DOMAIN each : each[m][i].masked
Joined(c, each, i) ==
  /\ AnyOf(c) => \E m \in DOMAIN each : each[m][i].fires
  /\ ~ AnyOf(c) => \A m \in DOMAIN each : each[m][i].fires

LEMMA DecidedRow ==
  ASSUME NEW c, NEW rows, NEW i \in rows, NEW each
  PROVE  /\ Decided(c, rows, each)[i]
              = [fires |-> Decide(c, Joined(c, each, i), SomeMasked(each, i)),
                 masked |-> SomeMasked(each, i)]
         /\ Joined(c, each, i) \in BOOLEAN /\ SomeMasked(each, i) \in BOOLEAN
<1> DEFINE join == IF AnyOf(c) THEN \E m \in DOMAIN each : each[m][i].fires
                   ELSE \A m \in DOMAIN each : each[m][i].fires
           mask == \E m \in DOMAIN each : each[m][i].masked
<1>1. Decided(c, rows, each)[i] = [fires |-> Decide(c, join, mask), masked |-> mask]
  BY DEF Decided
<1>2. join <=> Joined(c, each, i)
  BY DEF Joined
<1>3. Joined(c, each, i) \in BOOLEAN /\ SomeMasked(each, i) \in BOOLEAN
  BY DEF Joined, SomeMasked
<1>4. join \in BOOLEAN
  OBVIOUS
<1>5. mask = SomeMasked(each, i)
  BY DEF SomeMasked
<1> HIDE DEF join, mask
<1>6. join = Joined(c, each, i)
  BY <1>2, <1>3, <1>4
<1> QED BY <1>1, <1>3, <1>5, <1>6

RowsAlike(each, each2, i) ==
  DOMAIN each = DOMAIN each2 /\ \A m \in DOMAIN each : each[m][i] = each2[m][i]

LEMMA DecidedAlike ==
  ASSUME NEW c, NEW rows, NEW i \in rows, NEW each, NEW each2,
         RowsAlike(each, each2, i)
  PROVE  Decided(c, rows, each)[i] = Decided(c, rows, each2)[i]
<1>1. Joined(c, each, i) <=> Joined(c, each2, i)
  BY DEF Joined, RowsAlike
<1>2. SomeMasked(each, i) <=> SomeMasked(each2, i)
  BY DEF SomeMasked, RowsAlike
<1>3. /\ Decided(c, rows, each)[i]
           = [fires |-> Decide(c, Joined(c, each, i), SomeMasked(each, i)),
              masked |-> SomeMasked(each, i)]
      /\ Joined(c, each, i) \in BOOLEAN /\ SomeMasked(each, i) \in BOOLEAN
  BY DecidedRow
<1>4. /\ Decided(c, rows, each2)[i]
           = [fires |-> Decide(c, Joined(c, each2, i), SomeMasked(each2, i)),
              masked |-> SomeMasked(each2, i)]
      /\ Joined(c, each2, i) \in BOOLEAN /\ SomeMasked(each2, i) \in BOOLEAN
  BY DecidedRow
<1>5. Joined(c, each, i) = Joined(c, each2, i) /\ SomeMasked(each, i) = SomeMasked(each2, i)
  BY <1>1, <1>2, <1>3, <1>4
<1> QED BY <1>3, <1>4, <1>5

\* A condition comes out the same.
LEMMA ConditionKnown ==
  ASSUME call \in Calls, ~ InPlace, NEW i \in BaseRows(call), NEW c, IsComparison(c),
         Evaluable(call, c)
  PROVE  Condition(call, c)[i] = Condition(Unseen(i), c)[i]
<1>1. PICK in, n : in = Unseen(i) /\ n = Cardinality(call.pack.bars[Base])
  OBVIOUS
<1>2. /\ CallOK(call) /\ CallOK(in) /\ (\A x : Resolves(call, x) => Resolves(in, x))
      /\ BaseRows(call) = 1..n /\ BaseRows(in) = 1..n /\ n \in Nat /\ i \in 1..n
  BY <1>1, CallFacts, MomentFacts DEF BaseRows, CallOK
<1>3. \A x \in Uses(c) : WellFormed(x) /\ x.kind \in Kinds /\ Resolves(call, x) /\ x.kind # "none"
  BY <1>2, PickFacts, UsesFacts
<1>4. ASSUME NEW x \in Uses(c)
      PROVE  /\ Len(Series(in, x)) = Len(Series(call, x))
             /\ \A j \in 1..Len(Series(call, x)) :
                  AlikeTo(Series(call, x)[j], Series(in, x)[j], n, i)
  BY <1>1, <1>3, SeriesKnown
<1>5. Longest(in, c) = Longest(call, c)
  <2>1. Lengths(in, c) = Lengths(call, c)
    BY <1>4, UsesFacts DEF Lengths
  <2> QED BY <2>1 DEF Longest
<1>6. ASSUME NEW x \in Uses(c), NEW m \in 1..Longest(call, c)
      PROVE  /\ AlikeTo(Pick(call, x, m), Pick(in, x, m), n, i)
             /\ Len(Pick(call, x, m)) = n /\ Len(Pick(in, x, m)) = n
  <2>1. PICK t : t = Turn(call, x, m)
    OBVIOUS
  <2>2. /\ t \in DOMAIN Series(call, x) /\ Pick(call, x, m) = Series(call, x)[t]
        /\ Numbered(Series(call, x)) /\ Series(call, x)[t] \in [1..n -> Value]
    BY <1>2, <2>1, PickFacts
  <2>3. Pick(in, x, m) = Series(in, x)[t]
    BY <1>4, <2>1 DEF Pick, Nth, Turn
  <2>4. Numbered(Series(in, x)) /\ \A j \in DOMAIN Series(in, x) : Series(in, x)[j] \in [1..n -> Value]
    BY <1>2, <1>3, SeriesFacts
  <2>5. t \in 1..Len(Series(call, x)) /\ Series(in, x)[t] \in [1..n -> Value]
    BY <1>4, <2>2, <2>4 DEF Numbered
  <2>6. AlikeTo(Series(call, x)[t], Series(in, x)[t], n, i)
    BY <1>4, <2>5
  <2>7. Len(Series(call, x)[t]) = n /\ Len(Series(in, x)[t]) = n
    BY <1>2, <2>2, <2>5
  <2> QED BY <2>2, <2>3, <2>6, <2>7
<1>7. ASSUME NEW m \in 1..Longest(call, c)
      PROVE  Compared(call, c, m)[i] = Compared(in, c, m)[i]
  <2>1. /\ AlikeTo(Pick(call, c.left, m), Pick(in, c.left, m), n, i)
        /\ AlikeTo(Pick(call, c.right, m), Pick(in, c.right, m), n, i)
        /\ Zoned(c) => AlikeTo(Pick(call, c.end, m), Pick(in, c.end, m), n, i)
        /\ Len(Pick(call, c.left, m)) = n /\ Len(Pick(in, c.left, m)) = n
    BY <1>6 DEF Uses
  <2> QED BY <1>2, <2>1, ComparisonAlike DEF Compared
<1> DEFINE each == [m \in 1..Longest(call, c) |-> Compared(call, c, m)]
           each2 == [m \in 1..Longest(call, c) |-> Compared(in, c, m)]
<1>8. RowsAlike(each, each2, i)
  BY <1>7 DEF RowsAlike
<1>9. /\ Condition(call, c) = Decided(c, BaseRows(call), each)
      /\ Condition(in, c) = Decided(c, BaseRows(call), each2)
  BY <1>2, <1>5 DEF Condition
<1> HIDE DEF each, each2
<1>10. Decided(c, BaseRows(call), each)[i] = Decided(c, BaseRows(call), each2)[i]
  BY <1>8, DecidedAlike
<1> QED BY <1>1, <1>9, <1>10

-----------------------------------------------------------------------------
\* Groups

\* The group in a place, from those before it.
Part(in, g, v, n) ==
  Combined(g[n].logic, BaseRows(in),
           {Condition(in, g[n].comparisons[j]) : j \in DOMAIN g[n].comparisons}
             \cup {v[m] : m \in g[n].subs})
AreValues(v, in, g, n) == v = [k \in 1..n |-> Part(in, g, v, k)]

LEMMA PartAlike ==
  ASSUME NEW in, NEW g, WellNested(g), NEW k \in 1..Len(g), NEW v, NEW w,
         \A m \in 1..k - 1 : v[m] = w[m]
  PROVE  Part(in, g, v, k) = Part(in, g, w, k)
<1>1. g[k].subs \subseteq 1..k - 1
  BY DEF WellNested
<1>2. {v[m] : m \in g[k].subs} = {w[m] : m \in g[k].subs}
  BY <1>1
<1> QED BY <1>2 DEF Part

LEMMA ValuesGrow ==
  ASSUME NEW in, NEW g, WellNested(g), NEW n \in Nat, n + 1 <= Len(g), NEW v,
         AreValues(v, in, g, n)
  PROVE  \E w : AreValues(w, in, g, n + 1)
<1>0. PICK w : w = [k \in 1..n + 1 |-> IF k <= n THEN v[k] ELSE Part(in, g, v, k)]
  OBVIOUS
<1>1. \A k \in 1..n : v[k] = Part(in, g, v, k) /\ w[k] = v[k]
  BY <1>0 DEF AreValues
<1>2. ASSUME NEW k \in 1..n + 1
      PROVE  w[k] = Part(in, g, w, k)
  <2>1. w[k] = Part(in, g, v, k)
    BY <1>0, <1>1
  <2>2. k \in 1..Len(g) /\ \A m \in 1..k - 1 : v[m] = w[m]
    BY <1>1 DEF WellNested
  <2>3. Part(in, g, v, k) = Part(in, g, w, k)
    BY <2>2, PartAlike
  <2> QED BY <2>1, <2>3
<1>3. AreValues(w, in, g, n + 1)
  BY <1>0, <1>2 DEF AreValues
<1> QED BY <1>3

LEMMA ValuesExist ==
  ASSUME NEW in, NEW g, WellNested(g), NEW n \in Nat, n <= Len(g)
  PROVE  \E v : AreValues(v, in, g, n)
<1> DEFINE Bad == {m \in Nat : m <= n /\ ~ \E v : AreValues(v, in, g, m)}
<1> SUFFICES ASSUME Bad # {}
             PROVE  FALSE
  OBVIOUS
<1>1. PICK m \in Bad : \A k \in Bad : m <= k
  BY LeastNumber
<1>2. m \in Nat /\ m <= n /\ ~ \E v : AreValues(v, in, g, m)
  OBVIOUS
<1>3. m # 0
  <2>1. PICK v : v = [k \in 1..0 |-> 0]
    OBVIOUS
  <2>2. AreValues(v, in, g, 0)
    BY <2>1 DEF AreValues
  <2> QED BY <1>2, <2>2
<1>4. m - 1 \in Nat /\ m - 1 \notin Bad /\ (m - 1) + 1 = m /\ m - 1 <= n
  BY <1>1, <1>2, <1>3
<1>5. PICK v : AreValues(v, in, g, m - 1)
  BY <1>4
<1>6. (m - 1) + 1 <= Len(g)
  BY <1>2, <1>4 DEF WellNested
<1> QED BY <1>2, <1>4, <1>5, <1>6, ValuesGrow

LEMMA GroupValues ==
  ASSUME NEW in, NEW g, WellNested(g)
  PROVE  \E v : /\ Group(in, g) = v[Len(g)]
                /\ \A k \in 1..Len(g) : v[k] = Part(in, g, v, k)
<1>0. PICK n \in Nat : n = Len(g)
  BY DEF WellNested
<1>1. PICK v : v = CHOOSE x : AreValues(x, in, g, n)
  OBVIOUS
<1>2. Group(in, g) = v[n]
  BY <1>0, <1>1 DEF Group, AreValues, Part
<1>3. AreValues(v, in, g, n)
  <2>1. n <= Len(g)
    BY <1>0
  <2>2. \E x : AreValues(x, in, g, n)
    BY <2>1, ValuesExist
  <2> QED BY <1>1, <2>2
<1>4. \A k \in 1..n : v[k] = Part(in, g, v, k)
  BY <1>3 DEF AreValues
<1> QED BY <1>0, <1>2, <1>4

\* What a group shows on a row is what its parts show on it.
PartsAlike(P, Q, i) ==
  (\A p \in P : \E q \in Q : p[i] = q[i]) /\ (\A q \in Q : \E p \in P : p[i] = q[i])

LEMMA CombinedAlike ==
  ASSUME NEW logic, NEW rows, NEW i \in rows, NEW P, NEW Q, PartsAlike(P, Q, i)
  PROVE  Combined(logic, rows, P)[i] = Combined(logic, rows, Q)[i]
<1> DEFINE fires(X) == /\ X # {}
                       /\ \/ logic = "AND" /\ \A p \in X : p[i].fires
                          \/ logic = "OR" /\ \E p \in X : p[i].fires
           mask(X) == \E p \in X : p[i].masked
<1>1. \A X : Combined(logic, rows, X)[i] = [fires |-> fires(X), masked |-> mask(X)]
  BY DEF Combined
<1>2. fires(P) <=> fires(Q)
  BY DEF PartsAlike
<1>3. mask(P) <=> mask(Q)
  BY DEF PartsAlike
<1>4. fires(P) \in BOOLEAN /\ fires(Q) \in BOOLEAN /\ mask(P) \in BOOLEAN /\ mask(Q) \in BOOLEAN
  OBVIOUS
<1> HIDE DEF fires, mask
<1>5. fires(P) = fires(Q) /\ mask(P) = mask(Q)
  BY <1>2, <1>3, <1>4
<1> QED BY <1>1, <1>5

\* A group comes out the same.
LEMMA GroupKnown ==
  ASSUME call \in Calls, ~ InPlace, NEW i \in BaseRows(call), NEW g, WellNested(g),
         GroupOK(call, g)
  PROVE  Group(call, g)[i] = Group(Unseen(i), g)[i]
<1>1. PICK in, n : in = Unseen(i) /\ n \in Nat /\ n = Len(g)
  BY DEF WellNested
<1>2. PICK v : /\ Group(call, g) = v[n]
               /\ \A k \in 1..n : v[k] = Part(call, g, v, k)
  BY <1>1, GroupValues
<1>3. PICK w : /\ Group(in, g) = w[n]
               /\ \A k \in 1..n : w[k] = Part(in, g, w, k)
  BY <1>1, GroupValues
<1>4. BaseRows(in) = BaseRows(call)
  BY <1>1, CallFacts
<1>5. /\ DOMAIN g = 1..n /\ n >= 1
      /\ \A k \in 1..n : /\ g[k].subs \subseteq 1..k - 1
                         /\ \A j \in DOMAIN g[k].comparisons : IsComparison(g[k].comparisons[j])
  BY <1>1 DEF WellNested
<1>6. \A k \in 1..n : \A j \in DOMAIN g[k].comparisons :
        Condition(call, g[k].comparisons[j])[i] = Condition(in, g[k].comparisons[j])[i]
  BY <1>1, <1>5, ConditionKnown DEF GroupOK
<1> DEFINE Bad == {k \in Nat : k \in 1..n /\ v[k][i] # w[k][i]}
<1>7. Bad = {}
  <2> SUFFICES ASSUME Bad # {}
               PROVE  FALSE
    OBVIOUS
  <2>1. PICK k \in Bad : \A m \in Bad : k <= m
    BY LeastNumber
  <2>2. k \in Nat /\ k \in 1..n /\ v[k][i] # w[k][i]
    OBVIOUS
  <2>3. ASSUME NEW m \in g[k].subs
        PROVE  v[m][i] = w[m][i]
    <3>1. m \in 1..k - 1
      BY <1>5, <2>2
    <3>2. m \in Nat /\ m \in 1..n /\ ~ k <= m
      BY <1>1, <2>2, <3>1
    <3>3. m \notin Bad
      BY <2>1, <3>2
    <3> QED BY <3>2, <3>3
  <2> DEFINE P == {Condition(call, g[k].comparisons[j]) : j \in DOMAIN g[k].comparisons}
                    \cup {v[m] : m \in g[k].subs}
             Q == {Condition(in, g[k].comparisons[j]) : j \in DOMAIN g[k].comparisons}
                    \cup {w[m] : m \in g[k].subs}
  <2>4. PartsAlike(P, Q, i)
    BY <1>6, <2>2, <2>3 DEF PartsAlike
  <2>5. v[k] = Combined(g[k].logic, BaseRows(call), P) /\ w[k] = Combined(g[k].logic, BaseRows(call), Q)
    BY <1>2, <1>3, <1>4, <2>2 DEF Part
  <2> HIDE DEF P, Q
  <2>6. v[k][i] = w[k][i]
    BY <2>4, <2>5, CombinedAlike
  <2> QED BY <2>2, <2>6
<1>8. n \in Nat /\ n \in 1..n /\ n \notin Bad
  BY <1>1, <1>5, <1>7
<1> QED BY <1>1, <1>2, <1>3, <1>8

-----------------------------------------------------------------------------
\* What a comparison needs, and where it fires

\* The base's rows of a call.
LEMMA RowsOf ==
  ASSUME call \in Calls
  PROVE  /\ Cardinality(call.pack.bars[Base]) \in Nat
         /\ BaseRows(call) = 1..Cardinality(call.pack.bars[Base])
BY CallFacts, MomentFacts DEF BaseRows, CallOK

Lacks(l, r, e, c, i) ==
  \E m \in Needs(c, i) : Missing(l, m) \/ Missing(r, m) \/ (Zoned(c) /\ Missing(e, m))

LEMMA MaskMeans ==
  ASSUME NEW c, Parses(c), NEW l, NEW r, NEW e, NEW n \in Nat, DOMAIN l = 1..n,
         NEW i \in 1..n
  PROVE  Comparison(c, l, r, e)[i].masked <=> Lacks(l, r, e, c, i)
<1>1. CASE Zoned(c)
  <2>1. Comparison(c, l, r, e)[i].masked = Masked(c.op, l, r, e, i)
    BY <1>1 DEF Comparison, Ranged
  <2>2. c.op # "in" <=> c.op \in Crossing
    BY <1>1 DEF Parses, Crossing
  <2>3. Masked(c.op, l, r, e, i) <=> Lacks(l, r, e, c, i)
    BY <1>1, <2>2 DEF Masked, Blank, Lacks, Needs
  <2> QED BY <2>1, <2>3
<1>2. CASE ~ Zoned(c) /\ c.op \in Crossing
  <2>1. Comparison(c, l, r, e)[i] = [fires |-> CrossFires(c.op, l, r, i), masked |-> CrossMasked(l, r, i)]
    BY <1>2, CrossRow DEF Comparison
  <2>2. Missing(l, 0)
    BY DEF Missing
  <2>3. CrossMasked(l, r, i) <=> Lacks(l, r, e, c, i)
    BY <1>2, <2>2 DEF CrossMasked, Blind, Lacks, Needs
  <2> QED BY <2>1, <2>3
<1>3. CASE ~ Zoned(c) /\ c.op \notin Crossing
  <2>1. Comparison(c, l, r, e)[i] = [fires |-> SimpleFires(c.op, l, r, i), masked |-> Blind(l, r, i)]
    BY <1>3, SimpleRow DEF Comparison
  <2>2. Blind(l, r, i) <=> Lacks(l, r, e, c, i)
    BY <1>3 DEF Blind, Lacks, Needs
  <2> QED BY <2>1, <2>2
<1> QED BY <1>1, <1>2, <1>3

\* The rows of comparisons of a condition.
EachRow(in, c) == [m \in 1..Longest(in, c) |-> Compared(in, c, m)]

\* Every series of an operand has its turn in some row of comparisons.
LEMMA KnownMeans ==
  ASSUME call \in Calls, NEW c, IsComparison(c), Evaluable(call, c), NEW i \in BaseRows(call)
  PROVE  Known(c, i) <=> ~ SomeMasked(EachRow(call, c), i)
<1>1. PICK n \in Nat : n = Cardinality(call.pack.bars[Base]) /\ BaseRows(call) = 1..n
  BY RowsOf
<1>2. PICK most \in Nat : most = Longest(call, c) /\ most >= 1
  BY CallFacts, PickFacts
<1>3. \A x \in Uses(c) :
        /\ Numbered(Series(call, x)) /\ Len(Series(call, x)) \in {1, most}
        /\ \A j \in DOMAIN Series(call, x) : Series(call, x)[j] \in [1..n -> Value]
        /\ \A m \in 1..most : /\ Turn(call, x, m) \in DOMAIN Series(call, x)
                              /\ Pick(call, x, m) = Series(call, x)[Turn(call, x, m)]
  BY <1>1, <1>2, CallFacts, PickFacts
<1> DEFINE Lacking(x, m) == \E h \in Needs(c, i) : Missing(Pick(call, x, m), h)
<1>4. \A m \in 1..most : EachRow(call, c)[m][i].masked <=> \E x \in Uses(c) : Lacking(x, m)
  <2> TAKE m \in 1..most
  <2>1. PICK l, r, e : /\ l = Pick(call, c.left, m) /\ r = Pick(call, c.right, m)
                       /\ e = Pick(call, c.end, m)
    OBVIOUS
  <2>2. DOMAIN l = 1..n
    BY <1>3, <2>1 DEF Uses
  <2>3. EachRow(call, c)[m] = Comparison(c, l, r, e)
    BY <1>2, <2>1 DEF EachRow, Compared
  <2>4. Comparison(c, l, r, e)[i].masked <=> Lacks(l, r, e, c, i)
    BY <1>1, <2>2, MaskMeans DEF Evaluable
  <2>5. Lacks(l, r, e, c, i) <=> \E x \in Uses(c) : Lacking(x, m)
    BY <2>1 DEF Lacks, Uses
  <2> QED BY <2>3, <2>4, <2>5
<1>5. Known(c, i) <=> \A x \in Uses(c) : \A j \in DOMAIN Series(call, x) :
                        \A h \in Needs(c, i) : ~ Missing(Series(call, x)[j], h)
  BY UsesFacts DEF Known
<1>6. ASSUME NEW x \in Uses(c), NEW j \in DOMAIN Series(call, x)
      PROVE  \E m \in 1..most : Pick(call, x, m) = Series(call, x)[j]
  <2>1. j \in 1..Len(Series(call, x))
    BY <1>3 DEF Numbered
  <2>2. CASE Len(Series(call, x)) = 1
    <3>1. 1 \in 1..most /\ j = 1 /\ Turn(call, x, 1) = 1
      BY <1>2, <2>1, <2>2 DEF Turn
    <3> QED BY <1>3, <3>1
  <2>3. CASE Len(Series(call, x)) # 1
    <3>1. j \in 1..most /\ Turn(call, x, j) = j
      BY <1>3, <2>1, <2>3 DEF Turn
    <3> QED BY <1>3, <3>1
  <2> QED BY <2>2, <2>3
<1>7. (\E m \in 1..most : \E x \in Uses(c) : Lacking(x, m)) <=> ~ Known(c, i)
  <2>1. ASSUME NEW m \in 1..most, NEW x \in Uses(c), Lacking(x, m)
        PROVE  ~ Known(c, i)
    BY <1>3, <1>5, <2>1
  <2>2. ASSUME ~ Known(c, i)
        PROVE  \E m \in 1..most : \E x \in Uses(c) : Lacking(x, m)
    BY <1>5, <1>6, <2>2
  <2> QED BY <2>1, <2>2
<1>8. DOMAIN EachRow(call, c) = 1..most
  BY <1>2 DEF EachRow
<1> QED BY <1>4, <1>7, <1>8 DEF SomeMasked

\* A condition fires where what it needs is known and it holds, or does not
\* when it is negated.
LEMMA ConditionFires ==
  ASSUME call \in Calls, NEW c, IsComparison(c), Evaluable(call, c), NEW i \in BaseRows(call)
  PROVE  /\ Condition(call, c)[i].fires
              <=> Known(c, i) /\ (Joined(c, EachRow(call, c), i) # c.negated)
         /\ Condition(call, Negation(c))[i].fires
              <=> Known(c, i) /\ (Joined(c, EachRow(call, c), i) = c.negated)
         /\ Joined(c, EachRow(call, c), i) \in BOOLEAN /\ c.negated \in BOOLEAN
         /\ Condition(call, c)[i].fires \in BOOLEAN
         /\ Condition(call, Negation(c))[i].fires \in BOOLEAN
<1>1. PICK d : d = Negation(c)
  OBVIOUS
<1>2. /\ d.left = c.left /\ d.right = c.right /\ d.end = c.end /\ d.op = c.op
      /\ d.negated = ~ c.negated /\ c.negated \in BOOLEAN
  BY <1>1 DEF Negation, IsComparison
<1>3. Longest(call, d) = Longest(call, c)
  <2>1. Operands(d) = Operands(c)
    BY <1>2 DEF Operands, Zoned
  <2>2. Lengths(call, d) = Lengths(call, c)
    BY <2>1 DEF Lengths
  <2> QED BY <2>2 DEF Longest
<1>4. EachRow(call, d) = EachRow(call, c)
  <2>1. \A m \in 1..Longest(call, c) : Compared(call, d, m) = Compared(call, c, m)
    BY <1>2 DEF Compared, Comparison, Zoned
  <2> QED BY <1>3, <2>1 DEF EachRow
<1>5. Joined(d, EachRow(call, c), i) <=> Joined(c, EachRow(call, c), i)
  BY <1>2 DEF Joined, AnyOf
<1>6. \A b : /\ Condition(call, b)[i].fires
                  = Decide(b, Joined(b, EachRow(call, b), i), SomeMasked(EachRow(call, b), i))
             /\ Joined(b, EachRow(call, b), i) \in BOOLEAN
  <2> TAKE b
  <2>1. Condition(call, b) = Decided(b, BaseRows(call), EachRow(call, b))
    BY DEF Condition, EachRow
  <2>2. /\ Decided(b, BaseRows(call), EachRow(call, b))[i]
             = [fires |-> Decide(b, Joined(b, EachRow(call, b), i), SomeMasked(EachRow(call, b), i)),
                masked |-> SomeMasked(EachRow(call, b), i)]
        /\ Joined(b, EachRow(call, b), i) \in BOOLEAN
    BY DecidedRow
  <2> QED BY <2>1, <2>2
<1>7. Known(c, i) <=> ~ SomeMasked(EachRow(call, c), i)
  BY KnownMeans
<1>8. PICK rows : rows = EachRow(call, c)
  OBVIOUS
<1>9. /\ Condition(call, c)[i].fires
           <=> Known(c, i) /\ (Joined(c, rows, i) # c.negated)
      /\ Condition(call, c)[i].fires \in BOOLEAN
  <2>1. Condition(call, c)[i].fires = Decide(c, Joined(c, rows, i), SomeMasked(rows, i))
    BY <1>6, <1>8
  <2> QED BY <1>7, <1>8, <2>1 DEF Decide
<1>10. /\ Condition(call, d)[i].fires
            <=> Known(c, i) /\ (Joined(c, rows, i) = c.negated)
       /\ Condition(call, d)[i].fires \in BOOLEAN
  <2>1. Condition(call, d)[i].fires = Decide(d, Joined(d, rows, i), SomeMasked(rows, i))
    BY <1>4, <1>6, <1>8
  <2>2. Joined(d, rows, i) \in BOOLEAN /\ Joined(c, rows, i) \in BOOLEAN
    BY <1>4, <1>6, <1>8
  <2>3. Joined(d, rows, i) = Joined(c, rows, i)
    BY <1>5, <1>8, <2>2
  <2> QED BY <1>2, <1>7, <1>8, <2>1, <2>2, <2>3 DEF Decide
<1> QED BY <1>1, <1>2, <1>6, <1>8, <1>9, <1>10

-----------------------------------------------------------------------------
\* What the flag of a zone means

LEMMA EnteredStep ==
  ASSUME NEW op \in {"x>", "x<"}, NEW n \in Nat, NEW l \in [1..n -> Value],
         NEW r \in [1..n -> Value], NEW e \in [1..n -> Value], NEW i \in 1..n
  PROVE  /\ ~ Entered(op, l, r, e, 0)
         /\ Entered(op, l, r, e, i)
              <=> /\ ~ Masked(op, l, r, e, i)
                  /\ \/ Enters(op, l, r, e, i)
                     \/ Entered(op, l, r, e, i - 1) /\ Inside(l, r, e, i)
<1>1. ~ Entered(op, l, r, e, 0)
  BY DEF Entered
<1>2. ASSUME NEW m \in Int, ~ Blank(l, r, e, m)
      PROVE  /\ m \in 1..n /\ l[m] \in Int /\ r[m] \in Int /\ e[m] \in Int
             /\ (\A v \in {r, e} : l[m] < v[m]) <=> l[m] < Low(r, e, m)
             /\ (\A v \in {r, e} : l[m] > v[m]) <=> l[m] > High(r, e, m)
  <2>1. m \in 1..n
    BY <1>2 DEF Blank, Missing
  <2>2. l[m] \in Int /\ r[m] \in Int /\ e[m] \in Int
    BY <1>2, <2>1 DEF Blank, Missing, Value
  <2>3. (\A v \in {r, e} : l[m] < v[m]) <=> l[m] < Low(r, e, m)
    BY <2>2 DEF Low, Smaller
  <2>4. (\A v \in {r, e} : l[m] > v[m]) <=> l[m] > High(r, e, m)
    BY <2>2 DEF High, Larger
  <2> QED BY <2>1, <2>2, <2>3, <2>4
<1> DEFINE Came(j) == IF op = "x>" THEN \A v \in {r, e} : l[j - 1] < v[j - 1]
                                  ELSE \A v \in {r, e} : l[j - 1] > v[j - 1]
           Stayed(j, k) == \A m \in j..k : ~ Blank(l, r, e, m) /\ Inside(l, r, e, m)
<1>3. \A k : Entered(op, l, r, e, k)
               <=> \E j \in 2..k : ~ Blank(l, r, e, j - 1) /\ Came(j) /\ Stayed(j, k)
  BY DEF Entered
<1>4. \A j \in Int : ~ Blank(l, r, e, j - 1) =>
        (Came(j) <=> IF op = "x>" THEN l[j - 1] < Low(r, e, j - 1) ELSE l[j - 1] > High(r, e, j - 1))
  <2> TAKE j \in Int
  <2> HAVE ~ Blank(l, r, e, j - 1)
  <2>1. PICK m \in Int : m = j - 1
    OBVIOUS
  <2> QED BY <1>2, <2>1
<1>5. \A j \in Int : \A k \in Int : \A m \in j..k : Stayed(j, k) => ~ Blank(l, r, e, m) /\ Inside(l, r, e, m)
  OBVIOUS
<1>6. \A j \in 2..i - 1 : Stayed(j, i) <=> Stayed(j, i - 1) /\ ~ Blank(l, r, e, i) /\ Inside(l, r, e, i)
  <2> TAKE j \in 2..i - 1
  <2>1. \A m : m \in j..i <=> m \in j..i - 1 \/ m = i
    OBVIOUS
  <2> QED BY <2>1
<1>7. Stayed(i, i) <=> ~ Blank(l, r, e, i) /\ Inside(l, r, e, i)
  <2>1. i..i = {i}
    OBVIOUS
  <2> QED BY <2>1
<1>8. Masked(op, l, r, e, i) <=> Blank(l, r, e, i) \/ Blank(l, r, e, i - 1)
  BY DEF Masked
<1>9. Enters(op, l, r, e, i) /\ ~ Blank(l, r, e, i - 1) <=> Inside(l, r, e, i) /\ Came(i) /\ ~ Blank(l, r, e, i - 1)
  BY <1>4 DEF Enters
<1> HIDE DEF Came, Stayed
<1>10. ASSUME Entered(op, l, r, e, i)
       PROVE  /\ ~ Masked(op, l, r, e, i)
              /\ Enters(op, l, r, e, i) \/ (Entered(op, l, r, e, i - 1) /\ Inside(l, r, e, i))
  <2>1. PICK j \in 2..i : ~ Blank(l, r, e, j - 1) /\ Came(j) /\ Stayed(j, i)
    BY <1>3, <1>10
  <2>2. CASE j = i
    BY <1>7, <1>8, <1>9, <2>1, <2>2
  <2>3. CASE j # i
    <3>1. j \in 2..i - 1 /\ i - 1 \in j..i
      BY <2>3
    <3>2. ~ Blank(l, r, e, i - 1)
      BY <1>5, <2>1, <3>1
    <3>3. Stayed(j, i - 1) /\ ~ Blank(l, r, e, i) /\ Inside(l, r, e, i)
      BY <1>6, <2>1, <3>1
    <3>4. Entered(op, l, r, e, i - 1)
      BY <1>3, <2>1, <3>1, <3>3
    <3> QED BY <1>8, <3>2, <3>3, <3>4
  <2> QED BY <2>2, <2>3
<1>11. ASSUME ~ Masked(op, l, r, e, i), Enters(op, l, r, e, i)
       PROVE  Entered(op, l, r, e, i)
  <2>1. ~ Blank(l, r, e, i) /\ ~ Blank(l, r, e, i - 1) /\ Came(i) /\ Inside(l, r, e, i)
    BY <1>8, <1>9, <1>11
  <2>2. i \in 2..i
    <3>1. PICK m \in Int : m = i - 1
      OBVIOUS
    <3> QED BY <1>2, <2>1, <3>1
  <2> QED BY <1>3, <1>7, <2>1, <2>2
<1>12. ASSUME ~ Masked(op, l, r, e, i), Entered(op, l, r, e, i - 1), Inside(l, r, e, i)
       PROVE  Entered(op, l, r, e, i)
  <2>1. PICK j \in 2..i - 1 : ~ Blank(l, r, e, j - 1) /\ Came(j) /\ Stayed(j, i - 1)
    BY <1>3, <1>12
  <2>2. Stayed(j, i) /\ j \in 2..i
    BY <1>6, <1>8, <1>12, <2>1
  <2> QED BY <1>3, <2>1, <2>2
<1> QED BY <1>1, <1>10, <1>11, <1>12

\* The flag says that the value entered the zone and has been there since.
LEMMA StaysEntered ==
  ASSUME NEW op \in {"x>", "x<"}, NEW n \in Nat, NEW l \in [1..n -> Value],
         NEW r \in [1..n -> Value], NEW e \in [1..n -> Value], NEW i \in 1..n
  PROVE  Stays(op, l, r, e)[i] <=> Entered(op, l, r, e, i)
<1>1. PICK x : x = Stays(op, l, r, e)
  OBVIOUS
<1>2. Len(l) = n
  OBVIOUS
<1>3. /\ x[0] = FALSE
      /\ \A m \in 1..n :
           x[m] <=> /\ ~ Masked(op, l, r, e, m)
                    /\ Enters(op, l, r, e, m) \/ (x[m - 1] /\ Inside(l, r, e, m))
  BY <1>1, <1>2, StaysRows
<1>4. /\ ~ Entered(op, l, r, e, 0)
      /\ \A m \in 1..n :
           Entered(op, l, r, e, m)
             <=> /\ ~ Masked(op, l, r, e, m)
                 /\ \/ Enters(op, l, r, e, m)
                    \/ Entered(op, l, r, e, m - 1) /\ Inside(l, r, e, m)
  BY EnteredStep
<1> DEFINE Bad == {m \in Nat : m <= n /\ ~ (x[m] <=> Entered(op, l, r, e, m))}
<1>5. Bad = {}
  <2> SUFFICES ASSUME Bad # {}
               PROVE  FALSE
    OBVIOUS
  <2>1. PICK m \in Bad : \A k \in Bad : m <= k
    BY LeastNumber
  <2>2. m \in Nat /\ m <= n /\ ~ (x[m] <=> Entered(op, l, r, e, m))
    OBVIOUS
  <2>3. m # 0
    BY <1>3, <1>4, <2>2
  <2>4. m \in 1..n /\ m - 1 \in Nat /\ m - 1 <= n /\ m - 1 \notin Bad
    BY <2>1, <2>2, <2>3
  <2>5. x[m - 1] <=> Entered(op, l, r, e, m - 1)
    BY <2>4
  <2> QED BY <1>3, <1>4, <2>2, <2>4, <2>5
<1>6. i \in Nat /\ i <= n /\ i \notin Bad
  BY <1>5
<1> QED BY <1>1, <1>6

-----------------------------------------------------------------------------
\* A group of one comparison fires where the comparison does.
LEMMA SingleFires ==
  ASSUME NEW in, NEW g, WellNested(g), Len(g) = 1, Len(g[1].comparisons) = 1,
         NEW i \in BaseRows(in), Condition(in, g[1].comparisons[1])[i].fires \in BOOLEAN
  PROVE  /\ DOMAIN Group(in, g) = BaseRows(in)
         /\ Group(in, g)[i].fires <=> Condition(in, g[1].comparisons[1])[i].fires
<1>0. PICK n : n = Len(g) /\ n = 1
  OBVIOUS
<1>1. PICK v : /\ Group(in, g) = v[n]
               /\ \A k \in 1..n : v[k] = Part(in, g, v, k)
  <2>1. \E v : /\ Group(in, g) = v[Len(g)]
               /\ \A k \in 1..Len(g) : v[k] = Part(in, g, v, k)
    BY GroupValues
  <2>2. n = Len(g)
    BY <1>0
  <2> QED BY <2>1, <2>2
<1>2. /\ g[1].logic \in {"AND", "OR"} /\ g[1].subs = {} /\ DOMAIN g[1].comparisons = {1}
  <2>1. DOMAIN g = 1..1 /\ 1 \in 1..1
    BY DEF WellNested
  <2>2. /\ g[1].logic \in {"AND", "OR"} /\ g[1].subs \subseteq 1..1 - 1
        /\ DOMAIN g[1].comparisons = 1..1
    BY <2>1 DEF WellNested
  <2>3. 1..1 - 1 = {} /\ 1..1 = {1}
    OBVIOUS
  <2> QED BY <2>2, <2>3
<1>3. PICK c : c = Condition(in, g[1].comparisons[1])
  OBVIOUS
<1>4. Group(in, g) = Combined(g[1].logic, BaseRows(in), {c})
  <2>1. 1 \in 1..1
    OBVIOUS
  <2>2. /\ {Condition(in, g[1].comparisons[j]) : j \in DOMAIN g[1].comparisons} = {c}
        /\ {v[m] : m \in g[1].subs} = {}
    BY <1>2, <1>3
  <2> QED BY <1>0, <1>1, <2>1, <2>2 DEF Part
<1>5. Combined(g[1].logic, BaseRows(in), {c})[i].fires <=> c[i].fires
  BY <1>2, <1>3 DEF Combined
<1>6. DOMAIN Group(in, g) = BaseRows(in)
  BY <1>4 DEF Combined
<1> QED BY <1>3, <1>4, <1>5, <1>6

-----------------------------------------------------------------------------
\* The fields evaluated so far show what their groups say

Shown(f) ==
  LET fired == Firing(Group(call, GroupOf(call, f)))
  IN  IF outcome = "done" /\ f \in Entries THEN Silence(fired) ELSE fired

EvaluatedSoFar ==
  \A n \in DOMAIN Fields :
    IF n > done THEN columns[Fields[n]] = {}
    ELSE GroupOf(call, Fields[n]) # Absent =>
           /\ GroupOK(call, GroupOf(call, Fields[n]))
           /\ columns[Fields[n]] = Shown(Fields[n])

SignalInv ==
  /\ call \in Calls /\ done \in 0..4
  /\ outcome \in {"running", "error", "done"} /\ (outcome = "done" => done = 4)
  /\ DOMAIN columns = {Fields[n] : n \in DOMAIN Fields}
  /\ EvaluatedSoFar

LEMMA FieldFacts ==
  /\ DOMAIN Fields = 1..4 /\ Len(Fields) = 4
  /\ \A n, m \in 1..4 : Fields[n] = Fields[m] => n = m
BY DEF Fields

LEMMA SignalInvStarts == SignalInit => SignalInv
<1> SUFFICES ASSUME SignalInit
             PROVE  SignalInv
  OBVIOUS
<1>1. \A n \in DOMAIN Fields : n > done /\ columns[Fields[n]] = {}
  BY FieldFacts DEF SignalInit
<1>2. EvaluatedSoFar
  BY <1>1 DEF EvaluatedSoFar
<1>3. DOMAIN columns = {Fields[n] : n \in DOMAIN Fields}
  BY DEF SignalInit
<1>4. done = 0 /\ call \in Calls /\ outcome \in {"running", "error"}
  BY DEF SignalInit
<1> QED BY <1>2, <1>3, <1>4 DEF SignalInv

LEMMA SignalInvStays == SignalInv /\ [SignalNext]_signalVars => SignalInv'
<1> SUFFICES ASSUME SignalInv, [SignalNext]_signalVars
             PROVE  SignalInv'
  OBVIOUS
<1>1. /\ call \in Calls /\ done \in 0..4
      /\ outcome \in {"running", "error", "done"} /\ (outcome = "done" => done = 4)
      /\ DOMAIN columns = {Fields[n] : n \in DOMAIN Fields}
      /\ \A n \in 1..4 :
           IF n > done THEN columns[Fields[n]] = {}
           ELSE GroupOf(call, Fields[n]) # Absent =>
                  /\ GroupOK(call, GroupOf(call, Fields[n]))
                  /\ columns[Fields[n]] = Shown(Fields[n])
  BY FieldFacts DEF SignalInv, EvaluatedSoFar
<1>2. CASE Generate
  <2>1. /\ done < 4 /\ outcome = "running" /\ GroupOf(call, Field) # Absent
        /\ GroupOK(call, GroupOf(call, Field))
        /\ columns' = [columns EXCEPT ![Field] = @ \cup Firing(Group(call, GroupOf(call, Field)))]
        /\ done' = done + 1 /\ call' = call /\ outcome' = outcome
    BY <1>2, FieldFacts DEF Generate, Running
  <2>2. /\ done + 1 \in 1..4 /\ Field = Fields[done + 1] /\ Field \in DOMAIN columns
        /\ columns[Field] = {}
    <3>1. done + 1 \in 1..4 /\ done + 1 > done /\ Field = Fields[done + 1]
      BY <1>1, <2>1 DEF Field
    <3> QED BY <1>1, <3>1, FieldFacts
  <2>3. columns'[Field] = Firing(Group(call, GroupOf(call, Field)))
    BY <2>1, <2>2
  <2>4. \A f : Shown(f)' = Shown(f)
    BY <2>1 DEF Shown, Silence, GroupOf
  <2>5. Shown(Field) = Firing(Group(call, GroupOf(call, Field)))
    BY <2>1 DEF Shown
  <2>6. \A n \in 1..4 : n # done + 1 => columns'[Fields[n]] = columns[Fields[n]]
    BY <1>1, <2>1, <2>2, FieldFacts
  <2>7. ASSUME NEW n \in 1..4
        PROVE  IF n > done' THEN columns'[Fields[n]] = {}
               ELSE GroupOf(call', Fields[n]) # Absent =>
                      /\ GroupOK(call', GroupOf(call', Fields[n]))
                      /\ columns'[Fields[n]] = Shown(Fields[n])'
    <3>1. CASE n = done + 1
      <4>1. ~ n > done'
        BY <1>1, <2>1, <3>1
      <4> QED BY <2>1, <2>2, <2>3, <2>4, <2>5, <3>1, <4>1
    <3>2. CASE n # done + 1
      <4>1. n > done' <=> n > done
        BY <1>1, <2>1, <3>2
      <4> QED BY <1>1, <2>1, <2>4, <2>6, <3>2, <4>1
    <3> QED BY <3>1, <3>2
  <2>8. EvaluatedSoFar'
    BY <2>7, FieldFacts DEF EvaluatedSoFar
  <2>9. DOMAIN columns' = DOMAIN columns
    BY <2>1
  <2> QED BY <1>1, <2>1, <2>2, <2>8, <2>9 DEF SignalInv
<1>3. CASE Skip
  <2>1. /\ done < 4 /\ outcome = "running" /\ GroupOf(call, Fields[done + 1]) = Absent
        /\ done' = done + 1 /\ call' = call /\ outcome' = outcome /\ columns' = columns
    BY <1>3, FieldFacts DEF Skip, Running, Field
  <2>2. \A f : Shown(f)' = Shown(f)
    BY <2>1 DEF Shown, Silence, GroupOf
  <2>3. ASSUME NEW n \in 1..4
        PROVE  IF n > done' THEN columns'[Fields[n]] = {}
               ELSE GroupOf(call', Fields[n]) # Absent =>
                      /\ GroupOK(call', GroupOf(call', Fields[n]))
                      /\ columns'[Fields[n]] = Shown(Fields[n])'
    <3>1. CASE n = done + 1
      <4>1. ~ n > done'
        BY <1>1, <2>1, <3>1
      <4> QED BY <2>1, <3>1, <4>1
    <3>2. CASE n # done + 1
      <4>1. n > done' <=> n > done
        BY <1>1, <2>1, <3>2
      <4> QED BY <1>1, <2>1, <2>2, <4>1
    <3> QED BY <3>1, <3>2
  <2>4. EvaluatedSoFar'
    BY <2>3, FieldFacts DEF EvaluatedSoFar
  <2>5. done' \in 0..4
    BY <1>1, <2>1
  <2> QED BY <1>1, <2>1, <2>4, <2>5 DEF SignalInv
<1>4. CASE Refuse
  <2>1. /\ outcome = "running" /\ outcome' = "error"
        /\ call' = call /\ done' = done /\ columns' = columns
    BY <1>4 DEF Refuse, Running
  <2>2. \A f : Shown(f)' = Shown(f)
    BY <2>1 DEF Shown, Silence, GroupOf
  <2>3. EvaluatedSoFar'
    BY <1>1, <2>1, <2>2, FieldFacts DEF EvaluatedSoFar
  <2> QED BY <1>1, <2>1, <2>3 DEF SignalInv
<1>5. CASE Suppress
  <2>1. /\ outcome = "running" /\ done = 4 /\ outcome' = "done"
        /\ columns' = [f \in DOMAIN columns |-> IF f \in Entries THEN Silence(columns[f])
                                                ELSE columns[f]]
        /\ call' = call /\ done' = done
    BY <1>5, FieldFacts DEF Suppress
  <2>2. ASSUME NEW n \in 1..4, GroupOf(call, Fields[n]) # Absent
        PROVE  /\ GroupOK(call, GroupOf(call, Fields[n]))
               /\ columns'[Fields[n]] = Shown(Fields[n])'
    <3>1. PICK f : f = Fields[n] /\ f \in DOMAIN columns
      BY <1>1, FieldFacts
    <3>2. ~ n > done
      BY <2>1
    <3>3. GroupOK(call, GroupOf(call, f)) /\ columns[f] = Shown(f)
      BY <1>1, <2>2, <3>1, <3>2
    <3>4. Shown(f) = Firing(Group(call, GroupOf(call, f)))
      BY <2>1 DEF Shown
    <3>5. columns'[f] = IF f \in Entries THEN Silence(Shown(f)) ELSE Shown(f)
      BY <2>1, <3>1, <3>3
    <3>6. Shown(f)' = IF f \in Entries THEN Silence(Firing(Group(call, GroupOf(call, f))))
                      ELSE Firing(Group(call, GroupOf(call, f)))
      BY <2>1 DEF Shown, Silence, GroupOf
    <3> QED BY <3>1, <3>3, <3>4, <3>5, <3>6
  <2>3. EvaluatedSoFar'
    BY <2>1, <2>2, FieldFacts DEF EvaluatedSoFar
  <2>4. DOMAIN columns' = DOMAIN columns
    BY <2>1
  <2> QED BY <1>1, <2>1, <2>3, <2>4 DEF SignalInv
<1>6. CASE UNCHANGED signalVars
  <2>1. /\ outcome' = outcome /\ call' = call /\ done' = done /\ columns' = columns
    BY <1>6 DEF signalVars
  <2>2. \A f : Shown(f)' = Shown(f)
    BY <2>1 DEF Shown, Silence, GroupOf
  <2>3. EvaluatedSoFar'
    BY <1>1, <2>1, <2>2, FieldFacts DEF EvaluatedSoFar
  <2> QED BY <1>1, <2>1, <2>3 DEF SignalInv
<1> QED BY <1>2, <1>3, <1>4, <1>5, <1>6 DEF SignalNext

LEMMA SignalInvHolds == SignalSpec => []SignalInv
BY SignalInvStarts, SignalInvStays, PTL DEF SignalSpec

-----------------------------------------------------------------------------
\* What is handed out

LEMMA ReturnedFacts ==
  ASSUME SignalInv, NEW f \in Returned
  PROVE  /\ call \in Calls /\ WellNested(GroupOf(call, f)) /\ GroupOK(call, GroupOf(call, f))
         /\ columns[f] = IF f \in Entries THEN Silence(Firing(Group(call, GroupOf(call, f))))
                         ELSE Firing(Group(call, GroupOf(call, f)))
<1>1. /\ call \in Calls /\ outcome = "done" /\ done = 4 /\ GroupOf(call, f) # Absent
      /\ f \in {Fields[n] : n \in DOMAIN Fields}
  BY DEF SignalInv, Returned
<1>2. PICK n \in 1..4 : f = Fields[n] /\ n \in DOMAIN Fields
  BY <1>1, FieldFacts
<1>3. ~ n > done
  BY <1>1
<1>4. GroupOK(call, GroupOf(call, f)) /\ columns[f] = Shown(f)
  BY <1>1, <1>2, <1>3 DEF SignalInv, EvaluatedSoFar
<1>5. WellNested(GroupOf(call, f))
  BY <1>1, <1>2, SignalsAssumption DEF GroupOf
<1> QED BY <1>1, <1>4, <1>5 DEF Shown

LEMMA SingleReturned ==
  ASSUME SignalInv, NEW f \in Returned, Single(f)
  PROVE  /\ call \in Calls /\ IsComparison(Only(f)) /\ Evaluable(call, Only(f))
         /\ \A i \in BaseRows(call) : /\ i \in columns[f] => Condition(call, Only(f))[i].fires
                                      /\ i \notin Warm(f) =>
                                           (i \in columns[f] <=> Condition(call, Only(f))[i].fires)
<1>1. PICK g, c : g = GroupOf(call, f) /\ c = Only(f)
  OBVIOUS
<1>2. /\ call \in Calls /\ WellNested(g) /\ GroupOK(call, g)
      /\ columns[f] = IF f \in Entries THEN Silence(Firing(Group(call, g)))
                      ELSE Firing(Group(call, g))
  BY <1>1, ReturnedFacts
<1>3. /\ Len(g) = 1 /\ Len(g[1].comparisons) = 1 /\ c = g[1].comparisons[1]
  BY <1>1 DEF Single, Only
<1>4. 1 \in DOMAIN g /\ 1 \in DOMAIN g[1].comparisons
  <2>1. DOMAIN g = 1..1 /\ 1 \in 1..1
    BY <1>2, <1>3 DEF WellNested
  <2>2. DOMAIN g[1].comparisons = 1..1
    BY <1>2, <1>3, <2>1 DEF WellNested
  <2> QED BY <2>1, <2>2
<1>5. IsComparison(c) /\ Evaluable(call, c)
  BY <1>2, <1>3, <1>4 DEF WellNested, GroupOK
<1>6. PICK n \in Nat, warm \in Nat : BaseRows(call) = 1..n /\ warm = call.pack.warmup[Base]
  <2>1. call.pack \in Pack
    BY <1>2, CallFacts DEF CallOK, PackOK
  <2>2. call.pack.warmup[Base] \in Nat
    BY <2>1, SourceFacts DEF Pack
  <2> QED BY <1>2, <2>2, RowsOf
<1>7. ASSUME NEW i \in BaseRows(call)
      PROVE  /\ i \in columns[f] => Condition(call, c)[i].fires
             /\ i \notin Warm(f) => (i \in columns[f] <=> Condition(call, c)[i].fires)
  <2>1. Condition(call, c)[i].fires \in BOOLEAN
    BY <1>2, <1>5, ConditionFires
  <2>2. i \in Firing(Group(call, g)) <=> Condition(call, c)[i].fires
    <3>1. /\ DOMAIN Group(call, g) = BaseRows(call)
          /\ Group(call, g)[i].fires <=> Condition(call, c)[i].fires
      BY <1>2, <1>3, <2>1, SingleFires
    <3> QED BY <3>1 DEF Firing
  <2>3. f \in Entries => (i \in columns[f] <=> i \in Firing(Group(call, g)) /\ i > warm)
    BY <1>2, <1>6 DEF Silence
  <2>4. f \in Entries => (i \notin Warm(f) <=> i > warm)
    <3>1. i \in 1..n
      BY <1>6
    <3> QED BY <1>6, <3>1 DEF Warm
  <2>5. f \notin Entries => columns[f] = Firing(Group(call, g))
    BY <1>2
  <2> QED BY <2>2, <2>3, <2>4, <2>5
<1> QED BY <1>1, <1>2, <1>5, <1>7

LEMMA ZoneEntered == SignalInv => ZoneWasEntered
<1> SUFFICES ASSUME SignalInv, NEW f \in Returned, Single(f), Zoned(Only(f)),
                    Only(f).op \in {"x>", "x<"}, ~ Only(f).negated,
                    Longest(call, Only(f)) = 1, NEW i \in BaseRows(call) \ Warm(f)
             PROVE  i \in columns[f] <=>
                      Entered(Only(f).op, Pick(call, Only(f).left, 1), Pick(call, Only(f).right, 1),
                              Pick(call, Only(f).end, 1), i)
  BY DEF ZoneWasEntered
<1>1. PICK c : c = Only(f)
  OBVIOUS
<1>2. PICK l, r, e : /\ l = Pick(call, c.left, 1) /\ r = Pick(call, c.right, 1)
                     /\ e = Pick(call, c.end, 1)
  OBVIOUS
<1>3. /\ call \in Calls /\ IsComparison(c) /\ Evaluable(call, c) /\ i \in BaseRows(call)
      /\ i \in columns[f] <=> Condition(call, c)[i].fires
  BY <1>1, SingleReturned
<1>4. PICK n \in Nat : BaseRows(call) = 1..n
  BY <1>3, RowsOf
<1>5. \A x \in Uses(c) : Pick(call, x, 1) \in [1..n -> Value]
  <2> TAKE x \in Uses(c)
  <2>1. 1 \in 1..Longest(call, c)
    BY <1>1
  <2>2. /\ Turn(call, x, 1) \in DOMAIN Series(call, x)
        /\ Pick(call, x, 1) = Series(call, x)[Turn(call, x, 1)]
        /\ \A j \in DOMAIN Series(call, x) : Series(call, x)[j] \in [1..n -> Value]
    BY <1>3, <1>4, <2>1, CallFacts, PickFacts
  <2> QED BY <2>2
<1>6. l \in [1..n -> Value] /\ r \in [1..n -> Value] /\ e \in [1..n -> Value]
  BY <1>1, <1>2, <1>5 DEF Uses
<1>7. PICK each : each = EachRow(call, c)
  OBVIOUS
<1>8. DOMAIN each = {1} /\ each[1] = Ranged(c.op, l, r, e)
  <2>1. each = [m \in 1..1 |-> Compared(call, c, m)]
    BY <1>1, <1>7 DEF EachRow
  <2>2. 1 \in 1..1 /\ 1..1 = {1}
    OBVIOUS
  <2> QED BY <1>1, <1>2, <2>1, <2>2 DEF Compared, Comparison
<1>9. /\ Stays(c.op, l, r, e)[i] \in BOOLEAN
      /\ Stays(c.op, l, r, e)[i] => ~ Masked(c.op, l, r, e, i)
  <2>1. Len(l) = n /\ n \in Nat /\ i \in 1..n
    BY <1>3, <1>4, <1>6
  <2> QED BY <2>1, StaysRows
<1>10. each[1][i] = [masked |-> Masked(c.op, l, r, e, i), fires |-> ZoneFires(c.op, l, r, e, i)]
  <2>1. i \in DOMAIN l
    BY <1>3, <1>4, <1>6
  <2> QED BY <1>8, <1>9, <2>1, RangedRow
<1>11. ZoneFires(c.op, l, r, e, i) <=> Stays(c.op, l, r, e)[i]
  BY <1>1, <1>9 DEF ZoneFires
<1>12. Joined(c, each, i) <=> Stays(c.op, l, r, e)[i]
  BY <1>8, <1>10, <1>11 DEF Joined
<1>13. SomeMasked(each, i) <=> Masked(c.op, l, r, e, i)
  BY <1>8, <1>10 DEF SomeMasked
<1>14. Condition(call, c)[i].fires <=> Stays(c.op, l, r, e)[i]
  <2>1. /\ Condition(call, c)[i].fires <=> Known(c, i) /\ (Joined(c, each, i) # c.negated)
        /\ Joined(c, each, i) \in BOOLEAN /\ c.negated \in BOOLEAN
    BY <1>3, <1>7, ConditionFires
  <2>2. Known(c, i) <=> ~ SomeMasked(each, i)
    BY <1>3, <1>7, KnownMeans
  <2>3. c.negated = FALSE
    BY <1>1, <2>1
  <2> QED BY <1>9, <1>12, <1>13, <2>1, <2>2, <2>3
<1>15. Stays(c.op, l, r, e)[i] <=> Entered(c.op, l, r, e, i)
  BY <1>1, <1>3, <1>4, <1>6, StaysEntered
<1> QED BY <1>1, <1>2, <1>3, <1>14, <1>15

LEMMA FiresKnown == SignalInv => FiresOnKnown
<1> SUFFICES ASSUME SignalInv, NEW f \in Returned, Single(f), NEW i \in BaseRows(call)
             PROVE  /\ i \in columns[f] => Known(Only(f), i)
                    /\ Known(Only(f), i) =>
                         (Condition(call, Only(f))[i].fires
                            # Condition(call, Negation(Only(f)))[i].fires)
  BY DEF FiresOnKnown
<1>1. PICK c : c = Only(f)
  OBVIOUS
<1>2. /\ call \in Calls /\ IsComparison(c) /\ Evaluable(call, c)
      /\ i \in columns[f] => Condition(call, c)[i].fires
  BY <1>1, SingleReturned
<1>3. PICK joined : joined = Joined(c, EachRow(call, c), i)
  OBVIOUS
<1>4. /\ Condition(call, c)[i].fires <=> Known(c, i) /\ (joined # c.negated)
      /\ Condition(call, Negation(c))[i].fires <=> Known(c, i) /\ (joined = c.negated)
      /\ joined \in BOOLEAN /\ c.negated \in BOOLEAN
      /\ Condition(call, c)[i].fires \in BOOLEAN /\ Condition(call, Negation(c))[i].fires \in BOOLEAN
  BY <1>2, <1>3, ConditionFires
<1> QED BY <1>1, <1>2, <1>4

LEMMA ClosedOnly == SignalInv => ClosedBarsOnly
<1> SUFFICES ASSUME SignalInv, NEW f \in Returned, ~ InPlace, NEW i \in BaseRows(call)
             PROVE  Group(call, GroupOf(call, f))[i] = Group(Unseen(i), GroupOf(call, f))[i]
  BY DEF ClosedBarsOnly
<1>1. call \in Calls /\ WellNested(GroupOf(call, f)) /\ GroupOK(call, GroupOf(call, f))
  BY ReturnedFacts
<1> QED BY <1>1, GroupKnown

-----------------------------------------------------------------------------
(* Whatever the call, a signal that is one x> or x< comparison of a zone    *)
(* fires, past the warm-up, in exactly the rows where the value crossed     *)
(* into the zone in this row or an earlier one and was known and inside     *)
(* ever since: the flag perform_range_comparison carries from row to row.   *)
THEOREM ZonesWereEntered == SignalSpec => []ZoneWasEntered
BY SignalInvHolds, ZoneEntered, PTL

(* Whatever the call, a signal that is one comparison fires only where all  *)
(* it needs is there, and where that is, it or its negation fires:          *)
(* evaluate_parsed_condition masks after it has negated.                    *)
THEOREM SignalsAreKnown == SignalSpec => []FiresOnKnown
BY SignalInvHolds, FiresKnown, PTL

(* Whatever the call and however its groups are nested, a row of a signal   *)
(* comes out the same whatever becomes of the bars that are not over with   *)
(* it: the delay resolve_data_operand gives to a coarser source.            *)
THEOREM SignalsReadClosedBars == SignalSpec => []ClosedBarsOnly
BY SignalInvHolds, ClosedOnly, PTL
=============================================================================
