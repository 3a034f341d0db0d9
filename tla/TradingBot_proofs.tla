------------------------- MODULE TradingBot_proofs -------------------------
(***************************************************************************)
(* Proofs about the two halves of the trading bot: BotClock, for any       *)
(* symbols, durations, period and window, and BotExecution, for any number *)
(* of failures, restarts, attempts and periods, wherever the exchange acts *)
(* in between.                                                             *)
(***************************************************************************)
EXTENDS BotClock, BotExecution, FiniteSetTheorems, SequenceTheorems, TLAPS

-----------------------------------------------------------------------------
(* The clock                                                               *)

\* A later second is in the same period or a later one.
LEMMA BucketGrows ==
  ASSUME NEW a \in Nat, NEW b \in Nat, a <= b
  PROVE  Bucket(a) \in Nat /\ Bucket(b) \in Nat /\ Bucket(a) <= Bucket(b)
<1>1. Period \in Nat /\ Period > 0
  BY ClockAssumption
<1>2. Bucket(a) \in Nat /\ Bucket(b) \in Nat
  BY <1>1 DEF Bucket
<1>3. Bucket(a) <= Bucket(b)
  BY <1>1, SMTT(60) DEF Bucket
<1> QED BY <1>2, <1>3

ClockTypes ==
  /\ now \in Nat /\ turn \in 1..Len(Strategies) + 1
  /\ last \in [Symbols -> Int]
  /\ tried \in [Symbols -> SUBSET Nat]
  /\ served \in [Symbols -> Seq(Nat)]
  /\ \A s \in Symbols : last[s] \in -1..now

\* Every served period is at most the one stamped last, and they only grow.
InOrder(s) ==
  /\ \A i \in DOMAIN served[s] : last[s] >= 0 /\ served[s][i] <= Bucket(last[s])
  /\ \A i, j \in DOMAIN served[s] : i < j => served[s][i] < served[s][j]

ClockInv == ClockTypes /\ \A s \in Symbols : InOrder(s)

LEMMA ClockInitHolds == ClockInit => ClockInv
<1> SUFFICES ASSUME ClockInit PROVE ClockInv
  OBVIOUS
<1>1. ClockTypes
  BY ClockAssumption DEF ClockInit, ClockTypes
<1>2. \A s \in Symbols : InOrder(s)
  BY DEF ClockInit, InOrder
<1> QED BY <1>1, <1>2 DEF ClockInv

\* What a run leaves behind, whichever way it ends.
LEMMA RunHolds ==
  ASSUME ClockInv, NEW s \in Symbols, NEW d \in Durations[s], turn \in DOMAIN Strategies,
         IsNewPeriod(s), Succeed(s, d) \/ Fail(s, d) \/ Raise(s, d)
  PROVE  ClockInv'
<1>1. d \in Nat /\ turn \in 1..Len(Strategies) /\ Len(Strategies) \in Nat
  BY ClockAssumption DEF Symbols
<1>2. now' \in Nat /\ now <= now' /\ turn' \in 1..Len(Strategies) + 1
  BY <1>1 DEF ClockInv, ClockTypes, Succeed, Fail, Raise, Runs
<1>3. Bucket(now) \in Nat /\ Bucket(now') \in Nat /\ Bucket(now) <= Bucket(now')
  BY <1>2, BucketGrows DEF ClockInv, ClockTypes
<1>4. tried' \in [Symbols -> SUBSET Nat]
  BY <1>3 DEF ClockInv, ClockTypes, Succeed, Fail, Raise, Runs
<1>5. CASE Fail(s, d) \/ Raise(s, d)
  <2>1. UNCHANGED <<last, served>>
    BY <1>5 DEF Fail, Raise
  <2>2. ClockTypes'
    BY <1>2, <1>4, <2>1 DEF ClockInv, ClockTypes
  <2>3. \A t \in Symbols : InOrder(t)'
    BY <2>1 DEF ClockInv, InOrder, Bucket
  <2> QED BY <2>2, <2>3 DEF ClockInv
<1>6. CASE Succeed(s, d)
  <2>1. /\ last' = [last EXCEPT ![s] = now']
        /\ served' = [served EXCEPT ![s] = Append(@, Bucket(now))]
    BY <1>6 DEF Succeed, Runs
  <2>2. ClockTypes'
    <3>1. last' \in [Symbols -> Int] /\ \A t \in Symbols : last'[t] \in -1..now'
      BY <1>2, <2>1 DEF ClockInv, ClockTypes
    <3>2. served' \in [Symbols -> Seq(Nat)]
      BY <1>3, <2>1 DEF ClockInv, ClockTypes
    <3> QED BY <1>2, <1>4, <3>1, <3>2 DEF ClockTypes
  <2>3. ASSUME NEW t \in Symbols, t # s PROVE InOrder(t)'
    BY <2>1, <2>3 DEF ClockInv, ClockTypes, InOrder, Bucket
  <2>4. InOrder(s)'
    <3> DEFINE old == served[s]
    <3>1. /\ old \in Seq(Nat) /\ Len(old) \in Nat /\ DOMAIN old = 1..Len(old)
          /\ served'[s] = Append(old, Bucket(now)) /\ last'[s] = now'
      BY <2>1 DEF ClockInv, ClockTypes
    <3>2. /\ DOMAIN served'[s] = 1..Len(old) + 1
          /\ served'[s][Len(old) + 1] = Bucket(now)
          /\ \A i \in 1..Len(old) : served'[s][i] = old[i] /\ old[i] \in Nat
      BY <1>3, <3>1
    <3>3. \A i \in 1..Len(old) : old[i] < Bucket(now)
      <4> SUFFICES ASSUME NEW i \in 1..Len(old) PROVE old[i] < Bucket(now)
        OBVIOUS
      <4>1. last[s] >= 0 /\ old[i] <= Bucket(last[s])
        BY <3>1 DEF ClockInv, InOrder
      <4>2. last[s] \in Nat /\ last[s] <= now
        BY <4>1 DEF ClockInv, ClockTypes
      <4>3. Bucket(last[s]) \in Nat
        BY <4>2, BucketGrows DEF ClockInv, ClockTypes
      <4>4. Bucket(now) > Bucket(last[s])
        BY <4>1, <4>2 DEF IsNewPeriod
      <4> QED BY <1>3, <3>2, <4>1, <4>3, <4>4
    <3>4. (Bucket(last[s]))' = Bucket(now')
      BY <3>1 DEF Bucket
    <3>5. \A i \in DOMAIN served'[s] : last'[s] >= 0 /\ served'[s][i] <= (Bucket(last[s]))'
      <4> HIDE DEF old
      <4> QED BY <1>2, <1>3, <3>1, <3>2, <3>3, <3>4
    <3>6. \A i, j \in DOMAIN served'[s] : i < j => served'[s][i] < served'[s][j]
      <4>1. \A i, j \in 1..Len(old) : i < j => old[i] < old[j]
        BY <3>1 DEF ClockInv, InOrder
      <4> HIDE DEF old
      <4> QED BY <3>1, <3>2, <3>3, <4>1
    <3> QED BY <3>5, <3>6 DEF InOrder
  <2> QED BY <2>2, <2>3, <2>4 DEF ClockInv
<1> QED BY <1>5, <1>6

LEMMA ClockStepHolds == ClockInv /\ [ClockNext]_clockVars => ClockInv'
<1> SUFFICES ASSUME ClockInv, [ClockNext]_clockVars PROVE ClockInv'
  OBVIOUS
<1>0. Len(Strategies) \in Nat /\ DOMAIN Strategies = 1..Len(Strategies) /\ Interval \in Nat
  BY ClockAssumption
<1>1. CASE Cycle
  <2> DEFINE s == Strategies[turn]
  <2>1. turn \in DOMAIN Strategies /\ s \in Symbols /\ Visit(s)
    BY <1>1 DEF Cycle, Symbols
  <2>2. CASE IsNewPeriod(s)
    <3>1. PICK d \in Durations[s] : Succeed(s, d) \/ Fail(s, d) \/ Raise(s, d)
      BY <2>1, <2>2 DEF Visit
    <3> QED BY <2>1, <2>2, <3>1, RunHolds
  <2>3. CASE ~IsNewPeriod(s)
    <3>1. PassOver
      BY <2>1, <2>3 DEF Visit
    <3>2. ClockTypes'
      BY <1>0, <2>1, <3>1 DEF ClockInv, ClockTypes, PassOver
    <3>3. \A t \in Symbols : InOrder(t)'
      BY <3>1 DEF ClockInv, InOrder, PassOver, Bucket
    <3> QED BY <3>2, <3>3 DEF ClockInv
  <2> QED BY <2>2, <2>3
<1>2. CASE Sleep
  <2>1. ClockTypes'
    BY <1>0, <1>2 DEF ClockInv, ClockTypes, Sleep
  <2>2. \A t \in Symbols : InOrder(t)'
    BY <1>2 DEF ClockInv, InOrder, Sleep, Bucket
  <2> QED BY <2>1, <2>2 DEF ClockInv
<1>3. CASE UNCHANGED clockVars
  BY <1>3 DEF ClockInv, ClockTypes, InOrder, Bucket, clockVars
<1> QED BY <1>1, <1>2, <1>3 DEF ClockNext

\* ClockTypes of the clock and of what is remembered of each symbol.
THEOREM ClockTypesHold == ClockSpec => []TypeOK
<1>1. ClockInv => TypeOK
  BY DEF ClockInv, ClockTypes, TypeOK
<1> QED BY ClockInitHolds, ClockStepHolds, <1>1, PTL DEF ClockSpec

\* No period of a symbol is executed with success twice, whatever the runs
\* take, fail or raise (bot.py:90).
THEOREM PeriodsRunOnce == ClockSpec => []OncePerPeriod
<1>1. ClockInv => OncePerPeriod
  <2> SUFFICES ASSUME ClockInv, NEW s \in Symbols, NEW i \in DOMAIN served[s],
                      NEW j \in DOMAIN served[s], served[s][i] = served[s][j]
               PROVE  i = j
    BY DEF OncePerPeriod
  <2>1. served[s] \in Seq(Nat)
    BY DEF ClockInv, ClockTypes
  <2>2. i \in Nat /\ j \in Nat /\ served[s][i] \in Nat /\ served[s][j] \in Nat
    BY <2>1
  <2>3. ~(i < j) /\ ~(j < i)
    BY <2>2 DEF ClockInv, InOrder
  <2> QED BY <2>2, <2>3
<1> QED BY ClockInitHolds, ClockStepHolds, <1>1, PTL DEF ClockSpec
-----------------------------------------------------------------------------
(***************************************************************************)
(* No period is lost if a whole cycle fits the window: D bounds the run of *)
(* a symbol, no symbol raises, and a run that starts in the window ends    *)
(* in its period.                                                          *)
(***************************************************************************)
CycleFits(D) ==
  /\ D \in Nat
  /\ \A s \in Symbols : Durations[s] \subseteq 0..D
  /\ Len(Strategies) * D + Interval <= Window + 1
  /\ Window + D < Period
  /\ Raising = {}

\* The seconds that may have gone by since the loop visited position j: runs
\* of this cycle only, or also the sleep before it.
Elapsed(D, j) ==
  IF j < turn THEN (turn - j) * D ELSE (Len(Strategies) - j + turn) * D + Interval

\* At some moment v, at most that long ago, every period begun was tried.
Recent(D, j) ==
  \E v \in Nat :
    /\ v <= now /\ now - v <= Elapsed(D, j)
    /\ \A b \in Nat \ {0} : b * Period <= v => b \in tried[Strategies[j]]

\* A stamp is of a period that was tried.
OwnStamp == \A s \in Symbols : last[s] >= 0 => Bucket(last[s]) \in tried[s]

Visited(D) == ClockInv /\ OwnStamp /\ \A j \in DOMAIN Strategies : Recent(D, j)

\* Which period a second is in.
LEMMA BucketIs ==
  ASSUME NEW t \in Nat
  PROVE  /\ Bucket(t) \in Nat
         /\ Bucket(t) * Period <= t /\ t < Bucket(t) * Period + Period
         /\ t % Period = t - Bucket(t) * Period
<1>1. Period \in Nat /\ Period > 0
  BY ClockAssumption
<1> QED BY <1>1, SMTT(60) DEF Bucket

LEMMA BucketOf ==
  ASSUME NEW t \in Nat, NEW b \in Nat, b * Period <= t, t < b * Period + Period
  PROVE  Bucket(t) = b
<1> DEFINE q == Bucket(t)
<1>1. Period \in Nat /\ Period > 0
  BY ClockAssumption
<1>2. q \in Nat /\ q * Period <= t /\ t < q * Period + Period
  BY BucketIs
<1> HIDE DEF q
<1>3. ~(q < b)
  <2> SUFFICES ASSUME q < b PROVE FALSE
    OBVIOUS
  <2>1. q + 1 <= b
    BY <1>2
  <2>2. (q + 1) * Period <= b * Period
    BY <1>1, <1>2, <2>1, SMTT(60)
  <2> QED BY <1>1, <1>2, <2>2, SMTT(60)
<1>4. ~(b < q)
  <2> SUFFICES ASSUME b < q PROVE FALSE
    OBVIOUS
  <2>1. b + 1 <= q
    BY <1>2
  <2>2. (b + 1) * Period <= q * Period
    BY <1>1, <1>2, <2>1, SMTT(60)
  <2> QED BY <1>1, <1>2, <2>2, SMTT(60)
<1>5. q = b
  BY <1>2, <1>3, <1>4
<1> QED BY <1>5 DEF q

\* How Elapsed moves with the loop, and its bound.
LEMMA ElapsedMoves ==
  ASSUME NEW D \in Nat, NEW j \in 1..Len(Strategies), Len(Strategies) \in Nat, Interval \in Nat,
         turn \in 1..Len(Strategies) + 1
  PROVE  /\ Elapsed(D, j) \in Nat
         /\ Elapsed(D, j) <= Len(Strategies) * D + Interval
         /\ turn \in 1..Len(Strategies) /\ turn' = turn + 1 /\ j # turn
              => Elapsed(D, j)' = Elapsed(D, j) + D
         /\ turn \in 1..Len(Strategies) /\ turn' = turn + 1 /\ j = turn
              => Elapsed(D, j)' = D
         /\ turn = Len(Strategies) + 1 /\ turn' = 1
              => Elapsed(D, j)' = Elapsed(D, j) + Interval
<1> DEFINE N == Len(Strategies)
<1>1. \A m, n \in Nat : m * D \in Nat /\ (m + 1) * D = m * D + D /\ (m <= n => m * D <= n * D)
  BY SMTT(60)
<1>2. CASE j < turn
  <2>1. turn - j \in Nat /\ turn - j <= N /\ Elapsed(D, j) = (turn - j) * D
    BY <1>2 DEF Elapsed
  <2>2. (turn - j) * D \in Nat /\ (turn - j) * D <= N * D /\ N * D \in Nat
    BY <1>1, <2>1
  <2>3. turn' = turn + 1 => Elapsed(D, j)' = (turn - j) * D + D
    <3> SUFFICES ASSUME turn' = turn + 1 PROVE Elapsed(D, j)' = (turn - j) * D + D
      OBVIOUS
    <3>1. j < turn' /\ turn' - j = (turn - j) + 1
      BY <1>2
    <3>2. Elapsed(D, j)' = ((turn - j) + 1) * D
      BY <3>1 DEF Elapsed
    <3> QED BY <1>1, <2>1, <3>2
  <2>4. turn = N + 1 /\ turn' = 1 => Elapsed(D, j)' = (turn - j) * D + Interval
    <3> SUFFICES ASSUME turn = N + 1, turn' = 1 PROVE Elapsed(D, j)' = (turn - j) * D + Interval
      OBVIOUS
    <3>1. ~(j < turn') /\ N - j + turn' = turn - j
      OBVIOUS
    <3> QED BY <3>1 DEF Elapsed
  <2> QED BY <1>2, <2>1, <2>2, <2>3, <2>4
<1>3. CASE ~(j < turn)
  <2>1. /\ N - j + turn \in Nat /\ N - j + turn <= N
        /\ Elapsed(D, j) = (N - j + turn) * D + Interval /\ turn # N + 1
    BY <1>3 DEF Elapsed
  <2>2. (N - j + turn) * D \in Nat /\ (N - j + turn) * D <= N * D /\ N * D \in Nat
    BY <1>1, <2>1
  <2>3. turn' = turn + 1 /\ j # turn => Elapsed(D, j)' = (N - j + turn) * D + D + Interval
    <3> SUFFICES ASSUME turn' = turn + 1, j # turn
                 PROVE  Elapsed(D, j)' = (N - j + turn) * D + D + Interval
      OBVIOUS
    <3>1. ~(j < turn') /\ N - j + turn' = (N - j + turn) + 1
      BY <1>3
    <3>2. Elapsed(D, j)' = ((N - j + turn) + 1) * D + Interval
      BY <3>1 DEF Elapsed
    <3> QED BY <1>1, <2>1, <3>2
  <2>4. turn' = turn + 1 /\ j = turn => Elapsed(D, j)' = D
    <3> SUFFICES ASSUME turn' = turn + 1, j = turn PROVE Elapsed(D, j)' = D
      OBVIOUS
    <3>1. j < turn' /\ turn' - j = 1
      OBVIOUS
    <3> QED BY <3>1, SMTT(30) DEF Elapsed
  <2> QED BY <1>3, <2>1, <2>2, <2>3, <2>4
<1> QED BY <1>2, <1>3

LEMMA RecentInit == ASSUME NEW D, CycleFits(D) PROVE ClockInit => Visited(D)
<1> SUFFICES ASSUME ClockInit PROVE Visited(D)
  OBVIOUS
<1>1. ClockInv
  BY ClockInitHolds
<1>2. OwnStamp
  BY DEF ClockInit, OwnStamp
<1>3. ASSUME NEW j \in DOMAIN Strategies PROVE Recent(D, j)
  <2>1. Len(Strategies) \in Nat /\ DOMAIN Strategies = 1..Len(Strategies) /\ Interval \in Nat /\ D \in Nat
        /\ Period \in Nat
    BY ClockAssumption DEF CycleFits
  <2>2. Elapsed(D, j) \in Nat
    BY <1>1, <1>3, <2>1, ElapsedMoves DEF ClockInv, ClockTypes
  <2>3. \A b \in Nat \ {0} : ~(b * Period <= now)
    <3> SUFFICES ASSUME NEW b \in Nat \ {0} PROVE ~(b * Period <= now)
      OBVIOUS
    <3>1. Period <= b * Period
      BY <2>1, SMTT(60)
    <3>2. now < Period /\ now \in Nat
      BY <2>1 DEF ClockInit
    <3> QED BY <2>1, <3>1, <3>2, SMTT(30)
  <2> QED BY <2>2, <2>3, <1>1 DEF Recent, ClockInv, ClockTypes
<1> QED BY <1>1, <1>2, <1>3 DEF Visited

\* A visit in the window leaves its period tried, by a run or by an earlier one.
LEMMA VisitTries ==
  ASSUME NEW D, CycleFits(D), Visited(D), Cycle,
         NEW b \in Nat \ {0}, b * Period <= now
  PROVE  b \in tried'[Strategies[turn]]
<1> DEFINE s == Strategies[turn]
<1>1. /\ Len(Strategies) \in Nat /\ DOMAIN Strategies = 1..Len(Strategies) /\ D \in Nat
      /\ {Period, Window, Interval} \subseteq Nat /\ Window < Period
      /\ Len(Strategies) * D + Interval <= Window + 1
  BY ClockAssumption DEF CycleFits
<1>2. turn \in 1..Len(Strategies) /\ s \in Symbols /\ Visit(s) /\ now \in Nat
  BY <1>1 DEF Cycle, Symbols, Visited, ClockInv, ClockTypes
<1>3. tried[s] \subseteq tried'[s]
  BY <1>2 DEF Visit, Succeed, Fail, Raise, Runs, PassOver, Visited, ClockInv, ClockTypes
<1>4. PICK v \in Nat : /\ v <= now /\ now - v <= Elapsed(D, turn)
                       /\ \A c \in Nat \ {0} : c * Period <= v => c \in tried[s]
  BY <1>1, <1>2 DEF Visited, Recent
<1>5. CASE b * Period <= v
  BY <1>3, <1>4, <1>5
<1>6. CASE ~(b * Period <= v)
  <2>1. b * Period \in Nat
    BY <1>1, SMTT(30)
  <2>2. Elapsed(D, turn) \in Nat /\ Elapsed(D, turn) <= Window + 1
    <3>1. /\ Elapsed(D, turn) \in Nat
          /\ Elapsed(D, turn) <= Len(Strategies) * D + Interval
      BY <1>1, <1>2, ElapsedMoves
    <3>2. Len(Strategies) * D \in Nat
      BY <1>1, SMTT(30)
    <3> QED BY <1>1, <3>1, <3>2
  <2>3. now <= b * Period + Window
    BY <1>1, <1>2, <1>4, <1>6, <2>1, <2>2
  <2>4. Bucket(now) = b
    <3>1. now < b * Period + Period
      BY <1>1, <1>2, <2>1, <2>3
    <3> QED BY <1>2, <3>1, BucketOf
  <2>5. InWindow(now)
    <3>1. now % Period = now - b * Period
      BY <1>2, <2>4, BucketIs
    <3> QED BY <1>1, <1>2, <2>1, <2>3, <3>1 DEF InWindow
  <2>6. CASE IsNewPeriod(s)
    <3>1. tried' = [tried EXCEPT ![s] = @ \cup {Bucket(now)}]
      BY <1>2, <2>6 DEF Visit, Succeed, Fail, Raise, Runs
    <3> QED BY <1>2, <2>4, <3>1 DEF Visited, ClockInv, ClockTypes
  <2>7. CASE ~IsNewPeriod(s)
    <3>1. last[s] \in Nat /\ last[s] <= now /\ ~(b > Bucket(last[s]))
      BY <1>2, <2>4, <2>5, <2>7 DEF IsNewPeriod, Visited, ClockInv, ClockTypes
    <3>2. Bucket(last[s]) \in Nat /\ Bucket(last[s]) <= b
      BY <1>2, <2>4, <3>1, BucketGrows
    <3>3. Bucket(last[s]) = b
      BY <3>1, <3>2
    <3>4. Bucket(last[s]) \in tried[s]
      BY <1>2, <3>1 DEF Visited, OwnStamp
    <3> QED BY <1>3, <3>3, <3>4
  <2> QED BY <2>6, <2>7
<1> QED BY <1>5, <1>6

LEMMA StampHolds ==
  ASSUME NEW D, CycleFits(D), Visited(D), [ClockNext]_clockVars
  PROVE  OwnStamp'
<1>1. OwnStamp /\ ClockInv
  BY DEF Visited
<1>2. CASE Cycle
  <2> DEFINE s == Strategies[turn]
  <2>1. s \in Symbols /\ Visit(s)
    BY <1>2 DEF Cycle, Symbols
  <2>2. CASE UNCHANGED last
    <3>1. \A t \in Symbols : tried[t] \subseteq tried'[t]
      BY <1>1, <2>1 DEF Visit, Succeed, Fail, Raise, Runs, PassOver, ClockInv, ClockTypes
    <3>2. \A t \in Symbols : last'[t] = last[t] /\ Bucket(last[t])' = Bucket(last[t])
      BY <2>2 DEF Bucket
    <3> QED BY <1>1, <3>1, <3>2 DEF OwnStamp
  <2>3. ASSUME NEW d \in Durations[s], Succeed(s, d), IsNewPeriod(s)
        PROVE  OwnStamp'
    <3>1. /\ last' = [last EXCEPT ![s] = now']
          /\ tried' = [tried EXCEPT ![s] = @ \cup {Bucket(now)}]
          /\ now' = now + d /\ d \in 0..D /\ D \in Nat /\ now \in Nat
          /\ last \in [Symbols -> Int] /\ tried \in [Symbols -> SUBSET Nat]
      BY <1>1, <2>1, <2>3 DEF Succeed, Runs, CycleFits, ClockInv, ClockTypes
    <3>2. Bucket(now') = Bucket(now)
      <4>1. /\ Bucket(now) \in Nat /\ Bucket(now) * Period <= now
            /\ now % Period = now - Bucket(now) * Period
        BY <3>1, BucketIs
      <4>2. /\ Period \in Nat /\ Window \in Nat /\ Window + D < Period
            /\ now % Period <= Window
        BY <2>3, ClockAssumption DEF CycleFits, IsNewPeriod, InWindow
      <4>3. Bucket(now) * Period \in Nat
        BY <4>1, <4>2, SMTT(30)
      <4>4. Bucket(now) * Period <= now' /\ now' < Bucket(now) * Period + Period /\ now' \in Nat
        BY <3>1, <4>1, <4>2, <4>3
      <4> QED BY <4>1, <4>4, BucketOf
    <3>3. ASSUME NEW t \in Symbols, last'[t] >= 0 PROVE Bucket(last[t])' \in tried'[t]
      <4>1. CASE t = s
        <5>1. Bucket(last[t])' = Bucket(now')
          BY <2>1, <3>1, <4>1 DEF Bucket
        <5> QED BY <2>1, <3>1, <3>2, <4>1, <5>1
      <4>2. CASE t # s
        <5>1. last'[t] = last[t] /\ tried'[t] = tried[t]
          BY <2>1, <3>1, <3>3, <4>2
        <5>2. Bucket(last[t])' = Bucket(last[t])
          BY <5>1 DEF Bucket
        <5> QED BY <1>1, <3>3, <5>1, <5>2 DEF OwnStamp
      <4> QED BY <4>1, <4>2
    <3> QED BY <3>3 DEF OwnStamp
  <2> QED BY <2>1, <2>2, <2>3 DEF Visit, Fail, Raise, PassOver
<1>3. CASE Sleep
  BY <1>1, <1>3 DEF Sleep, OwnStamp, Bucket
<1>4. CASE UNCHANGED clockVars
  BY <1>1, <1>4 DEF clockVars, OwnStamp, Bucket
<1> QED BY <1>2, <1>3, <1>4 DEF ClockNext

LEMMA LaterBy ==
  \A v, t, u, e, d \in Nat :
    v <= t /\ t - v <= e /\ t <= u /\ u - t <= d => v <= u /\ u - v <= e + d
OBVIOUS

LEMMA RecentHolds ==
  ASSUME NEW D, CycleFits(D), Visited(D), [ClockNext]_clockVars, NEW j \in DOMAIN Strategies
  PROVE  Recent(D, j)'
<1> DEFINE s == Strategies[j]
<1>1. /\ Len(Strategies) \in Nat /\ DOMAIN Strategies = 1..Len(Strategies) /\ D \in Nat
      /\ {Period, Window, Interval} \subseteq Nat
  BY ClockAssumption DEF CycleFits
<1>2. now \in Nat /\ turn \in 1..Len(Strategies) + 1 /\ ClockInv /\ Recent(D, j)
      /\ s \in Symbols /\ tried \in [Symbols -> SUBSET Nat]
  BY DEF Visited, ClockInv, ClockTypes, Symbols
<1>3. /\ Elapsed(D, j) \in Nat
      /\ turn \in 1..Len(Strategies) /\ turn' = turn + 1 /\ j # turn
              => Elapsed(D, j)' = Elapsed(D, j) + D
      /\ turn \in 1..Len(Strategies) /\ turn' = turn + 1 /\ j = turn
              => Elapsed(D, j)' = D
      /\ turn = Len(Strategies) + 1 /\ turn' = 1
              => Elapsed(D, j)' = Elapsed(D, j) + Interval
  BY <1>1, <1>2, ElapsedMoves
<1>4. PICK v \in Nat : /\ v <= now /\ now - v <= Elapsed(D, j)
                       /\ \A b \in Nat \ {0} : b * Period <= v => b \in tried[s]
  BY <1>2 DEF Recent
<1>5. CASE Cycle
  <2>1. turn \in 1..Len(Strategies) /\ Strategies[turn] \in Symbols /\ Visit(Strategies[turn])
    BY <1>1, <1>5 DEF Cycle, Symbols
  <2>2. now' \in Nat /\ now <= now' /\ now' - now <= D /\ turn' = turn + 1
    <3>1. CASE IsNewPeriod(Strategies[turn])
      <4>1. PICK d \in Durations[Strategies[turn]] :
              Succeed(Strategies[turn], d) \/ Fail(Strategies[turn], d) \/ Raise(Strategies[turn], d)
        BY <2>1, <3>1 DEF Visit
      <4>2. d \in 0..D /\ Raising = {}
        BY <2>1 DEF CycleFits
      <4> QED BY <1>1, <1>2, <4>1, <4>2 DEF Succeed, Fail, Raise, Runs
    <3>2. CASE ~IsNewPeriod(Strategies[turn])
      BY <1>1, <1>2, <2>1, <3>2 DEF Visit, PassOver
    <3> QED BY <3>1, <3>2
  <2>3. tried[s] \subseteq tried'[s]
    BY <1>2, <2>1 DEF Visit, Succeed, Fail, Raise, Runs, PassOver
  <2>4. CASE j = turn
    <3>1. \A b \in Nat \ {0} : b * Period <= now => b \in tried'[s]
      BY <1>5, <2>4, VisitTries
    <3>2. Elapsed(D, j)' = D
      BY <1>3, <2>1, <2>2, <2>4
    <3> QED BY <1>1, <1>2, <2>2, <3>1, <3>2 DEF Recent
  <2>5. CASE j # turn
    <3>1. Elapsed(D, j)' = Elapsed(D, j) + D
      BY <1>3, <2>1, <2>2, <2>5
    <3>2. v <= now' /\ now' - v <= Elapsed(D, j) + D
      <4> DEFINE e == Elapsed(D, j)
      <4>1. e \in Nat /\ v <= now /\ now - v <= e /\ now \in Nat /\ D \in Nat
        BY <1>1, <1>2, <1>3, <1>4
      <4>2. now' \in Nat /\ now <= now' /\ now' - now <= D
        BY <2>2
      <4> HIDE DEF e
      <4>3. v <= now' /\ now' - v <= e + D
        BY <4>1, <4>2, LaterBy
      <4> QED BY <4>3 DEF e
    <3> QED BY <1>4, <2>3, <3>1, <3>2 DEF Recent
  <2> QED BY <2>4, <2>5
<1>6. CASE Sleep
  <2>1. turn = Len(Strategies) + 1 /\ turn' = 1 /\ now' = now + Interval /\ tried' = tried
    BY <1>1, <1>2, <1>6 DEF Sleep
  <2>2. Elapsed(D, j)' = Elapsed(D, j) + Interval
    BY <1>3, <2>1
  <2>3. v <= now' /\ now' - v <= Elapsed(D, j) + Interval
    BY <1>1, <1>2, <1>3, <1>4, <2>1
  <2> QED BY <1>4, <2>1, <2>2, <2>3 DEF Recent
<1>7. CASE UNCHANGED clockVars
  BY <1>2, <1>7 DEF Recent, Elapsed, clockVars
<1> QED BY <1>5, <1>6, <1>7 DEF ClockNext

LEMMA VisitedHolds ==
  ASSUME NEW D, CycleFits(D)
  PROVE  Visited(D) /\ [ClockNext]_clockVars => Visited(D)'
BY ClockStepHolds, StampHolds, RecentHolds DEF Visited

\* While a cycle fits the window every symbol is run in every period that
\* begins while the bot runs (bot.py:73, 130).
THEOREM NoPeriodIsLost ==
  ASSUME NEW D, CycleFits(D)
  PROVE  ClockSpec => []NoPeriodLost
<1>1. Visited(D) => NoPeriodLost
  <2> SUFFICES ASSUME Visited(D), NEW s \in Symbols, NEW b \in 1..Bucket(now),
                      now > b * Period + Window
               PROVE  b \in tried[s]
    BY DEF NoPeriodLost
  <2>1. PICK j \in DOMAIN Strategies : s = Strategies[j]
    BY DEF Symbols
  <2>2. /\ Len(Strategies) \in Nat /\ DOMAIN Strategies = 1..Len(Strategies) /\ D \in Nat
        /\ {Period, Window, Interval} \subseteq Nat
        /\ Len(Strategies) * D + Interval <= Window + 1
    BY ClockAssumption DEF CycleFits
  <2>3. now \in Nat /\ turn \in 1..Len(Strategies) + 1 /\ Bucket(now) \in Nat
    BY BucketIs DEF Visited, ClockInv, ClockTypes
  <2>4. b \in Nat \ {0} /\ b * Period \in Nat /\ Len(Strategies) * D \in Nat
    BY <2>2, <2>3, SMTT(30)
  <2>5. Elapsed(D, j) \in Nat /\ Elapsed(D, j) <= Len(Strategies) * D + Interval
    BY <2>1, <2>2, <2>3, ElapsedMoves
  <2>6. PICK v \in Nat : /\ v <= now /\ now - v <= Elapsed(D, j)
                         /\ \A c \in Nat \ {0} : c * Period <= v => c \in tried[s]
    BY <2>1 DEF Visited, Recent
  <2>7. \A x, y, e \in Nat : /\ now > x + Window /\ y + Interval <= Window + 1
                           /\ e <= y + Interval /\ now - v <= e
                           => x <= v
    BY <2>2, <2>3
  <2>8. b * Period <= v
    BY <2>2, <2>4, <2>5, <2>6, <2>7
  <2> QED BY <2>4, <2>6, <2>8
<1>2. ClockInit => Visited(D)
  BY RecentInit
<1>3. Visited(D) /\ [ClockNext]_clockVars => Visited(D)'
  BY VisitedHolds
<1> QED BY <1>1, <1>2, <1>3, PTL DEF ClockSpec
-----------------------------------------------------------------------------
(* The execution of a signal                                               *)

(* While an attempt is on its way, only market orders race with it: a      *)
(* limit entry that fills after the positions were read is not seen.       *)
NoRacingLimits == \A s \in Setups : s.races => s.entry = "market"

-----------------------------------------------------------------------------
(* The lists of actions.                                                   *)

Close == [call |-> "close", side |-> 0]
CancelAll == [call |-> "cancel", side |-> 0]
Entry(d) == [call |-> "entry", side |-> d]
Stop(d) == [call |-> "stop", side |-> d]
Profit(d) == [call |-> "profit", side |-> d]

Protecting(d) == <<Stop(d), Profit(d)>>
Reversing(d) == <<Close, CancelAll, Entry(d), Stop(d), Profit(d)>>
Reentering(d) == <<CancelAll, Entry(d), Stop(d), Profit(d)>>

LEMMA ReversingIs == ASSUME NEW d PROVE Leaving \o Opening(d) = Reversing(d)
<1> DEFINE S == {Close, CancelAll, Entry(d), Stop(d), Profit(d)}
           l == Leaving
           o == Opening(d)
           r == Reversing(d)
<1>1. /\ l \in Seq(S) /\ o \in Seq(S) /\ r \in Seq(S)
      /\ Len(l) = 2 /\ Len(o) = 3 /\ Len(r) = 5
  BY DEF Leaving, Opening, Reversing, Close, CancelAll, Entry, Stop, Profit
<1>2. /\ l[1] = Close /\ l[2] = CancelAll
      /\ o[1] = Entry(d) /\ o[2] = Stop(d) /\ o[3] = Profit(d)
      /\ r[1] = Close /\ r[2] = CancelAll /\ r[3] = Entry(d) /\ r[4] = Stop(d) /\ r[5] = Profit(d)
  BY DEF Leaving, Opening, Reversing, Close, CancelAll, Entry, Stop, Profit
<1> HIDE DEF l, o, r, S
<1>3. /\ l \o o \in Seq(S) /\ Len(l \o o) = Len(l) + Len(o)
      /\ \A i \in 1..Len(l) + Len(o) :
           (l \o o)[i] = IF i <= Len(l) THEN l[i] ELSE o[i - Len(l)]
  BY <1>1, ConcatProperties, Zenon
<1>4. /\ Len(l \o o) = Len(r)
      /\ \A i \in 1..Len(r) : (l \o o)[i] = r[i]
  BY <1>1, <1>2, <1>3
<1>5. l \o o = r
  BY <1>1, <1>3, <1>4, SeqEqual, Zenon
<1> QED BY <1>5 DEF l, o, r

LEMMA Parts ==
  ASSUME NEW d
  PROVE  /\ Head(Leaving) = Close /\ Tail(Leaving) = <<CancelAll>> /\ Len(Leaving) = 2
         /\ Head(Opening(d)) = Entry(d) /\ Tail(Opening(d)) = Protecting(d) /\ Len(Opening(d)) = 3
         /\ Head(Protecting(d)) = Stop(d) /\ Tail(Protecting(d)) = <<Profit(d)>>
         /\ Len(Protecting(d)) = 2
         /\ Head(Reversing(d)) = Close /\ Tail(Reversing(d)) = Reentering(d)
         /\ Len(Reversing(d)) = 5
         /\ Head(Reentering(d)) = CancelAll /\ Tail(Reentering(d)) = Opening(d)
         /\ Len(Reentering(d)) = 4
         /\ Head(<<CancelAll>>) = CancelAll /\ Len(<<CancelAll>>) = 1
         /\ Head(<<Profit(d)>>) = Profit(d) /\ Len(<<Profit(d)>>) = 1
BY DEF Leaving, Opening, Reversing, Protecting, Reentering, Close, CancelAll, Entry, Stop, Profit

LEMMA ListKinds ==
  ASSUME NEW d
  PROVE  /\ Enters(Opening(d)) /\ ~ Closes(Opening(d))
         /\ Enters(Reversing(d)) /\ Closes(Reversing(d))
         /\ ~ Enters(Leaving) /\ Closes(Leaving)
         /\ Leaving # <<>> /\ Opening(d) # <<>> /\ Reversing(d) # <<>>
<1>1. /\ Range(Opening(d)) = {Entry(d), Stop(d), Profit(d)}
      /\ Range(Leaving) = {Close, CancelAll}
      /\ Range(Reversing(d)) = {Close, CancelAll, Entry(d), Stop(d), Profit(d)}
  BY DEF Leaving, Opening, Reversing, Range, Close, CancelAll, Entry, Stop, Profit
<1> QED BY <1>1, Parts DEF Enters, Closes, Close, CancelAll, Entry, Stop, Profit

Kinds == {"none", "hold", "enter", "exit", "reverse", "reverse_risk", "risk", "blocked"}
Entering == {"enter", "reverse", "reverse_risk"}

LEMMA ActionsAre ==
  ASSUME NEW l, l.kind \in Kinds
  PROVE  Actions(l) = CASE l.kind = "enter" -> Opening(l.side)
                        [] l.kind = "exit" -> Leaving
                        [] l.kind \in {"reverse", "reverse_risk"} -> Reversing(l.side)
                        [] OTHER -> <<>>
BY ReversingIs DEF Actions, Kinds

LEMMA WithoutEntryIs ==
  ASSUME NEW d
  PROVE  WithoutEntry(Opening(d)) = <<>> /\ WithoutEntry(Reversing(d)) = Leaving
BY ListKinds DEF WithoutEntry
-----------------------------------------------------------------------------
(* The invariant.                                                          *)

LimitFree == \A o \in orders : o.kind # "limit"
Flat == pos = 0 /\ LimitFree

\* What is open at the exchange: one unit, held or on order.
ExchangeOK ==
  /\ setup \in Setups
  /\ pos \in {-1, 0, 1}
  /\ orders \subseteq [kind : {"limit", "stop", "profit"}, side : Side]
  /\ pos # 0 => LimitFree
  /\ \A a, b \in orders : a.kind = "limit" /\ b.kind = "limit" => a = b
  /\ setup.entry = "market" => LimitFree

BookOK ==
  /\ held \in {-1, 0, 1}
  /\ label.kind \in Kinds
  /\ label.kind \in Entering => label.side \in Side

\* The actions that may be left in the middle of an attempt.
Left(l) ==
  IF l.kind = "exit" THEN {Leaving, <<CancelAll>>}
  ELSE {Opening(l.side), Protecting(l.side), <<Profit(l.side)>>,
        Leaving, <<CancelAll>>, Reversing(l.side), Reentering(l.side)}

PlanOK ==
  /\ pc \in {"idle", "orphan", "purge", "check", "size", "act"}
  /\ pc # "idle" => ~ done /\ label.kind \in Entering \cup {"exit"}
  /\ pc \in {"idle", "orphan"} => cache = "unknown"
  /\ pc \in {"orphan", "purge", "check", "size"} => todo = Actions(label)
  /\ pc = "check" => label.kind = "enter" /\ cache \in {"flat", "held"}
  /\ pc = "size" => label.kind \in Entering
  /\ pc = "act" => todo \in Left(label)

\* What the attempt relies on at the exchange before its next call.
Swept == cancelled => orders = {}
Poised ==
  /\ pc = "purge" => pos = 0 /\ cache = "flat"
  /\ pc = "check" /\ cache = "flat" => Flat
  /\ pc = "size" /\ label.kind = "enter" => Flat
  /\ pc = "act" /\ Head(todo).call = "cancel" => pos = 0
  /\ pc = "act" /\ Head(todo).call = "entry" => Flat
Ready == Swept /\ Poised

\* Between an entry and its stop the exposure has the side of the label, at
\* any other time a stop of its own.
Guarded ==
  /\ pos # 0 => Stopped
  /\ \A o \in orders : o.kind = "limit" => \E s \in Pending("stop") : s.side = o.side
Exposed ==
  /\ pos \in {0, label.side}
  /\ \A o \in orders : o.kind = "limit" => o.side = label.side
Guarding ==
  /\ failures \in Nat
  /\ failures = 0 => IF pc = "act" /\ Head(todo).call = "stop" THEN Exposed ELSE Guarded

Inv == ExchangeOK /\ BookOK /\ PlanOK /\ Ready /\ Guarding

LEMMA InitHolds == Init => Inv
<1> SUFFICES ASSUME Init PROVE Inv
  OBVIOUS
<1>1. ExchangeOK
  BY DEF Init, ExchangeOK, LimitFree
<1>2. BookOK
  BY DEF Init, BookOK, Opens, HeldAfter, Kinds, Entering, Side
<1>3. PlanOK /\ Ready
  BY DEF Init, PlanOK, Ready, Swept, Poised
<1>4. Guarding
  BY DEF Init, Guarding, Guarded
<1> QED BY <1>1, <1>2, <1>3, <1>4 DEF Inv

(* An attempt that ends, with a stop at the exchange or after a failure.   *)
LEMMA FinishHolds ==
  ASSUME NEW ok \in BOOLEAN, Finish(ok), ExchangeOK', BookOK',
         failures' \in Nat, failures' = 0 => Guarded'
  PROVE  Inv'
<1>1. PlanOK' /\ Ready'
  BY DEF Finish, PlanOK, Ready, Swept, Poised
<1>2. Guarding'
  BY DEF Finish, Guarding
<1> QED BY <1>1, <1>2 DEF Inv

(* Orders placed by the account are never undone by the exchange alone.    *)
LEMMA MarketHolds ==
  ASSUME Inv, NoRacingLimits, Market, UNCHANGED setup
  PROVE  Inv'
<1> USE DEF Inv
<1>0. /\ UNCHANGED <<setup, held, label, prev, period, pc, todo, cache, cancelled, done, failures>>
      /\ pc # "idle" => LimitFree
  BY DEF Market, book, attempt, ExchangeOK, NoRacingLimits
<1>1. CASE Fill
  <2>1. PICK o \in Pending("limit") : pos' = pos + o.side /\ orders' = orders \ {o}
    BY <1>1 DEF Fill
  <2>2. /\ o \in orders /\ o.kind = "limit" /\ o.side \in Side /\ pos = 0 /\ pc = "idle"
        /\ setup.entry # "market"
    BY <1>0, <2>1 DEF ExchangeOK, LimitFree, Pending
  <2>3. ExchangeOK'
    BY <1>0, <2>1, <2>2 DEF ExchangeOK, LimitFree, Side
  <2>4. BookOK' /\ PlanOK'
    BY <1>0 DEF BookOK, PlanOK, Left
  <2>5. Ready'
    BY <1>0, <2>1, <2>2 DEF Ready, Swept, Poised
  <2>6. Guarding'
    <3> SUFFICES ASSUME failures = 0 PROVE Guarded'
      BY <1>0, <2>2 DEF Guarding
    <3>1. Guarded
      BY <2>2 DEF Guarding
    <3>2. PICK s \in Pending("stop") : s.side = o.side
      BY <2>2, <3>1 DEF Guarded
    <3>3. s \in orders' /\ s.kind = "stop" /\ s.side * pos' > 0
      BY <2>1, <2>2, <3>2 DEF Pending, Side
    <3>4. LimitFree'
      BY <2>1, <2>2 DEF ExchangeOK, LimitFree
    <3> QED BY <3>3, <3>4 DEF Guarded, Stopped, Pending, LimitFree
  <2> QED BY <2>3, <2>4, <2>5, <2>6
<1>2. CASE Trigger
  <2>1. PICK o \in orders : /\ o.kind \in {"stop", "profit"}
                            /\ o.kind = "stop" => Pending("limit") = {}
                            /\ pos' = IF pos * o.side > 0 THEN 0 ELSE pos
                            /\ orders' = orders \ {o}
    BY <1>2 DEF Trigger
  <2>2. /\ pos' = 0 \/ pos' = pos
        /\ orders' \subseteq orders
        /\ LimitFree => LimitFree'
        /\ Flat => Flat'
    BY <2>1 DEF LimitFree, Flat
  <2>3. ExchangeOK'
    BY <1>0, <2>2 DEF ExchangeOK, LimitFree
  <2>4. BookOK' /\ PlanOK'
    BY <1>0 DEF BookOK, PlanOK, Left
  <2>5. Ready'
    BY <1>0, <2>2 DEF Ready, Swept, Poised
  <2>6. Exposed => Exposed'
    BY <1>0, <2>2 DEF Exposed
  <2>7. ASSUME Guarded PROVE Guarded'
    <3>1. ASSUME pos' # 0 PROVE Stopped'
      <4>1. pos' = pos /\ pos # 0 /\ ~ (pos * o.side > 0)
        BY <2>1, <3>1
      <4>2. PICK s \in Pending("stop") : s.side * pos > 0
        BY <2>7, <4>1 DEF Guarded, Stopped
      <4>3. s \in orders /\ s.kind = "stop" /\ s.side \in Int /\ o.side \in Int /\ pos \in Int
        BY <4>2, <2>1 DEF Pending, ExchangeOK, Side
      <4>4. s # o
        <5>1. s.side * pos = pos * s.side
          BY <4>3
        <5> QED BY <5>1, <4>1, <4>2
      <4>5. s \in orders'
        BY <2>1, <4>3, <4>4
      <4> QED BY <4>1, <4>2, <4>3, <4>5 DEF Stopped, Pending
    <3>2. ASSUME NEW l \in orders', l.kind = "limit" PROVE \E s \in Pending("stop")' : s.side = l.side
      <4>1. l \in orders /\ o.kind = "profit"
        BY <2>1, <3>2 DEF Pending
      <4>2. PICK s \in Pending("stop") : s.side = l.side
        BY <2>7, <3>2, <4>1 DEF Guarded
      <4>3. s \in Pending("stop")'
        BY <2>1, <4>1, <4>2 DEF Pending
      <4> QED BY <4>2, <4>3
    <3> QED BY <3>1, <3>2 DEF Guarded
  <2>8. Guarding'
    BY <1>0, <2>6, <2>7 DEF Guarding
  <2> QED BY <2>3, <2>4, <2>5, <2>8
<1> QED BY <1>1, <1>2 DEF Market

(* The labels change between attempts only.                                *)
LEMMA BookHolds ==
  ASSUME Inv, RiskExit \/ NextBar, UNCHANGED setup
  PROVE  Inv'
<1> USE DEF Inv
<1>1. /\ pc = "idle" /\ UNCHANGED <<setup, pos, orders, pc, todo, cache, cancelled, failures>>
      /\ done' = done \/ done' = FALSE
  BY DEF RiskExit, NextBar, exchange, attempt
<1>2. ExchangeOK'
  BY <1>1 DEF ExchangeOK, LimitFree
<1>3. BookOK'
  <2>1. CASE RiskExit
    <3>1. /\ held' = 0 /\ label'.side = label.side
          /\ label'.kind = IF label.kind = "reverse" THEN "reverse_risk" ELSE "risk"
      BY <2>1 DEF RiskExit, BookOK
    <3> QED BY <3>1 DEF BookOK, Kinds, Entering
  <2>2. CASE NextBar
    BY <2>2 DEF NextBar, BookOK, Opens, HeldAfter, Kinds, Entering, Side
  <2> QED BY <2>1, <2>2
<1>4. PlanOK' /\ Ready'
  BY <1>1 DEF PlanOK, Ready, Swept, Poised
<1>5. Guarding'
  BY <1>1 DEF Guarding, Guarded, Stopped, Pending
<1> QED BY <1>2, <1>3, <1>4, <1>5

(* Steps of the bot that leave the exchange alone.                         *)
LEMMA StillExchange ==
  ASSUME Inv, UNCHANGED <<setup, pos, orders, held, label, prev, period>>
  PROVE  /\ ExchangeOK' /\ BookOK'
         /\ Guarded' = Guarded /\ Exposed' = Exposed /\ Flat' = Flat
BY DEF Inv, ExchangeOK, BookOK, LimitFree, Guarded, Exposed, Flat, Stopped, Pending

LEMMA StartHolds ==
  ASSUME Inv, Start, UNCHANGED setup
  PROVE  Inv'
<1> USE DEF Inv
<1>1. /\ UNCHANGED <<setup, pos, orders, held, label, prev, period, failures>>
      /\ pc = "idle" /\ ~ done
  BY DEF Start, exchange, book
<1>2. ExchangeOK' /\ BookOK' /\ (Guarded => Guarded') /\ (Exposed => Exposed')
  BY <1>1, StillExchange
<1>3. Guarded \/ failures # 0
  BY <1>1 DEF Guarding
<1>4. CASE Actions(label) = <<>>
  <2>1. Finish(TRUE)
    BY <1>4 DEF Start
  <2> QED BY <1>1, <1>2, <1>3, <2>1, FinishHolds DEF Guarding
<1>5. CASE Actions(label) # <<>>
  <2>1. /\ pc' = IF NeedsOrphanCheck(Actions(label)) THEN "orphan"
                 ELSE AfterOrphanCheck(Actions(label))
        /\ todo' = Actions(label)
        /\ UNCHANGED <<cache, cancelled, done>>
    BY <1>5 DEF Start
  <2>2. label.kind \in Entering \cup {"exit"}
    BY <1>5, ActionsAre DEF BookOK, Entering
  <2>3. CASE label.kind \in Entering
    <3>1. Enters(Actions(label))
      BY <2>3, ActionsAre, ListKinds DEF BookOK, Entering
    <3>2. pc' = "orphan"
      BY <2>1, <3>1 DEF NeedsOrphanCheck
    <3>3. PlanOK' /\ Ready' /\ Guarding'
      BY <1>1, <1>2, <1>3, <2>1, <2>2, <3>2 DEF PlanOK, Ready, Swept, Poised, Guarding
    <3> QED BY <1>2, <3>3
  <2>4. CASE label.kind = "exit"
    <3>1. Actions(label) = Leaving /\ ~ Enters(Leaving)
      BY <2>4, ActionsAre, ListKinds DEF BookOK
    <3>2. pc' \in {"orphan", "act"}
      BY <2>1, <3>1 DEF AfterOrphanCheck
    <3>3. todo' = Leaving /\ Head(todo').call = "close"
      BY <2>1, <3>1, Parts DEF Close
    <3>4. PlanOK'
      BY <1>1, <2>1, <2>4, <3>1, <3>2 DEF PlanOK, Left
    <3>5. Ready' /\ Guarding'
      BY <1>1, <1>2, <1>3, <2>1, <3>2, <3>3 DEF Ready, Swept, Poised, Guarding
    <3> QED BY <1>2, <3>4, <3>5
  <2> QED BY <2>2, <2>3, <2>4
<1> QED BY <1>4, <1>5

LEMMA FailHolds ==
  ASSUME Inv, FetchFails \/ Restart, UNCHANGED setup
  PROVE  Inv'
<1>1. /\ UNCHANGED <<setup, pos, orders, held, label, prev, period>> /\ Finish(FALSE)
      /\ failures' = failures + 1
  BY DEF FetchFails, Restart, exchange, book
<1>2. failures' \in Nat /\ failures' # 0
  BY <1>1 DEF Inv, Guarding
<1> QED BY <1>1, <1>2, StillExchange, FinishHolds

(* What follows the orphan check.                                          *)
LEMMA AfterOrphanCheckIs ==
  ASSUME BookOK, PlanOK, pc \in {"orphan", "purge"}
  PROVE  /\ todo = Actions(label)
         /\ \/ label.kind = "enter" /\ AfterOrphanCheck(todo) = "check"
            \/ label.kind \in Entering \ {"enter"} /\ AfterOrphanCheck(todo) = "size"
            \/ label.kind = "exit" /\ AfterOrphanCheck(todo) = "act" /\ todo = Leaving
BY ActionsAre, ListKinds DEF PlanOK, BookOK, AfterOrphanCheck, Entering

LEMMA OrphanCheckHolds ==
  ASSUME Inv, OrphanCheck, UNCHANGED setup
  PROVE  Inv'
<1> USE DEF Inv
<1>1. /\ UNCHANGED <<setup, pos, orders, held, label, prev, period, failures, todo, cancelled, done>>
      /\ pc = "orphan" /\ cache = "unknown" /\ label.kind \in Entering \cup {"exit"} /\ ~ done
      /\ cache' = IF pos = 0 THEN "flat" ELSE "held"
      /\ pc' = IF cache' = "flat" THEN "purge" ELSE AfterOrphanCheck(todo)
  BY DEF OrphanCheck, Seen, PlanOK, exchange, book
<1>2. ExchangeOK' /\ BookOK' /\ (Guarded => Guarded')
  BY <1>1, StillExchange
<1>3. Guarded \/ failures # 0
  BY <1>1 DEF Guarding
<1>4. /\ todo = Actions(label)
      /\ \/ label.kind = "enter" /\ AfterOrphanCheck(todo) = "check"
         \/ label.kind \in Entering \ {"enter"} /\ AfterOrphanCheck(todo) = "size"
         \/ label.kind = "exit" /\ AfterOrphanCheck(todo) = "act" /\ todo = Leaving
  BY <1>1, AfterOrphanCheckIs
<1>5. todo = Leaving => Head(todo).call = "close"
  BY Parts DEF Close
<1>6. PlanOK'
  BY <1>1, <1>4 DEF PlanOK, Left
<1>7. Ready' /\ Guarding'
  BY <1>1, <1>2, <1>3, <1>4, <1>5 DEF Ready, Swept, Poised, Guarding
<1> QED BY <1>2, <1>6, <1>7

LEMMA PurgeHolds ==
  ASSUME Inv, Purge, UNCHANGED setup
  PROVE  Inv' /\ pos = 0
<1> USE DEF Inv
<1>1. /\ UNCHANGED <<setup, pos, held, label, prev, period, failures, todo, cache, done>>
      /\ pc = "purge" /\ pos = 0 /\ cache = "flat" /\ orders' = {} /\ cancelled' = TRUE
      /\ label.kind \in Entering \cup {"exit"} /\ ~ done
      /\ pc' = AfterOrphanCheck(todo)
  BY DEF Purge, Cancel, Ready, Swept, Poised, PlanOK, book
<1>2. ExchangeOK' /\ BookOK' /\ Guarded' /\ Flat'
  BY <1>1 DEF ExchangeOK, BookOK, LimitFree, Guarded, Flat
<1>4. /\ todo = Actions(label)
      /\ \/ label.kind = "enter" /\ AfterOrphanCheck(todo) = "check"
         \/ label.kind \in Entering \ {"enter"} /\ AfterOrphanCheck(todo) = "size"
         \/ label.kind = "exit" /\ AfterOrphanCheck(todo) = "act" /\ todo = Leaving
  BY <1>1, AfterOrphanCheckIs
<1>5. todo = Leaving => Head(todo).call = "close"
  BY Parts DEF Close
<1>6. PlanOK'
  BY <1>1, <1>4 DEF PlanOK, Left
<1>7. Ready' /\ Guarding'
  BY <1>1, <1>2, <1>4, <1>5 DEF Ready, Swept, Poised, Guarding
<1> QED BY <1>1, <1>2, <1>6, <1>7

LEMMA DuplicateCheckHolds ==
  ASSUME Inv, DuplicateCheck, UNCHANGED setup
  PROVE  Inv'
<1> USE DEF Inv
<1>1. /\ UNCHANGED <<setup, pos, orders, held, label, prev, period, failures>>
      /\ pc = "check" /\ todo = Actions(label) /\ label.kind = "enter" /\ ~ done
      /\ cache \in {"flat", "held"} /\ Seen = cache
  BY DEF DuplicateCheck, Seen, PlanOK, exchange, book
<1>2. ExchangeOK' /\ BookOK' /\ (Guarded => Guarded') /\ (Flat => Flat')
  BY <1>1, StillExchange
<1>3. Guarded \/ failures # 0
  BY <1>1 DEF Guarding
<1>4. CASE cache = "held"
  <2>1. WithoutEntry(todo) = <<>>
    BY <1>1, ActionsAre, WithoutEntryIs DEF BookOK
  <2>2. Finish(TRUE)
    BY <1>1, <1>4, <2>1 DEF DuplicateCheck, Proceed
  <2> QED BY <1>1, <1>2, <1>3, <2>2, FinishHolds DEF Guarding
<1>5. CASE cache = "flat"
  <2>1. pc' = "size" /\ UNCHANGED <<todo, cancelled, done>>
    BY <1>1, <1>5 DEF DuplicateCheck
  <2>2. PlanOK'
    BY <1>1, <2>1 DEF PlanOK, Entering
  <2>3. Ready' /\ Guarding'
    BY <1>1, <1>2, <1>3, <1>5, <2>1 DEF Ready, Swept, Poised, Guarding
  <2> QED BY <1>2, <2>2, <2>3
<1> QED BY <1>1, <1>4, <1>5

LEMMA SizeOrderHolds ==
  ASSUME Inv, SizeOrder, UNCHANGED setup
  PROVE  Inv'
<1> USE DEF Inv
<1>1. /\ UNCHANGED <<setup, pos, orders, held, label, prev, period, failures>>
      /\ pc = "size" /\ todo = Actions(label) /\ label.kind \in Entering /\ ~ done
  BY DEF SizeOrder, PlanOK, exchange, book
<1>2. ExchangeOK' /\ BookOK' /\ (Guarded => Guarded') /\ (Flat => Flat')
  BY <1>1, StillExchange
<1>3. Guarded \/ failures # 0
  BY <1>1 DEF Guarding
<1>4. PICK acts \in {todo, WithoutEntry(todo)} : Proceed(acts)
  BY DEF SizeOrder
<1>5. CASE acts = <<>>
  <2>1. Finish(TRUE)
    BY <1>4, <1>5 DEF Proceed
  <2> QED BY <1>1, <1>2, <1>3, <2>1, FinishHolds DEF Guarding
<1>6. CASE acts # <<>>
  <2>1. pc' = "act" /\ todo' = acts /\ UNCHANGED <<cache, cancelled, done>>
    BY <1>4, <1>6 DEF Proceed
  <2>2. \/ label.kind = "enter" /\ acts = Opening(label.side)
        \/ label.kind \in {"reverse", "reverse_risk"} /\ acts \in {Reversing(label.side), Leaving}
    BY <1>1, <1>6, ActionsAre, WithoutEntryIs DEF BookOK, Entering
  <2>3. acts \in Left(label)
    BY <2>2 DEF Left
  <2>4. Head(acts).call = "close" \/ (label.kind = "enter" /\ Head(acts).call = "entry")
    BY <2>2, Parts DEF Close, Entry
  <2>5. PlanOK'
    BY <1>1, <2>1, <2>3 DEF PlanOK, Left
  <2>6. Ready' /\ Guarding'
    BY <1>1, <1>2, <1>3, <2>1, <2>4 DEF Ready, Swept, Poised, Guarding
  <2> QED BY <1>2, <2>5, <2>6
<1> QED BY <1>5, <1>6

(* Where an attempt may stand among its actions.                           *)
LEMMA Standing ==
  ASSUME NEW l, NEW t \in Left(l)
  PROVE  \/ Head(t) = Close /\ Len(t) # 1 /\ Tail(t) = <<CancelAll>>
         \/ Head(t) = Close /\ Len(t) # 1 /\ Tail(t) = Reentering(l.side) /\ l.kind # "exit"
         \/ Head(t) = CancelAll /\ Len(t) = 1
         \/ Head(t) = CancelAll /\ Len(t) # 1 /\ Tail(t) = Opening(l.side) /\ l.kind # "exit"
         \/ Head(t) = Entry(l.side) /\ Len(t) # 1 /\ Tail(t) = Protecting(l.side) /\ l.kind # "exit"
         \/ Head(t) = Stop(l.side) /\ Len(t) # 1 /\ Tail(t) = <<Profit(l.side)>> /\ l.kind # "exit"
         \/ Head(t) = Profit(l.side) /\ Len(t) = 1 /\ l.kind # "exit"
BY Parts DEF Left

(* What one action does to the exchange, whether or not its answer comes.  *)
LEMMA EffectHolds ==
  ASSUME Inv, pc = "act", Effect(Head(todo)), UNCHANGED <<setup, label>>
  PROVE  /\ ExchangeOK'
         /\ Head(todo) = Close => pos' = 0 /\ orders' = orders
         /\ Head(todo) = CancelAll => pos' = 0 /\ orders' = {} /\ pos = 0
         /\ Head(todo) = Entry(label.side) /\ setup.entry = "market" =>
              pos = 0 /\ pos' = label.side /\ orders' = orders /\ LimitFree
         /\ Head(todo) = Entry(label.side) /\ setup.entry # "market" =>
              /\ pos' = 0 /\ pos = 0 /\ LimitFree
              /\ orders' = orders \cup {[kind |-> "limit", side |-> label.side]}
         /\ Head(todo) = Stop(label.side) =>
              pos' = pos /\ orders' = orders \cup {[kind |-> "stop", side |-> label.side]}
         /\ Head(todo) = Profit(label.side) =>
              pos' = pos /\ orders' = orders \cup {[kind |-> "profit", side |-> label.side]}
<1> USE DEF Inv
<1>1. /\ todo \in Left(label) /\ label.kind \in Entering \cup {"exit"}
      /\ label.kind # "exit" => label.side \in Side
  BY DEF PlanOK, BookOK
<1>2. CASE Head(todo) = Close
  <2>1. pos' = 0 /\ orders' = orders
    BY <1>2 DEF Effect, Close
  <2>2. ExchangeOK'
    BY <2>1 DEF ExchangeOK, LimitFree
  <2> QED BY <1>2, <2>1, <2>2 DEF Close, CancelAll, Entry, Stop, Profit
<1>3. CASE Head(todo) = CancelAll
  <2>1. pos' = 0 /\ orders' = {} /\ pos = 0
    BY <1>3 DEF Effect, CancelAll, Cancel, Ready, Swept, Poised
  <2>2. ExchangeOK'
    BY <2>1 DEF ExchangeOK, LimitFree
  <2> QED BY <1>3, <2>1, <2>2 DEF Close, CancelAll, Entry, Stop, Profit
<1>4. CASE Head(todo) = Entry(label.side) /\ label.kind # "exit"
  <2>1. pos = 0 /\ LimitFree
    BY <1>4 DEF Ready, Swept, Poised, Flat, Entry
  <2>2. CASE setup.entry = "market"
    <3>1. pos' = label.side /\ orders' = orders
      BY <1>1, <1>4, <2>1, <2>2 DEF Effect, Entry, Side
    <3>2. ExchangeOK'
      BY <1>1, <1>4, <2>1, <3>1 DEF ExchangeOK, LimitFree, Side
    <3> QED BY <1>4, <2>1, <2>2, <3>1, <3>2 DEF Close, CancelAll, Entry, Stop, Profit
  <2>3. CASE setup.entry # "market"
    <3>1. pos' = 0 /\ orders' = orders \cup {[kind |-> "limit", side |-> label.side]}
      BY <1>4, <2>1, <2>3 DEF Effect, Entry
    <3>2. ExchangeOK'
      BY <1>1, <1>4, <2>1, <2>3, <3>1 DEF ExchangeOK, LimitFree
    <3> QED BY <1>4, <2>1, <2>3, <3>1, <3>2 DEF Close, CancelAll, Entry, Stop, Profit
  <2> QED BY <2>2, <2>3
<1>5. CASE Head(todo) = Stop(label.side) /\ label.kind # "exit"
  <2>1. pos' = pos /\ orders' = orders \cup {[kind |-> "stop", side |-> label.side]}
    BY <1>5 DEF Effect, Stop
  <2>2. ExchangeOK'
    BY <1>1, <1>5, <2>1 DEF ExchangeOK, LimitFree
  <2> QED BY <1>5, <2>1, <2>2 DEF Close, CancelAll, Entry, Stop, Profit
<1>6. CASE Head(todo) = Profit(label.side) /\ label.kind # "exit"
  <2>1. pos' = pos /\ orders' = orders \cup {[kind |-> "profit", side |-> label.side]}
    BY <1>6 DEF Effect, Profit
  <2>2. ExchangeOK'
    BY <1>1, <1>6, <2>1 DEF ExchangeOK, LimitFree
  <2> QED BY <1>6, <2>1, <2>2 DEF Close, CancelAll, Entry, Stop, Profit
<1> QED BY <1>1, <1>2, <1>3, <1>4, <1>5, <1>6, Standing

(* Without a failure an action leaves what stands guarded guarded, but for *)
(* the entry, whose stop is next.                                          *)
LEMMA EffectGuards ==
  ASSUME Inv, pc = "act", Effect(Head(todo)), failures = 0, UNCHANGED <<setup, label>>
  PROVE  IF Head(todo) = Entry(label.side) THEN Exposed' ELSE Guarded'
<1> USE DEF Inv
<1>1. /\ todo \in Left(label) /\ label.kind \in Entering \cup {"exit"}
      /\ label.kind # "exit" => label.side \in Side
  BY DEF PlanOK, BookOK
<1>2. Head(todo).call # "stop" => Guarded
  BY DEF Guarding
<1>3. CASE Head(todo) = Close
  <2>1. pos' = 0 /\ orders' = orders /\ Guarded
    BY <1>2, <1>3, EffectHolds DEF Close
  <2> QED BY <1>3, <2>1 DEF Guarded, Pending, Close, Entry
<1>4. CASE Head(todo) = CancelAll
  BY <1>4, EffectHolds DEF Guarded, CancelAll, Entry
<1>5. CASE Head(todo) = Entry(label.side) /\ label.kind # "exit"
  <2>1. setup.entry = "market" => Exposed'
    BY <1>5, EffectHolds DEF Exposed, LimitFree
  <2>2. setup.entry # "market" => Exposed'
    BY <1>5, EffectHolds DEF Exposed, LimitFree
  <2> QED BY <1>5, <2>1, <2>2
<1>6. CASE Head(todo) = Stop(label.side) /\ label.kind # "exit"
  <2> DEFINE s == [kind |-> "stop", side |-> label.side]
  <2>1. /\ pos' = pos /\ orders' = orders \cup {s} /\ Exposed
    BY <1>6, EffectHolds DEF Guarding, Stop
  <2>2. s \in Pending("stop")' /\ s.side = label.side
    BY <2>1 DEF Pending
  <2>3. pos' # 0 => Stopped'
    <3>1. pos # 0 => s.side * pos > 0
      BY <1>1, <1>6, <2>1 DEF Exposed, Side
    <3> QED BY <2>1, <2>2, <3>1 DEF Stopped
  <2>4. \A o \in orders' : o.kind = "limit" => o.side = label.side
    BY <2>1 DEF Exposed
  <2> QED BY <1>6, <2>2, <2>3, <2>4 DEF Guarded, Stop, Entry
<1>7. CASE Head(todo) = Profit(label.side) /\ label.kind # "exit"
  <2> DEFINE p == [kind |-> "profit", side |-> label.side]
  <2>1. pos' = pos /\ orders' = orders \cup {p} /\ Guarded
    BY <1>2, <1>7, EffectHolds DEF Profit
  <2>2. Pending("stop")' = Pending("stop")
    BY <2>1 DEF Pending
  <2>3. Guarded'
    BY <2>1, <2>2 DEF Guarded, Stopped
  <2> QED BY <1>7, <2>3 DEF Profit, Entry
<1> QED BY <1>1, <1>3, <1>4, <1>5, <1>6, <1>7, Standing

LEMMA ExecuteActionHolds ==
  ASSUME Inv, ExecuteAction, UNCHANGED setup
  PROVE  Inv'
<1> USE DEF Inv
<1> DEFINE a == Head(todo)
           d == label.side
<1>1. /\ UNCHANGED <<setup, held, label, prev, period, failures>>
      /\ pc = "act" /\ Effect(a) /\ ~ done
      /\ todo \in Left(label) /\ label.kind \in Entering \cup {"exit"}
  BY DEF ExecuteAction, PlanOK, book
<1>2. ExchangeOK' /\ BookOK'
  BY <1>1, EffectHolds DEF BookOK
<1>3. failures = 0 => IF a = Entry(d) THEN Exposed' ELSE Guarded'
  BY <1>1, EffectGuards
<1>4. CASE Len(todo) = 1
  <2>1. Finish(TRUE)
    BY <1>1, <1>4 DEF ExecuteAction
  <2>2. a # Entry(d)
    BY <1>1, <1>4, Standing DEF Close, CancelAll, Entry, Profit
  <2> QED BY <1>1, <1>2, <1>3, <2>1, <2>2, FinishHolds DEF Guarding
<1>5. CASE Len(todo) # 1
  <2>0. cancelled' => a.call = "cancel" \/ (cancelled /\ ~ Forgets(a))
    <3>1. cancelled' = (a.call = "cancel" \/ (cancelled /\ ~ Forgets(a)))
      BY <1>5 DEF ExecuteAction
    <3> QED BY <3>1, Zenon
  <2>1. /\ pc' = "act" /\ todo' = Tail(todo) /\ done' = done
    BY <1>1, <1>5 DEF ExecuteAction
  <2>2. \/ a = Close /\ todo' = <<CancelAll>>
        \/ a = Close /\ todo' = Reentering(d) /\ label.kind # "exit"
        \/ a = CancelAll /\ todo' = Opening(d) /\ label.kind # "exit"
        \/ a = Entry(d) /\ todo' = Protecting(d) /\ label.kind # "exit"
        \/ a = Stop(d) /\ todo' = <<Profit(d)>> /\ label.kind # "exit"
    BY <1>1, <1>5, <2>1, Standing
  <2>3. PlanOK'
    BY <1>1, <2>1, <2>2 DEF PlanOK, Left
  <2>4. /\ a = Close => Head(todo') = CancelAll
        /\ a = CancelAll => Head(todo') = Entry(d)
        /\ a = Entry(d) => Head(todo') = Stop(d)
        /\ a = Stop(d) => Head(todo') = Profit(d)
    BY <2>2, Parts DEF Close, CancelAll, Entry, Stop
  <2>5. Swept'
    <3>1. CASE a = Close
      BY <1>1, <2>0, <3>1, EffectHolds DEF Close, Ready, Swept
    <3>2. CASE a = CancelAll
      BY <1>1, <3>2, EffectHolds DEF Swept
    <3>3. CASE a = Entry(d) /\ setup.entry = "market"
      BY <1>1, <2>0, <3>3, EffectHolds DEF Entry, Ready, Swept
    <3>4. CASE a = Entry(d) /\ setup.entry # "market"
      <4>1. setup.entry = "limit"
        BY <3>4, BotAssumption DEF ExchangeOK
      <4> QED BY <2>0, <3>4, <4>1 DEF Entry, Forgets, Swept
    <3>5. CASE a = Stop(d)
      BY <2>0, <3>5 DEF Stop, Forgets, Swept
    <3> QED BY <2>2, <3>1, <3>2, <3>3, <3>4, <3>5
  <2>7. Poised'
    <3>1. a = Close => pos' = 0
      BY <1>1, EffectHolds
    <3>2. a = CancelAll => Flat'
      BY <1>1, EffectHolds DEF Flat, LimitFree
    <3>3. /\ Head(todo').call = "cancel" => a = Close
          /\ Head(todo').call = "entry" => a = CancelAll
      BY <2>2, <2>4 DEF Close, CancelAll, Entry, Stop, Profit
    <3>4. pc' = "act"
      BY <2>1
    <3> QED BY <3>1, <3>2, <3>3, <3>4 DEF Poised
  <2>6. Guarding'
    <3>1. a = Entry(d) <=> Head(todo').call = "stop"
      BY <2>2, <2>4 DEF Close, CancelAll, Entry, Stop, Profit
    <3> QED BY <1>1, <1>3, <2>1, <3>1 DEF Guarding
  <2> QED BY <1>2, <2>3, <2>5, <2>6, <2>7 DEF Ready
<1> QED BY <1>4, <1>5

LEMMA CallFailsHolds ==
  ASSUME Inv, CallFails, UNCHANGED setup
  PROVE  Inv'
<1> USE DEF Inv
<1>0. UNCHANGED <<setup, held, label, prev, period>> /\ Finish(FALSE) /\ failures' = failures + 1
  BY DEF CallFails, book
<1>1. failures' \in Nat /\ failures' # 0
  <2>1. failures \in Nat
    BY DEF Guarding
  <2> QED BY <1>0, <2>1
<1>2. BookOK'
  BY <1>0 DEF BookOK
<1>3. ExchangeOK'
  <2>1. CASE UNCHANGED exchange
    BY <1>0, <2>1 DEF ExchangeOK, LimitFree, exchange
  <2>2. CASE pc = "act" /\ Effect(Head(todo))
    BY <1>0, <2>2, EffectHolds
  <2>3. CASE Cancel /\ UNCHANGED pos
    BY <1>0, <2>3 DEF Cancel, ExchangeOK, LimitFree
  <2> QED BY <2>1, <2>2, <2>3 DEF CallFails
<1> QED BY <1>0, <1>1, <1>2, <1>3, FinishHolds

LEMMA NextHolds ==
  ASSUME NoRacingLimits
  PROVE  Inv /\ [Next]_vars => Inv'
<1> SUFFICES ASSUME Inv, [Next]_vars PROVE Inv'
  OBVIOUS
<1>1. CASE UNCHANGED vars
  BY <1>1 DEF vars, exchange, book, attempt, Inv, ExchangeOK, BookOK, LimitFree, PlanOK, Left,
     Ready, Swept, Poised, Flat, Guarding, Guarded, Exposed, Stopped, Pending
<1>2. CASE Next
  BY <1>2, MarketHolds, BookHolds, StartHolds, FailHolds, OrphanCheckHolds, PurgeHolds,
     DuplicateCheckHolds, SizeOrderHolds, ExecuteActionHolds, CallFailsHolds DEF Next, Bot
<1> QED BY <1>1, <1>2

-----------------------------------------------------------------------------
(* The account holds at most one unit, on order or held, whichever calls   *)
(* fail, come twice or are interrupted (the duplicate check and the orphan *)
(* check of the bot).                                                      *)
THEOREM AtMostOneUnit ==
  ASSUME NoRacingLimits
  PROVE  Spec => []OnePosition
<1>1. Inv => OnePosition
  <2> SUFFICES ASSUME Inv PROVE OnePosition
    OBVIOUS
  <2>1. /\ pos \in {-1, 0, 1}
        /\ pos # 0 => Pending("limit") = {}
        /\ \A a, b \in Pending("limit") : a = b
    BY DEF Inv, ExchangeOK, LimitFree, Pending
  <2>2. CASE Pending("limit") = {}
    <3>1. Cardinality(Pending("limit")) = 0
      BY <2>2, FS_EmptySet
    <3> QED BY <2>1, <3>1 DEF OnePosition, Abs
  <2>3. CASE Pending("limit") # {}
    <3>1. PICK o : Pending("limit") = {o}
      BY <2>1, <2>3
    <3>2. Cardinality(Pending("limit")) = 1
      BY <3>1, FS_Singleton
    <3> QED BY <2>1, <2>3, <3>2 DEF OnePosition, Abs
  <2> QED BY <2>2, <2>3
<1>2. Inv /\ [Next]_vars => Inv'
  BY NextHolds
<1> QED BY <1>1, <1>2, InitHolds, PTL DEF Spec

(* Without a failed call, a position the bot is done opening has a stop at *)
(* the exchange (the order of the actions of an entry).                    *)
THEOREM PositionsAreProtected ==
  ASSUME NoRacingLimits
  PROVE  Spec => []Protected
<1>1. Inv => Protected
  <2> SUFFICES ASSUME Inv, failures = 0, done, pos # 0 PROVE Stopped
    BY DEF Protected
  <2>1. pc = "idle"
    BY DEF Inv, PlanOK
  <2> QED BY <2>1 DEF Inv, Guarding, Guarded
<1>2. Inv /\ [Next]_vars => Inv'
  BY NextHolds
<1> QED BY <1>1, <1>2, InitHolds, PTL DEF Spec

(* A held position keeps its stop until it is closed, failed calls and     *)
(* restarts included (the order of close_position and cancel_all_orders).  *)
THEOREM StopsOutlivePositions ==
  ASSUME NoRacingLimits
  PROVE  Spec => StopOutlivesPosition
<1>1. Inv /\ [Next]_vars => [Stopped /\ pos' = pos => Stopped']_vars
  <2> SUFFICES ASSUME Inv, Next, Stopped, pos' = pos PROVE Stopped'
    BY DEF vars, exchange
  <2>1. PICK s \in orders : s.kind = "stop" /\ s.side * pos > 0
    BY DEF Stopped, Pending
  <2>2. pos # 0 /\ pos \in Int /\ s.side \in Int
    BY <2>1 DEF Inv, ExchangeOK, Side
  <2>3. ASSUME s \in orders' PROVE Stopped'
    BY <2>1, <2>3 DEF Stopped, Pending
  <2>4. CASE Market
    <3>1. CASE Fill
      BY <2>1, <2>3, <3>1 DEF Fill, Pending
    <3>2. CASE Trigger
      <4>1. PICK o \in orders : pos' = (IF pos * o.side > 0 THEN 0 ELSE pos) /\ orders' = orders \ {o}
        BY <3>2 DEF Trigger
      <4>2. ~ (pos * o.side > 0)
        BY <2>2, <4>1
      <4>3. s.side * pos = pos * s.side
        BY <2>2
      <4>4. s # o
        BY <2>1, <4>2, <4>3
      <4> QED BY <2>1, <2>3, <4>1, <4>4
    <3> QED BY <2>4, <3>1, <3>2 DEF Market
  <2>5. CASE Purge
    BY <2>2, <2>5 DEF Purge, Inv, Ready, Swept, Poised
  <2>6. CASE pc = "act" /\ Effect(Head(todo)) /\ UNCHANGED label
    <3>1. UNCHANGED setup
      BY DEF Next
    <3>2. todo \in Left(label)
      BY <2>6 DEF Inv, PlanOK
    <3>3. Head(todo) \in {Close, CancelAll, Entry(label.side), Stop(label.side), Profit(label.side)}
      BY <3>2, Standing
    <3>4. Head(todo) \notin {Close, CancelAll}
      BY <2>2, <2>6, <3>1, EffectHolds
    <3>5. orders \subseteq orders'
      BY <2>6, <3>1, <3>3, <3>4, EffectHolds
    <3> QED BY <2>1, <2>3, <3>5
  <2>7. CASE pc = "purge" /\ Cancel
    BY <2>2, <2>7 DEF Inv, Ready, Swept, Poised
  <2>8. CASE UNCHANGED orders
    BY <2>1, <2>3, <2>8
  <2> QED BY <2>4, <2>5, <2>6, <2>7, <2>8 DEF Next, Bot, Start, FetchFails, OrphanCheck,
       DuplicateCheck, SizeOrder, ExecuteAction, CallFails, Restart, RiskExit, NextBar,
       exchange, book
<1>2. Inv /\ [Next]_vars => Inv'
  BY NextHolds
<1> QED BY <1>1, <1>2, InitHolds, PTL DEF Spec, StopOutlivesPosition

(* An attempt at a label that leaves at the open succeeds only with a flat *)
(* account without orders (execute_signal stops at the first failure).     *)
THEOREM ExitsFlatten ==
  ASSUME NoRacingLimits
  PROVE  Spec => ExitFlattens
<1>1. Inv /\ [Next]_vars =>
        [Succeeds /\ label.kind = "exit" => pos' = 0 /\ orders' = {}]_vars
  <2> SUFFICES ASSUME Inv, Next, ~ done, done', label.kind = "exit"
               PROVE  pos' = 0 /\ orders' = {}
    BY DEF Succeeds
  <2>1. Actions(label) = Leaving /\ Leaving # <<>>
    BY ActionsAre, ListKinds DEF Inv, BookOK
  <2>2. pc \notin {"check", "size"}
    BY DEF Inv, PlanOK, Entering
  <2>3. ExecuteAction /\ Len(todo) = 1 /\ UNCHANGED setup
    BY <2>1, <2>2 DEF Next, Bot, Market, Start, FetchFails, OrphanCheck, Purge, DuplicateCheck,
       SizeOrder, ExecuteAction, CallFails, Restart, RiskExit, NextBar, Finish
  <2>4. /\ pc = "act" /\ Effect(Head(todo)) /\ UNCHANGED label /\ todo \in Left(label)
    BY <2>3 DEF ExecuteAction, Inv, PlanOK, book
  <2>5. Head(todo) = CancelAll
    BY <2>3, <2>4, Standing
  <2> QED BY <2>3, <2>4, <2>5, EffectHolds
<1>2. Inv /\ [Next]_vars => Inv'
  BY NextHolds
<1> QED BY <1>1, <1>2, InitHolds, PTL DEF Spec, ExitFlattens
=============================================================================
