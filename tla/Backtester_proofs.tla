-------------------------- MODULE Backtester_proofs --------------------------
(***************************************************************************)
(* Proofs about the backtest kernel.  First PositionMachine, for every set *)
(* of bars, parameters, ATR readings and PSAR quotes, with fixed or with   *)
(* switching parameters.  Then Backtester, for every capital, fee, column  *)
(* of rows and schedule: the account stays typed, the kernel implements    *)
(* the position machine, and so inherits what is proved of it, and an exit *)
(* is paid once and in the order of the trades.                            *)
(***************************************************************************)
EXTENDS Backtester, TLAPS

-----------------------------------------------------------------------------
(* Prices.                                                                 *)

(* A set of prices is empty or has a least profitable element.             *)
Worstable(d, S) == S = {} \/ \E x \in S : \A y \in S : ~ Better(d, x, y)

(* One more price leaves a set with a least profitable element.            *)
LEMMA WorstableExtends ==
    ASSUME NEW d \in Dir, NEW S \in SUBSET Int, Worstable(d, S), NEW b \in Int
    PROVE  Worstable(d, S \cup {b})
<1>1. CASE S = {}
    BY <1>1 DEF Worstable, Better, Sign, Dir
<1>2. CASE S # {}
    <2>1. PICK x \in S : \A y \in S : ~ Better(d, x, y)
        BY <1>2 DEF Worstable
    <2>2. CASE Better(d, x, b)
        <3>1. \A y \in S \cup {b} : ~ Better(d, b, y)
            BY <2>1, <2>2 DEF Better, Sign, Dir
        <3> QED BY <3>1 DEF Worstable
    <2>3. CASE ~ Better(d, x, b)
        <3>1. \A y \in S \cup {b} : ~ Better(d, x, y)
            BY <2>1, <2>3
        <3> QED BY <3>1 DEF Worstable
    <2> QED BY <2>2, <2>3
<1> QED BY <1>1, <1>2

(* The prices of any of the seven kinds have a least profitable one, and   *)
(* Worst chooses it: the fill price of an exit is one of the thresholds.   *)
LEMMA WorstIsMember ==
    ASSUME NEW d \in Dir, NEW K \in SUBSET Kind, K # {}, NEW thr,
           \A k \in K : thr[k] \in Int
    PROVE  /\ Worst(d, {thr[k] : k \in K}) \in {thr[k] : k \in K}
           /\ Worst(d, {thr[k] : k \in K}) \in Int
<1> DEFINE At(J) == {thr[k] : k \in K \cap J}
<1>1. ASSUME NEW J, Worstable(d, At(J)), NEW j
      PROVE  Worstable(d, At(J \cup {j}))
    <2>1. CASE j \in K
        <3>1. At(J \cup {j}) = At(J) \cup {thr[j]}
            BY <2>1
        <3>2. At(J) \in SUBSET Int /\ thr[j] \in Int
            BY <2>1
        <3> QED BY <3>1, <3>2, <1>1, WorstableExtends
    <2>2. CASE j \notin K
        <3>1. At(J \cup {j}) = At(J)
            BY <2>2
        <3> QED BY <3>1, <1>1
    <2> QED BY <2>1, <2>2
<1>2. Worstable(d, At({}))
    BY DEF Worstable
<1> HIDE DEF At
<1>3. Worstable(d, At({} \cup {"sl_pct"} \cup {"sl_atr"} \cup {"tp_pct"}
                      \cup {"tp_atr"} \cup {"tsl_pct"} \cup {"tsl_atr"}
                      \cup {"tsl_psar"}))
    BY <1>1, <1>2
<1>4. Worstable(d, {thr[k] : k \in K})
    <2>1. K \cap ({} \cup {"sl_pct"} \cup {"sl_atr"} \cup {"tp_pct"}
                      \cup {"tp_atr"} \cup {"tsl_pct"} \cup {"tsl_atr"}
                      \cup {"tsl_psar"}) = K
        BY DEF Kind, SL, TP, TSL
    <2> QED BY <1>3, <2>1 DEF At
<1>5. \E x \in {thr[k] : k \in K} : \A y \in {thr[k] : k \in K} : ~ Better(d, x, y)
    BY <1>4 DEF Worstable
<1>6. Worst(d, {thr[k] : k \in K}) \in {thr[k] : k \in K}
    BY <1>5 DEF Worst
<1> QED BY <1>6

-----------------------------------------------------------------------------
(* Types of the phases of a bar.                                           *)

AnyRow == [price : [open : Int, high : Int, low : Int, close : Int],
           atr : Int \cup {NaN}, signal : Signals]

LEMMA OppType == ASSUME NEW d \in Dir PROVE Opp(d) \in Dir /\ Opp(d) # d
BY DEF Opp, Dir

LEMMA VacantType == Vacant \in Side
BY DEF Vacant, Side, Price, Stop

LEMMA EmptyBookType == EmptyBook \in Book
BY VacantType DEF EmptyBook, Book

LEMMA FineType == ASSUME NEW x \in Int PROVE Fine(x) \in Int /\ Fine(x) # None
BY ScaleAssumption, SentinelAssumption DEF Fine

LEMMA AnchorType ==
    ASSUME NEW d \in Dir, NEW c, NEW p, NEW r \in AnyRow
    PROVE  Anchor(d, c, p, r.price) \in Int
BY DEF Anchor, Adverse, Favourable, AnyRow

LEMMA ThresholdType ==
    ASSUME NEW d \in Dir, NEW k \in Kind, NEW p \in Param, NEW a \in Int,
           NEW atr \in Int \cup {NaN}
    PROVE  Threshold(d, k, p, a, atr) \in Int \cup {NaN}
<1> DEFINE way == IF k \in TP THEN Sign(d) ELSE -Sign(d)
<1>1. way \in Int /\ p.level[k] \in Int /\ Scale \in Int
    BY ScaleAssumption DEF Sign, Dir, Param
<1>2. way * p.level[k] \in Int
    BY <1>1
<1>3. a * (Scale + way * p.level[k]) \in Int
    BY <1>1, <1>2
<1>4. atr # NaN => Fine(a + way * atr * p.level[k]) \in Int
    <2>1. atr # NaN => way * atr \in Int
        BY <1>1
    <2>2. atr # NaN => way * atr * p.level[k] \in Int
        BY <1>1, <2>1
    <2> QED BY <2>2, FineType
<1> QED BY <1>3, <1>4 DEF Threshold

LEMMA EntryThresholdType ==
    ASSUME NEW d \in Dir, NEW k \in Kind, NEW p \in Param, NEW r \in AnyRow,
           NEW q \in Int
    PROVE  EntryThreshold(d, k, p, r, q) \in Int \cup {NaN}
<1>1. r.atr \in Int \cup {NaN}
    BY DEF AnyRow
<1> QED BY <1>1, AnchorType, ThresholdType DEF EntryThreshold

LEMMA SweptType == ASSUME NEW f \in Book PROVE Swept(f) \in Book
BY VacantType DEF Swept, Book

LEMMA StrategyExitsType ==
    ASSUME NEW f \in Book, NEW r, NEW o \in Int
    PROVE  StrategyExits(f, r, o) \in Book
<1>1. \A x \in Side : [x EXCEPT !.exit = Fine(o)] \in Side
    BY FineType DEF Side, Price
<1> QED BY <1>1 DEF StrategyExits, Book

LEMMA EnteredType ==
    ASSUME NEW x \in Side, NEW d \in Dir, NEW p \in Param, NEW r \in AnyRow,
           NEW q \in Int, NEW o \in Int
    PROVE  Entered(x, d, p, r, q, o) \in Side
<1>1. [k \in Kind |-> IF On(p, k) THEN EntryThreshold(d, k, p, r, q) ELSE x.thr[k]]
         \in [Kind -> Stop]
    BY EntryThresholdType DEF Stop, Side
<1>2. Fine(o) \in Price /\ Anchor(d, "tsl", p, r.price) \in Price
    BY FineType, AnchorType DEF Price
<1> QED BY <1>1, <1>2 DEF Entered, Side

LEMMA TryEnterType ==
    ASSUME NEW f \in Book, NEW d \in Dir, NEW p \in Param, NEW r \in AnyRow,
           NEW q \in Int, NEW o \in Int
    PROVE  TryEnter(f, d, p, r, q, o) \in Book
<1>1. Entered(f.side[d], d, p, r, q, o) \in Side
    BY EnteredType DEF Book
<1> QED BY <1>1 DEF TryEnter, Book

LEMMA UntriggeredType == ASSUME NEW f \in Book PROVE Untriggered(f) \in Book
BY DEF Untriggered, Book, Side, Price

LEMMA TrailedType ==
    ASSUME NEW x \in Side, NEW d \in Dir, NEW p \in Param, NEW r \in AnyRow,
           NEW q \in Int, x.anchor = None => \A k \in TSL : ~ On(p, k)
    PROVE  /\ Trailed(x, d, p, r, q) \in Side
           /\ Trailed(x, d, p, r, q).entry = x.entry
           /\ Trailed(x, d, p, r, q).exit = x.exit
<1> DEFINE here == Anchor(d, "tsl", p, r.price)
           moved == Better(d, here, x.anchor)
           anchor == IF moved THEN here ELSE x.anchor
           tsl == [k \in TSL |-> Tighter(d, x.thr[k], Threshold(d, k, p, anchor, r.atr))]
           due(k) == On(p, k) /\ (k = "tsl_atr" => p.tight \/ moved)
           thr == [k \in Kind |->
                IF k \in TSL THEN IF due(k) THEN tsl[k] ELSE x.thr[k]
                ELSE IF k = "tsl_psar" /\ On(p, k) /\ x.thr[k] # None THEN q
                ELSE x.thr[k]]
<1>1. here \in Int /\ r.atr \in Int \cup {NaN}
    BY AnchorType DEF AnyRow
<1>2. (\E k \in TSL : On(p, k)) => anchor \in Int
    BY <1>1 DEF Side, Price
<1>3. \A k \in TSL : due(k) => tsl[k] \in Stop
    <2> SUFFICES ASSUME NEW k \in TSL, due(k) PROVE tsl[k] \in Stop
        OBVIOUS
    <2>1. k \in Kind /\ anchor \in Int
        BY <1>2 DEF Kind
    <2>2. Threshold(d, k, p, anchor, r.atr) \in Int \cup {NaN}
        BY <1>1, <2>1, ThresholdType
    <2>3. x.thr[k] \in Stop
        BY <2>1 DEF Side
    <2> HIDE DEF anchor
    <2> QED BY <2>2, <2>3 DEF Tighter, Stop
<1>4. thr \in [Kind -> Stop]
    <2> SUFFICES ASSUME NEW k \in Kind PROVE thr[k] \in Stop
        OBVIOUS
    <2>1. x.thr[k] \in Stop /\ q \in Stop
        BY DEF Side, Stop
    <2> HIDE DEF tsl, due
    <2> QED BY <1>3, <2>1
<1>5. Trailed(x, d, p, r, q) =
        [x EXCEPT !.anchor = IF \E k \in TSL : On(p, k) THEN anchor ELSE @,
                  !.thr = thr]
    BY DEF Trailed, Side
<1>6. anchor \in Price \/ ~ \E k \in TSL : On(p, k)
    BY <1>2 DEF Price
<1> HIDE DEF anchor, thr
<1> QED BY <1>4, <1>5, <1>6 DEF Side

(* Judging an open side keeps its entry, and closes it exactly when a stop *)
(* of an in-bar kind is triggered.                                         *)
LEMMA JudgedEffect ==
    ASSUME NEW x \in Side, x.exit = None, NEW d \in Dir, NEW p, NEW b,
           NEW y, y = Judged(x, d, p, b)
    PROVE  /\ y \in Side /\ y.entry = x.entry
           /\ y.thr = x.thr /\ y.anchor = x.anchor
           /\ y.exit = None <=> InBarHits(x, d, p, b) = {}
           /\ y.exit # None => y.hit # None
<1> DEFINE hits == Triggered(x.thr, d, p, b)
           now == InBarHits(x, d, p, b)
           K == IF now # {} THEN now ELSE hits
           price == Worst(d, {x.thr[k] : k \in K})
           hit == IF hits = {} THEN None ELSE price
           exit == IF now = {} THEN x.exit ELSE price
<1>1. now \in SUBSET hits /\ \A k \in hits : k \in Kind /\ x.thr[k] \in Int
    BY DEF InBarHits, Triggered, Number, Side, Stop
<1>2. y = [x EXCEPT !.hit = hit, !.exit = exit]
    BY DEF Judged
<1> HIDE DEF hits, now
<1>3. hits # {} => price \in Int
    <2> SUFFICES ASSUME hits # {} PROVE price \in Int
        OBVIOUS
    <2>1. K \in SUBSET Kind /\ K # {} /\ \A k \in K : x.thr[k] \in Int
        BY <1>1
    <2> HIDE DEF K
    <2> QED BY <2>1, WorstIsMember
<1> HIDE DEF price
<1>4. /\ hit \in Price /\ exit \in Price
      /\ exit = None <=> now = {}
      /\ exit # None => hit # None
    BY <1>1, <1>3, SentinelAssumption DEF Price
<1> HIDE DEF hit, exit
<1>5. /\ y.entry = x.entry /\ y.thr = x.thr /\ y.anchor = x.anchor
      /\ y.hit = hit /\ y.exit = exit
    BY <1>2 DEF Side
<1>6. y \in Side
    BY <1>2, <1>4 DEF Side
<1>7. y.exit = None <=> InBarHits(x, d, p, b) = {}
    <2>1. exit = None <=> now = {}
        BY <1>4
    <2> QED BY <1>5, <2>1 DEF now
<1>8. y.exit # None => y.hit # None
    <2>1. exit # None => hit # None
        BY <1>4
    <2> QED BY <1>5, <2>1
<1> QED BY <1>5, <1>6, <1>7, <1>8

(* What the risk check of side d may change: nothing unless d is open, and *)
(* then d alone, which stays open or closes in the bar.                    *)
LEMMA CheckRiskEffect ==
    ASSUME NEW f \in Book, NEW d \in Dir, NEW p \in Param, NEW r \in AnyRow,
           NEW q \in Int, NEW b, ~ NeedsAnchor(f, d, p),
           NEW g, g = CheckRisk(f, d, p, r, q, b)
    PROVE  /\ g \in Book
           /\ g.first = f.first /\ g.gap = f.gap
           /\ g.side[Opp(d)] = f.side[Opp(d)]
           /\ g.side[d].entry = f.side[d].entry
           /\ ~ Opened(f.side[d]) => g = f
           /\ Opened(f.side[d]) =>
                \/ g.side[d].exit = None /\ g.inBar = None
                \/ g.side[d].exit # None /\ g.inBar = d /\ g.side[d].hit # None
<1> DEFINE x == IF f.first = d THEN f.side[d] ELSE Trailed(f.side[d], d, p, r, q)
           y == Judged(x, d, p, b)
<1>1. f.side[d] \in Side /\ Opp(d) \in Dir /\ Opp(d) # d
    BY OppType DEF Book
<1>2. CASE ~ Opened(f.side[d])
    <2>1. g = f
        BY <1>2 DEF CheckRisk
    <2> QED BY <1>2, <2>1
<1>3. CASE Opened(f.side[d])
    <2>1. x \in Side /\ x.entry = f.side[d].entry /\ x.exit = None
        <3>1. CASE f.first = d
            BY <1>1, <1>3, <3>1 DEF Opened
        <3>2. CASE f.first # d
            <4>1. f.side[d].anchor = None => \A k \in TSL : ~ On(p, k)
                BY <1>3, <3>2 DEF NeedsAnchor
            <4> QED BY <1>1, <1>3, <3>2, <4>1, TrailedType DEF Opened
        <3> QED BY <3>1, <3>2
    <2>2. g = [f EXCEPT !.side[d] = y,
                        !.inBar = IF InBarHits(x, d, p, b) = {} THEN None ELSE d]
        BY <1>3 DEF CheckRisk
    <2> HIDE DEF x
    <2>3. /\ y \in Side /\ y.entry = x.entry
          /\ y.exit = None <=> InBarHits(x, d, p, b) = {}
          /\ y.exit # None => y.hit # None
        BY <2>1, JudgedEffect
    <2> HIDE DEF y
    <2>4. g \in Book
        <3>1. [f.side EXCEPT ![d] = y] \in [Dir -> Side]
            BY <2>3 DEF Book
        <3>2. (IF InBarHits(x, d, p, b) = {} THEN None ELSE d) \in Dir \cup {None}
            OBVIOUS
        <3>3. g = [f EXCEPT !.side = [f.side EXCEPT ![d] = y],
                            !.inBar = IF InBarHits(x, d, p, b) = {} THEN None ELSE d]
            BY <2>2 DEF Book
        <3> QED BY <3>1, <3>2, <3>3 DEF Book
    <2>5. /\ g.first = f.first /\ g.gap = f.gap
          /\ g.side[Opp(d)] = f.side[Opp(d)] /\ g.side[d] = y
          /\ g.inBar = IF InBarHits(x, d, p, b) = {} THEN None ELSE d
        BY <1>1, <2>2 DEF Book
    <2> QED BY <1>3, <2>1, <2>3, <2>4, <2>5
<1> QED BY <1>2, <1>3

-----------------------------------------------------------------------------
(* The shape of the book through the phases of a bar.                      *)

Empty(x) == x.entry = None /\ x.exit = None
NoOrphan(f) == \A d \in Dir : f.side[d].exit # None => f.side[d].entry # None

(* Before the strategy exits: at most one side is taken, and it is open.   *)
Ready(f) == /\ \A d \in Dir : f.side[d].exit = None
            /\ \E d \in Dir : f.side[d].entry = None

(* After them: one side is empty, the other empty, open or closed.         *)
Exited(f) == /\ f.first = None /\ ~ f.gap
             /\ NoOrphan(f)
             /\ \E d \in Dir : Empty(f.side[d])

(* After the entries: no entry and one side empty, or one entry, open      *)
(* against a side that is not.  A refused entry leaves nothing open.       *)
Settled(f) == /\ NoOrphan(f)
              /\ \/ /\ f.first = None
                    /\ \E d \in Dir : Empty(f.side[d])
                    /\ f.gap => \A d \in Dir : ~ Opened(f.side[d])
                 \/ /\ f.first \in Dir /\ ~ f.gap
                    /\ Opened(f.side[f.first]) /\ ~ Opened(f.side[Opp(f.first)])

(* At the end of the bar.                                                  *)
Shape(f) == /\ NoOrphan(f)
            /\ \/ /\ f.first = None
                  /\ \E d \in Dir : /\ Empty(f.side[d])
                                    /\ f.inBar \in {None, Opp(d)}
                                    /\ f.inBar = Opp(d) => Closed(f.side[Opp(d)])
                  /\ f.gap => f.inBar = None /\ \A d \in Dir : ~ Opened(f.side[d])
               \/ /\ f.first \in Dir /\ ~ f.gap
                  /\ ~ Opened(f.side[Opp(f.first)])
                  /\ \/ Opened(f.side[f.first]) /\ f.inBar = None
                     \/ Closed(f.side[f.first]) /\ f.inBar = f.first

LEMMA EmptyBookShape == Shape(EmptyBook)
<1>1. \A d \in Dir : Empty(EmptyBook.side[d]) /\ ~ Opened(EmptyBook.side[d])
    BY DEF EmptyBook, Vacant, Empty, Opened
<1> QED BY <1>1, OppType, SentinelAssumption
        DEF Shape, NoOrphan, EmptyBook, Empty, Dir

LEMMA SweptShape ==
    ASSUME NEW f \in Book, Shape(f)
    PROVE  Ready(Swept(f)) /\ Swept(f).gap = FALSE
<1>1. \A d \in Dir : Swept(f).side[d] = IF f.side[d].exit # None THEN Vacant
                                        ELSE f.side[d]
    BY DEF Swept, Book
<1>2. \E d \in Dir : Empty(f.side[d]) \/ f.side[d].exit # None
    BY OppType DEF Shape, Opened, Closed, Empty
<1>3. Swept(f).gap = FALSE
    BY DEF Swept, Book
<1> QED BY <1>1, <1>2, <1>3 DEF Ready, Vacant, Empty

LEMMA StrategyExitsShape ==
    ASSUME NEW f \in Book, Ready(f), ~ f.gap, NEW r, NEW o \in Int,
           NEW g, g = StrategyExits(f, r, o)
    PROVE  Exited(g)
<1>1. /\ g.first = None /\ ~ g.gap
      /\ \A d \in Dir : \/ g.side[d] = f.side[d]
                        \/ /\ Opened(f.side[d])
                           /\ g.side[d] = [f.side[d] EXCEPT !.exit = Fine(o)]
    BY DEF StrategyExits, Book
<1>2. \A d \in Dir : g.side[d].entry = f.side[d].entry
    BY <1>1 DEF Book, Side
<1>3. \A d \in Dir : g.side[d].exit # None => f.side[d].entry # None
    BY <1>1 DEF Ready, Opened
<1> QED BY <1>1, <1>2, <1>3 DEF Exited, Ready, NoOrphan, Empty

(* The entries: a refused or missing entry leaves the sides alone, an      *)
(* entry opens side d.                                                     *)
LEMMA TryEnterEffect ==
    ASSUME NEW f \in Book, NEW d \in Dir, NEW p, NEW r, NEW q, NEW o \in Int,
           NEW g, g = TryEnter(f, d, p, r, q, o)
    PROVE  \/ g = f
           \/ /\ CanEnter(f, d) /\ r.signal.entry[d]
              /\ \/ g = [f EXCEPT !.gap = TRUE]
                 \/ /\ g.first = d /\ g.gap = f.gap
                    /\ g.side[Opp(d)] = f.side[Opp(d)]
                    /\ g.side[d].entry # None /\ g.side[d].exit = f.side[d].exit
<1>1. /\ Entered(f.side[d], d, p, r, q, o).entry # None
      /\ Entered(f.side[d], d, p, r, q, o).exit = f.side[d].exit
    BY FineType DEF Entered, Book, Side
<1>2. Opp(d) \in Dir /\ Opp(d) # d
    BY OppType
<1> QED BY <1>1, <1>2 DEF TryEnter, Book

(* With at most one clean entry signal, both entries together.             *)
LEMMA EntriesShape ==
    ASSUME NEW f \in Book, Exited(f), NEW p \in Param, NEW r \in AnyRow,
           NEW q \in Int, NEW o \in Int,
           ~ (r.signal.entry["long"] /\ r.signal.entry["short"]),
           NEW g, g = TryEnter(f, "long", p, r, q, o),
           NEW h, h = TryEnter(g, "short", p, r, q, o)
    PROVE  Settled(h)
<1>1. g \in Book /\ "long" \in Dir /\ "short" \in Dir
      /\ Opp("long") = "short" /\ Opp("short") = "long"
    BY TryEnterType DEF Dir, Opp
<1>2. CASE g = f
    BY <1>1, <1>2, TryEnterEffect
       DEF Exited, Settled, NoOrphan, Empty, CanEnter, Opened, Closed, Book, Dir
<1>3. CASE g # f
    <2>1. r.signal.entry["long"] /\ CanEnter(f, "long")
        BY <1>1, <1>3, TryEnterEffect
    <2>2. h = g
        BY <2>1 DEF TryEnter
    <2> QED BY <1>1, <1>3, <2>1, <2>2, TryEnterEffect
            DEF Exited, Settled, NoOrphan, Empty, CanEnter, Opened, Closed, Book, Dir
<1> QED BY <1>2, <1>3

LEMMA UntriggeredShape ==
    ASSUME NEW f \in Book, Settled(f), NEW g, g = Untriggered(f)
    PROVE  Settled(g) /\ g.inBar = None
<1>1. /\ g.first = f.first /\ g.gap = f.gap /\ g.inBar = None
      /\ \A d \in Dir : /\ g.side[d].entry = f.side[d].entry
                        /\ g.side[d].exit = f.side[d].exit
    BY DEF Untriggered, Book, Side
<1>2. f.first \in Dir => Opp(f.first) \in Dir
    BY OppType
<1> QED BY <1>1, <1>2 DEF Settled, NoOrphan, Empty, Opened

(* Everything up to the risk check, from the end of the previous bar.      *)
LEMMA AtOpenShape ==
    ASSUME NEW f \in Book, Shape(f), NEW p \in Param, NEW r \in AnyRow,
           ~ (r.signal.entry["long"] /\ r.signal.entry["short"]),
           NEW q \in Int, NEW n \in AnyRow,
           NEW g, g = AtOpen(f, r, n, p, q)
    PROVE  g \in Book /\ Settled(g) /\ g.inBar = None
<1> DEFINE o == n.price.open
           f0 == Swept(f)
           f1 == StrategyExits(f0, r, o)
           f2 == TryEnter(f1, "long", p, r, q, o)
           f3 == TryEnter(f2, "short", p, r, q, o)
<1>1. o \in Int /\ "long" \in Dir /\ "short" \in Dir
    BY DEF AnyRow, Dir
<1> HIDE DEF o
<1>2. f0 \in Book /\ Ready(f0) /\ ~ f0.gap
    BY SweptType, SweptShape
<1> HIDE DEF f0
<1>3. f1 \in Book /\ Exited(f1)
    BY <1>1, <1>2, StrategyExitsType, StrategyExitsShape
<1> HIDE DEF f1
<1>4. f2 \in Book /\ f3 \in Book
    BY <1>1, <1>3, TryEnterType
<1>5. Settled(f3)
    BY <1>1, <1>3, EntriesShape
<1>6. g = Untriggered(f3)
    BY DEF AtOpen, f3, f2, f1, f0, o
<1> HIDE DEF f3
<1> QED BY <1>4, <1>5, <1>6, UntriggeredType, UntriggeredShape

(* The risk checks of both directions.                                     *)
LEMMA AtCloseShape ==
    ASSUME NEW f \in Book, Settled(f), f.inBar = None,
           NEW p \in Param, NEW r \in AnyRow, NEW q \in Int, NEW n,
           \A d \in Dir : ~ NeedsAnchor(f, d, p),
           NEW h, h = AtClose(f, r, n, p, q)
    PROVE  h \in Book /\ Shape(h)
<1> DEFINE g == CheckRisk(f, "long", p, r, q, n.price)
<1>1. /\ "long" \in Dir /\ "short" \in Dir
      /\ Opp("long") = "short" /\ Opp("short") = "long"
    BY DEF Dir, Opp
<1>2. h = CheckRisk(g, "short", p, r, q, n.price)
    BY DEF AtClose
<1>3. /\ g \in Book /\ g.first = f.first /\ g.gap = f.gap
      /\ g.side["short"] = f.side["short"]
      /\ g.side["long"].entry = f.side["long"].entry
      /\ ~ Opened(f.side["long"]) => g = f
      /\ Opened(f.side["long"]) => \/ g.side["long"].exit = None /\ g.inBar = None
                                   \/ g.side["long"].exit # None /\ g.inBar = "long"
    BY <1>1, CheckRiskEffect
<1> HIDE DEF g
<1>4. ~ NeedsAnchor(g, "short", p)
    BY <1>1, <1>3 DEF NeedsAnchor
<1>5. /\ h \in Book /\ h.first = g.first /\ h.gap = g.gap
      /\ h.side["long"] = g.side["long"]
      /\ h.side["short"].entry = g.side["short"].entry
      /\ ~ Opened(g.side["short"]) => h = g
      /\ Opened(g.side["short"]) =>
            \/ h.side["short"].exit = None /\ h.inBar = None
            \/ h.side["short"].exit # None /\ h.inBar = "short"
    BY <1>1, <1>2, <1>3, <1>4, CheckRiskEffect
<1>6. CASE Opened(f.side["short"])
    <2>1. ~ Opened(f.side["long"])
        BY <1>1, <1>6 DEF Settled, Empty, Opened, Dir
    <2> QED BY <1>1, <1>3, <1>5, <1>6, <2>1
            DEF Settled, Shape, NoOrphan, Empty, Opened, Closed, Dir
<1>7. CASE ~ Opened(f.side["short"])
    <2>1. h = g
        BY <1>3, <1>5, <1>7
    <2> QED BY <1>1, <1>3, <1>7, <2>1
            DEF Settled, Shape, NoOrphan, Empty, Opened, Closed, Dir
<1> QED BY <1>6, <1>7

(* A book of that shape is white-listed unless the gap check refused.      *)
LEMMA ShapeIsWhiteListed ==
    ASSUME NEW f \in Book, Shape(f), ~ f.gap
    PROVE  WhiteListed(f)
<1>1. \A d \in Dir : Opp(d) \in Dir /\ Opp(d) # d /\ Opp(Opp(d)) = d
    BY DEF Opp, Dir
<1>2. \A d \in Dir : /\ Opened(f.side[d]) => Phase(f.side[d]) = "open"
                     /\ Closed(f.side[d]) => Phase(f.side[d]) = "closed"
                     /\ Empty(f.side[d]) => Phase(f.side[d]) = "vacant"
                     /\ Opened(f.side[d]) \/ Closed(f.side[d]) \/ Empty(f.side[d])
    BY DEF Phase, Opened, Closed, Empty, Shape, NoOrphan
<1>3. CASE f.first = None
    <2>1. PICK e \in Dir : /\ Empty(f.side[e])
                           /\ f.inBar \in {None, Opp(e)}
                           /\ f.inBar = Opp(e) => Closed(f.side[Opp(e)])
        BY <1>3, SentinelAssumption DEF Shape
    <2>2. CASE Empty(f.side[Opp(e)])
        BY <1>1, <1>2, <1>3, <2>1, <2>2 DEF WhiteListed, Closed, Empty, Dir, Opp
    <2>3. CASE ~ Empty(f.side[Opp(e)])
        BY <1>1, <1>2, <1>3, <2>1, <2>3 DEF WhiteListed, Opened, Closed
    <2> QED BY <2>2, <2>3
<1>4. CASE f.first \in Dir
    BY <1>1, <1>2, <1>4, SentinelAssumption DEF WhiteListed, Shape
<1> QED BY <1>3, <1>4 DEF Book

LEMMA RowsType ==
    ASSUME NEW r \in Rows
    PROVE  /\ r \in AnyRow
           /\ ~ (r.signal.entry["long"] /\ r.signal.entry["short"])
<1>1. PICK a \in Atrs : r \in [price : Bars, atr : {a}, signal : CleanSignals(a)]
    BY DEF Rows
<1>2. PICK raw \in Signals, skip \in BOOLEAN : r.signal = Clean(raw, skip, a)
    BY <1>1 DEF CleanSignals
<1>3. r.signal.entry = [d \in Dir |-> /\ raw.entry[d] /\ ~ raw.entry[Opp(d)]
                                      /\ ~ raw.exit[d] /\ ~ skip /\ a # NaN]
    BY <1>2 DEF Clean, Signals
<1>4. r.signal \in Signals
    BY <1>2, <1>3 DEF Clean, Signals
<1>5. r.price \in [open : Int, high : Int, low : Int, close : Int]
    BY <1>1, BarsAssumption
<1>6. r \in AnyRow
    BY <1>1, <1>4, <1>5, AtrAssumption DEF AnyRow
<1>7. ~ (r.signal.entry["long"] /\ r.signal.entry["short"])
    BY <1>3 DEF Dir, Opp
<1> QED BY <1>6, <1>7

-----------------------------------------------------------------------------
(* The frame label and the single position.                                *)

IInv == /\ row \in Rows /\ par \in Params
        /\ book \in Book /\ Shape(book)
        /\ frame \in Frames \ {"invalid"}
        /\ broke \in BOOLEAN /\ panicked \in BOOLEAN

LEMMA InitIInv == Init => IInv
BY EmptyBookShape, EmptyBookType DEF Init, IInv, Frames

LEMMA BarIInv ==
    ASSUME IInv, NEW n \in Rows, NEW p \in NextParams, NEW q \in Quotes, Bar(n, p, q)
    PROVE  IInv'
<1> DEFINE opened == AtOpen(book, row, n, p, q)
           done == AtClose(opened, row, n, p, q)
<1>1. /\ p \in Params /\ p \in Param /\ q \in Int
      /\ row \in AnyRow /\ n \in AnyRow
      /\ ~ (row.signal.entry["long"] /\ row.signal.entry["short"])
    BY RowsType, ParamAssumption, QuoteAssumption, SwitchAssumption DEF IInv, NextParams, Valid
<1>2. opened \in Book /\ Settled(opened) /\ opened.inBar = None
    BY <1>1, AtOpenShape DEF IInv
<1>3. /\ \A d \in Dir : ~ NeedsAnchor(opened, d, p)
      /\ row' = n /\ par' = p /\ book' = done /\ frame' = Infer(done)
      /\ broke' \in BOOLEAN /\ panicked' = panicked
    BY DEF Bar, Stepped
<1> HIDE DEF opened
<1>4. done \in Book /\ Shape(done)
    BY <1>1, <1>2, <1>3, AtCloseShape
<1> HIDE DEF done
<1>5. Infer(done) \in Frames \ {"invalid"}
    BY <1>4, ShapeIsWhiteListed DEF Infer, Frames
<1> QED BY <1>1, <1>3, <1>4, <1>5 DEF IInv

LEMMA NextIInv == IInv /\ [Next]_vars => IInv'
<1> SUFFICES ASSUME IInv, [Next]_vars PROVE IInv'
    OBVIOUS
<1>1. ASSUME NEW n \in Rows, NEW p \in NextParams, NEW q \in Quotes, Bar(n, p, q)
      PROVE  IInv'
    BY <1>1, BarIInv
<1>2. ASSUME NEW n \in Rows, NEW p \in NextParams, NEW q \in Quotes, Panic(n, p, q)
      PROVE  IInv'
    BY <1>2 DEF Panic, IInv
<1>3. ASSUME NEW n \in Rows, NEW p \in NextParams, SkippedBar(n, p)
      PROVE  IInv'
    BY <1>3, EmptyBookShape, EmptyBookType, SwitchAssumption DEF SkippedBar, IInv, Frames, NextParams
<1>4. CASE UNCHANGED vars
    BY <1>4 DEF vars, IInv
<1> QED BY <1>1, <1>2, <1>3, <1>4 DEF Next

LEMMA Invariance == Spec => []IInv
<1> QED BY InitIInv, NextIInv, PTL DEF Spec

(* FrameState::infer never falls through to Invalid, whatever the prices,  *)
(* signals and parameters, and whatever the schedule.                      *)
THEOREM FramesAreWhiteListed == Spec => []FrameWhiteListed
<1>1. IInv => FrameWhiteListed
    BY DEF IInv, FrameWhiteListed
<1> QED BY <1>1, Invariance, PTL

(* The engine holds at most one position, also behind the label            *)
(* gap_blocked, which is inferred before the white list is consulted.      *)
THEOREM PositionsAreSingle == Spec => []SinglePosition
<1>1. IInv => SinglePosition
    <2> SUFFICES ASSUME IInv PROVE SinglePosition
        OBVIOUS
    <2>1. \E d \in Dir : ~ Opened(book.side[d])
        BY OppType DEF IInv, Shape, Empty, Opened
    <2>2. book.gap => \A d \in Dir : ~ Opened(book.side[d])
        BY DEF IInv, Shape
    <2> QED BY <2>1, <2>2 DEF SinglePosition
<1> QED BY <1>1, Invariance, PTL

-----------------------------------------------------------------------------
(* What the risk state of a side holds.                                    *)

(* A side without an entry is vacant.                                      *)
Forgets(f) == \A d \in Dir : f.side[d].entry = None => f.side[d] = Vacant

LEMMA ForgetsAtOpen ==
    ASSUME NEW f \in Book, Forgets(f), NEW r \in AnyRow, NEW p \in Param,
           NEW q \in Int, NEW n \in AnyRow, NEW g, g = AtOpen(f, r, n, p, q)
    PROVE  Forgets(g)
<1> DEFINE o == n.price.open
           f0 == Swept(f)
           f1 == StrategyExits(f0, r, o)
           f2 == TryEnter(f1, "long", p, r, q, o)
           f3 == TryEnter(f2, "short", p, r, q, o)
<1>1. o \in Int /\ "long" \in Dir /\ "short" \in Dir
    BY DEF AnyRow, Dir
<1> HIDE DEF o
<1>2. f0 \in Book /\ Forgets(f0)
    <2>1. \A d \in Dir : f0.side[d] = Vacant \/ f0.side[d] = f.side[d]
        BY DEF Swept, Book
    <2> QED BY <2>1, SweptType DEF Forgets
<1> HIDE DEF f0
<1>3. f1 \in Book /\ Forgets(f1)
    <2>1. \A d \in Dir : \/ f1.side[d] = f0.side[d]
                         \/ /\ f0.side[d].entry # None
                            /\ f1.side[d] = [f0.side[d] EXCEPT !.exit = Fine(o)]
        BY <1>2 DEF StrategyExits, Book, Opened
    <2>2. \A d \in Dir : f1.side[d].entry = f0.side[d].entry
        BY <1>2, <2>1 DEF Book, Side
    <2> HIDE DEF f1
    <2>3. Forgets(f1)
        BY <1>2, <2>1, <2>2 DEF Forgets
    <2> QED BY <1>1, <1>2, <2>3, StrategyExitsType DEF f1
<1> HIDE DEF f1
<1>4. ASSUME NEW e \in Book, Forgets(e), NEW d \in Dir
      PROVE  /\ TryEnter(e, d, p, r, q, o) \in Book
             /\ Forgets(TryEnter(e, d, p, r, q, o))
    <2>1. Entered(e.side[d], d, p, r, q, o).entry # None
        BY <1>1, FineType DEF Entered, Book, Side
    <2>2. \A c \in Dir : \/ TryEnter(e, d, p, r, q, o).side[c] = e.side[c]
                         \/ TryEnter(e, d, p, r, q, o).side[c].entry # None
        BY <2>1 DEF TryEnter, Book
    <2> QED BY <1>1, <1>4, <2>2, TryEnterType DEF Forgets
<1>5. f3 \in Book /\ Forgets(f3)
    BY <1>1, <1>3, <1>4
<1>6. g = Untriggered(f3)
    BY DEF AtOpen, f3, f2, f1, f0, o
<1> HIDE DEF f3
<1>7. \A d \in Dir : g.side[d] = [f3.side[d] EXCEPT !.hit = None]
    BY <1>5, <1>6 DEF Untriggered, Book
<1>8. \A d \in Dir : g.side[d].entry = f3.side[d].entry
    BY <1>5, <1>7 DEF Book, Side
<1> QED BY <1>5, <1>7, <1>8 DEF Forgets, Vacant

LEMMA ForgetsAtClose ==
    ASSUME NEW f \in Book, Forgets(f),
           NEW p \in Param, NEW r \in AnyRow, NEW q \in Int, NEW n,
           \A d \in Dir : ~ NeedsAnchor(f, d, p),
           NEW h, h = AtClose(f, r, n, p, q)
    PROVE  Forgets(h)
<1> DEFINE g == CheckRisk(f, "long", p, r, q, n.price)
<1>1. /\ "long" \in Dir /\ "short" \in Dir /\ Opp("long") = "short"
      /\ Opp("short") = "long"
    BY DEF Dir, Opp
<1>2. /\ g \in Book /\ g.first = f.first
      /\ g.side["short"] = f.side["short"]
      /\ g.side["long"].entry = f.side["long"].entry
      /\ g.side["long"].entry = None => g = f
    BY <1>1, CheckRiskEffect DEF Opened
<1>3. h = CheckRisk(g, "short", p, r, q, n.price)
    BY DEF AtClose
<1> HIDE DEF g
<1>4. ~ NeedsAnchor(g, "short", p)
    BY <1>1, <1>2 DEF NeedsAnchor
<1>5. /\ h.side["long"] = g.side["long"]
      /\ h.side["short"].entry = g.side["short"].entry
      /\ h.side["short"].entry = None => h = g
    BY <1>1, <1>2, <1>3, <1>4, CheckRiskEffect DEF Opened
<1> QED BY <1>1, <1>2, <1>5 DEF Forgets, Dir

(* Nothing of a closed position or of a refused entry survives into the    *)
(* next position of that direction, under any schedule.                    *)
THEOREM VacantSidesForget == Spec => []VacantSideForgets
<1>1. Init => VacantSideForgets
    BY DEF Init, VacantSideForgets, EmptyBook
<1>2. IInv /\ VacantSideForgets /\ [Next]_vars => VacantSideForgets'
    <2> SUFFICES ASSUME IInv, VacantSideForgets, [Next]_vars
                 PROVE  VacantSideForgets'
        OBVIOUS
    <2>1. ASSUME NEW n \in Rows, NEW p \in NextParams, NEW q \in Quotes, Bar(n, p, q)
          PROVE  VacantSideForgets'
        <3> DEFINE opened == AtOpen(book, row, n, p, q)
        <3>1. /\ p \in Param /\ q \in Int /\ row \in AnyRow /\ n \in AnyRow
              /\ ~ (row.signal.entry["long"] /\ row.signal.entry["short"])
            BY RowsType, ParamAssumption, QuoteAssumption, SwitchAssumption DEF IInv, NextParams, Valid
        <3>2. opened \in Book
            BY <3>1, AtOpenShape DEF IInv
        <3>3. Forgets(opened)
            BY <3>1, ForgetsAtOpen DEF IInv, VacantSideForgets, Forgets
        <3>4. /\ \A d \in Dir : ~ NeedsAnchor(opened, d, p)
              /\ book' = AtClose(opened, row, n, p, q)
            BY <2>1 DEF Bar, Stepped
        <3> HIDE DEF opened
        <3>5. Forgets(book')
            BY <3>1, <3>2, <3>3, <3>4, ForgetsAtClose
        <3> QED BY <3>5 DEF Forgets, VacantSideForgets
    <2>2. ASSUME NEW n \in Rows, NEW p \in NextParams, NEW q \in Quotes, Panic(n, p, q)
          PROVE  VacantSideForgets'
        BY <2>2 DEF Panic, VacantSideForgets
    <2>3. ASSUME NEW n \in Rows, NEW p \in NextParams, SkippedBar(n, p)
          PROVE  VacantSideForgets'
        BY <2>3 DEF SkippedBar, VacantSideForgets, EmptyBook
    <2>4. CASE UNCHANGED vars
        BY <2>4 DEF vars, VacantSideForgets
    <2> QED BY <2>1, <2>2, <2>3, <2>4 DEF Next
<1> QED BY <1>1, <1>2, Invariance, PTL DEF Spec

-----------------------------------------------------------------------------
(* With fixed parameters a taken side has the anchor and the numbers that  *)
(* its trailing stops need.                                                *)

Armed(x, p) ==
    /\ \A k \in Kind : x.thr[k] # NaN
    /\ x.entry # None =>
          \A k \in TSL : On(p, k) => x.anchor # None /\ x.thr[k] # None

AllArmed(f, p) == \A d \in Dir : Armed(f.side[d], p)

LEMMA VacantArmed == ASSUME NEW p PROVE Armed(Vacant, p)
BY SentinelAssumption DEF Armed, Vacant

LEMMA EnteredArmed ==
    ASSUME NEW x \in Side, NEW d \in Dir, NEW p \in Param, NEW r \in AnyRow,
           NEW q \in Int, NEW o \in Int, Armed(x, p),
           \A k \in Kind : On(p, k) => Safe(d, k, EntryThreshold(d, k, p, r, q), o)
    PROVE  Armed(Entered(x, d, p, r, q, o), p)
<1> DEFINE y == Entered(x, d, p, r, q, o)
<1>1. \A k \in Kind : y.thr[k] = IF On(p, k) THEN EntryThreshold(d, k, p, r, q)
                                 ELSE x.thr[k]
    BY DEF Entered, Side
<1>2. y.anchor = IF \E k \in TSL : On(p, k) THEN Anchor(d, "tsl", p, r.price)
                 ELSE x.anchor
    BY DEF Entered, Side
<1>3. Anchor(d, "tsl", p, r.price) # None
    BY AnchorType, SentinelAssumption
<1>4. \A k \in Kind : On(p, k) => y.thr[k] # NaN /\ y.thr[k] # None
    BY <1>1 DEF Safe, Number
<1>5. TSL \subseteq Kind
    BY DEF Kind
<1>6. Armed(y, p)
    <2> HIDE DEF y
    <2> QED BY <1>1, <1>2, <1>3, <1>4, <1>5 DEF Armed
<1> QED BY <1>6

LEMMA TrailedArmed ==
    ASSUME NEW x \in Side, NEW d \in Dir, NEW p \in Param, NEW r \in AnyRow,
           NEW q \in Int, Armed(x, p), x.entry # None
    PROVE  Armed(Trailed(x, d, p, r, q), p)
<1> DEFINE y == Trailed(x, d, p, r, q)
           here == Anchor(d, "tsl", p, r.price)
<1>1. here # None /\ q # NaN
    BY AnchorType, SentinelAssumption
<1>2. (\E k \in TSL : On(p, k)) => y.anchor = here \/ y.anchor = x.anchor
    BY DEF Trailed, Side
<1>3. \A k \in Kind : \/ y.thr[k] = x.thr[k]
                      \/ k = "tsl_psar" /\ y.thr[k] = q
                      \/ /\ k \in TSL /\ On(p, k)
                         /\ \E a : y.thr[k] = Tighter(d, x.thr[k], a)
    BY DEF Trailed, Side
<1>4. TSL \subseteq Kind /\ "tsl_psar" \notin TSL
    BY DEF Kind, TSL
<1>5. \A k \in TSL : On(p, k) => /\ x.thr[k] # None
                                 /\ y.thr[k] # None /\ y.thr[k] # NaN
    BY <1>3, <1>4 DEF Armed, Tighter, Number
<1>6. y.entry = x.entry
    BY DEF Trailed, Side
<1>7. Armed(y, p)
    <2> HIDE DEF y, here
    <2>1. \A k \in Kind : y.thr[k] # NaN
        BY <1>1, <1>3, <1>5 DEF Armed
    <2> QED BY <1>1, <1>2, <1>5, <1>6, <2>1 DEF Armed
<1> QED BY <1>7

LEMMA TryEnterArmed ==
    ASSUME NEW f \in Book, NEW d \in Dir, NEW p \in Param, NEW r \in AnyRow,
           NEW q \in Int, NEW o \in Int, AllArmed(f, p)
    PROVE  AllArmed(TryEnter(f, d, p, r, q, o), p)
<1> DEFINE g == TryEnter(f, d, p, r, q, o)
<1>1. \/ \A c \in Dir : g.side[c] = f.side[c]
      \/ /\ \A k \in Kind : On(p, k) => Safe(d, k, EntryThreshold(d, k, p, r, q), o)
         /\ \A c \in Dir : g.side[c] = IF c = d THEN Entered(f.side[d], d, p, r, q, o)
                                       ELSE f.side[c]
    BY DEF TryEnter, Book
<1>2. f.side[d] \in Side
    BY DEF Book
<1>3. AllArmed(g, p)
    <2> HIDE DEF g
    <2> QED BY <1>1, <1>2, EnteredArmed DEF AllArmed
<1> QED BY <1>3

LEMMA AtOpenArmed ==
    ASSUME NEW f \in Book, NEW r \in AnyRow, NEW p \in Param, AllArmed(f, p),
           NEW q \in Int, NEW n \in AnyRow, NEW g, g = AtOpen(f, r, n, p, q)
    PROVE  AllArmed(g, p)
<1> DEFINE o == n.price.open
           f0 == Swept(f)
           f1 == StrategyExits(f0, r, o)
           f2 == TryEnter(f1, "long", p, r, q, o)
           f3 == TryEnter(f2, "short", p, r, q, o)
<1>1. o \in Int /\ "long" \in Dir /\ "short" \in Dir
    BY DEF AnyRow, Dir
<1> HIDE DEF o
<1>2. f0 \in Book /\ AllArmed(f0, p)
    <2>1. \A d \in Dir : f0.side[d] = Vacant \/ f0.side[d] = f.side[d]
        BY DEF Swept, Book
    <2> QED BY <2>1, SweptType, VacantArmed DEF AllArmed
<1> HIDE DEF f0
<1>3. f1 \in Book /\ AllArmed(f1, p)
    <2>1. \A d \in Dir : /\ f1.side[d].entry = f0.side[d].entry
                         /\ f1.side[d].thr = f0.side[d].thr
                         /\ f1.side[d].anchor = f0.side[d].anchor
        BY <1>2 DEF StrategyExits, Book, Side
    <2> HIDE DEF f1
    <2>2. AllArmed(f1, p)
        BY <1>2, <2>1 DEF AllArmed, Armed
    <2> QED BY <1>1, <1>2, <2>2, StrategyExitsType DEF f1
<1> HIDE DEF f1
<1>4. f3 \in Book /\ AllArmed(f3, p)
    BY <1>1, <1>3, TryEnterType, TryEnterArmed
<1>5. g = Untriggered(f3)
    BY DEF AtOpen, f3, f2, f1, f0, o
<1> HIDE DEF f3
<1>6. \A d \in Dir : /\ g.side[d].entry = f3.side[d].entry
                     /\ g.side[d].thr = f3.side[d].thr
                     /\ g.side[d].anchor = f3.side[d].anchor
    BY <1>4, <1>5 DEF Untriggered, Book, Side
<1> QED BY <1>4, <1>6 DEF AllArmed, Armed

LEMMA ArmedFindsAnchor ==
    ASSUME NEW f, NEW p, AllArmed(f, p), NEW d \in Dir
    PROVE  ~ NeedsAnchor(f, d, p)
BY DEF AllArmed, Armed, NeedsAnchor, Opened

LEMMA CheckRiskArmed ==
    ASSUME NEW f \in Book, NEW d \in Dir, NEW p \in Param, NEW r \in AnyRow,
           NEW q \in Int, NEW b, AllArmed(f, p),
           NEW g, g = CheckRisk(f, d, p, r, q, b)
    PROVE  AllArmed(g, p)
<1> DEFINE x == IF f.first = d THEN f.side[d] ELSE Trailed(f.side[d], d, p, r, q)
           y == Judged(x, d, p, b)
<1>1. CASE ~ Opened(f.side[d])
    BY <1>1 DEF CheckRisk
<1>2. CASE Opened(f.side[d])
    <2>1. f.side[d] \in Side /\ Armed(f.side[d], p)
        BY DEF Book, AllArmed
    <2>2. f.side[d].anchor = None => \A k \in TSL : ~ On(p, k)
        BY <1>2, <2>1 DEF Armed, Opened
    <2>3. x \in Side /\ x.exit = None /\ Armed(x, p)
        BY <1>2, <2>1, <2>2, TrailedType, TrailedArmed DEF Opened
    <2> HIDE DEF x
    <2>4. y.entry = x.entry /\ y.thr = x.thr /\ y.anchor = x.anchor
        BY <2>3, JudgedEffect
    <2> HIDE DEF y
    <2>5. Armed(y, p)
        BY <2>3, <2>4 DEF Armed
    <2>6. \A c \in Dir : g.side[c] = IF c = d THEN y ELSE f.side[c]
        BY <1>2 DEF CheckRisk, Book, x, y
    <2> QED BY <2>5, <2>6 DEF AllArmed
<1> QED BY <1>1, <1>2

LEMMA AtCloseArmed ==
    ASSUME NEW f \in Book, NEW p \in Param, NEW r \in AnyRow, NEW q \in Int,
           NEW n, AllArmed(f, p), NEW h, h = AtClose(f, r, n, p, q)
    PROVE  AllArmed(h, p)
<1> DEFINE g == CheckRisk(f, "long", p, r, q, n.price)
<1>1. "long" \in Dir /\ "short" \in Dir
    BY DEF Dir
<1>2. g \in Book /\ AllArmed(g, p)
    BY <1>1, ArmedFindsAnchor, CheckRiskEffect, CheckRiskArmed
<1>3. h = CheckRisk(g, "short", p, r, q, n.price)
    BY DEF AtClose
<1> HIDE DEF g
<1> QED BY <1>1, <1>2, <1>3, CheckRiskArmed

(* The strengthening for fixed parameters.                                 *)
FixedIInv == par \notin Switching => ~ panicked /\ AllArmed(book, par)

LEMMA FixedInvariance == Spec => []FixedIInv
<1>1. Init => FixedIInv
    BY VacantArmed DEF Init, FixedIInv, AllArmed, EmptyBook
<1>2. IInv /\ FixedIInv /\ [Next]_vars => FixedIInv'
    <2> SUFFICES ASSUME IInv, FixedIInv, [Next]_vars, par' \notin Switching
                 PROVE  ~ panicked' /\ AllArmed(book', par')
        BY DEF FixedIInv
    <2>1. ASSUME NEW n \in Rows, NEW p \in NextParams, NEW q \in Quotes, p \notin Switching
          PROVE  LET opened == AtOpen(book, row, n, p, q)
                 IN  /\ p = par /\ p \in Param /\ q \in Int /\ row \in AnyRow
                     /\ opened \in Book /\ AllArmed(opened, p) /\ ~ panicked
        <3>1. /\ p = par /\ p \in Param /\ q \in Int
              /\ row \in AnyRow /\ n \in AnyRow
              /\ ~ (row.signal.entry["long"] /\ row.signal.entry["short"])
            BY <2>1, RowsType, ParamAssumption, QuoteAssumption, SwitchAssumption
               DEF IInv, NextParams, Valid
        <3>2. ~ panicked /\ AllArmed(book, p)
            BY <2>1, <3>1 DEF FixedIInv
        <3> QED BY <3>1, <3>2, AtOpenShape, AtOpenArmed DEF IInv
    <2>2. ASSUME NEW n \in Rows, NEW p \in NextParams, NEW q \in Quotes, Bar(n, p, q)
          PROVE  ~ panicked' /\ AllArmed(book', par')
        <3> DEFINE opened == AtOpen(book, row, n, p, q)
        <3>1. /\ book' = AtClose(opened, row, n, p, q)
              /\ par' = p /\ panicked' = panicked
            BY <2>2 DEF Bar, Stepped
        <3>2. /\ p \in Param /\ q \in Int /\ row \in AnyRow
              /\ opened \in Book /\ AllArmed(opened, p) /\ ~ panicked
            BY <2>1, <3>1
        <3> HIDE DEF opened
        <3>3. AllArmed(book', p)
            BY <3>1, <3>2, AtCloseArmed
        <3> QED BY <3>1, <3>2, <3>3
    <2>3. ASSUME NEW n \in Rows, NEW p \in NextParams, NEW q \in Quotes, Panic(n, p, q)
          PROVE  par = p => FALSE
        <3> SUFFICES ASSUME par = p PROVE FALSE
            OBVIOUS
        <3> DEFINE opened == AtOpen(book, row, n, p, q)
        <3>1. par' = par
            BY <2>3 DEF Panic
        <3>2. AllArmed(opened, p)
            BY <2>1, <3>1
        <3>3. \E d \in Dir : NeedsAnchor(opened, d, p)
            BY <2>3 DEF Panic
        <3> HIDE DEF opened
        <3> QED BY <3>2, <3>3, ArmedFindsAnchor
    <2>4. ASSUME NEW n \in Rows, NEW p \in NextParams, NEW q \in Quotes, Panic(n, p, q)
          PROVE  FALSE
        <3>1. par' = par
            BY <2>4 DEF Panic
        <3>2. p = par
            BY <3>1 DEF NextParams
        <3> QED BY <2>3, <2>4, <3>2
    <2>5. ASSUME NEW n \in Rows, NEW p \in NextParams, SkippedBar(n, p)
          PROVE  ~ panicked' /\ AllArmed(book', par')
        BY <2>5, VacantArmed DEF SkippedBar, AllArmed, EmptyBook
    <2>6. CASE UNCHANGED vars
        BY <2>6 DEF vars, FixedIInv
    <2> QED BY <2>2, <2>4, <2>5, <2>6 DEF Next
<1> QED BY <1>1, <1>2, Invariance, PTL DEF Spec

(* A run that keeps its parameters never fails the expect() on the anchor: *)
(* whatever entry stored a position also stored its anchor.                *)
THEOREM FixedParamsNeverPanic == Spec => []NeverPanics
<1>1. FixedIInv => NeverPanics
    BY DEF FixedIInv, NeverPanics
<1> QED BY <1>1, FixedInvariance, PTL

(* Types, under either kind of schedule.  A run that keeps its parameters  *)
(* has no dead stop.                                                       *)
THEOREM TypesAreCorrect == Spec => []TypeOK
<1>1. IInv /\ FixedIInv => TypeOK
    BY DEF IInv, FixedIInv, AllArmed, Armed, TypeOK
<1> QED BY <1>1, Invariance, FixedInvariance, PTL

-----------------------------------------------------------------------------
(* Stops of a held position.                                               *)

(* x and y are the same position up to its exit price and its hit.         *)
SameStops(x, y) == y.entry = x.entry /\ y.thr = x.thr /\ y.anchor = x.anchor

(* Stops and anchor only move towards profit.                              *)
Tightened(d, x, y) ==
    /\ \A k \in SL \cup TP : y.thr[k] = x.thr[k]
    /\ \A k \in TSL : \/ y.thr[k] = x.thr[k]
                      \/ x.thr[k] = None
                      \/ /\ Number(x.thr[k]) /\ Number(y.thr[k])
                         /\ Better(d, y.thr[k], x.thr[k])
    /\ y.anchor = x.anchor \/ Better(d, y.anchor, x.anchor)

(* A held side is not entered again: its own entry is in the way and the   *)
(* other side is empty.                                                    *)
LEMMA HeldKeptByEntry ==
    ASSUME NEW f \in Book, NEW d \in Dir, f.side[d].entry # None,
           f.side[Opp(d)].entry = None, NEW p, NEW r, NEW q, NEW o \in Int,
           NEW c \in Dir, NEW g, g = TryEnter(f, c, p, r, q, o)
    PROVE  /\ g.side[d] = f.side[d]
           /\ c = d => g = f
           /\ ~ r.signal.entry[c] => g = f
<1>1. Opp(d) \in Dir /\ Opp(d) # d
    BY OppType
<1>2. ~ CanEnter(f, d)
    BY <1>1 DEF CanEnter, Closed
<1> QED BY <1>2 DEF TryEnter, Book

LEMMA HeldKeptAtOpen ==
    ASSUME NEW f \in Book, Shape(f), NEW p \in Param, NEW r \in AnyRow,
           ~ (r.signal.entry["long"] /\ r.signal.entry["short"]),
           NEW q \in Int, NEW n \in AnyRow,
           NEW g, g = AtOpen(f, r, n, p, q),
           NEW d \in Dir, Opened(f.side[d])
    PROVE  SameStops(f.side[d], g.side[d])
<1> DEFINE o == n.price.open
           f0 == Swept(f)
           f1 == StrategyExits(f0, r, o)
           f2 == TryEnter(f1, "long", p, r, q, o)
           f3 == TryEnter(f2, "short", p, r, q, o)
<1>1. /\ o \in Int /\ "long" \in Dir /\ "short" \in Dir
      /\ Opp(d) \in Dir /\ Opp(d) # d
    BY OppType DEF AnyRow, Dir
<1> HIDE DEF o
<1>2. /\ f0 \in Book /\ Ready(f0) /\ f0.side[d] = f.side[d]
    BY SweptType, SweptShape DEF Swept, Book, Opened
<1> HIDE DEF f0
<1>3. /\ f1 \in Book /\ SameStops(f.side[d], f1.side[d])
      /\ f1.side[Opp(d)].entry = None
    <2>1. \A c \in Dir : f1.side[c] = [f0.side[c] EXCEPT !.exit = Fine(o)]
                         \/ f1.side[c] = f0.side[c]
        BY <1>2 DEF StrategyExits, Book
    <2>2. \A c \in Dir : SameStops(f0.side[c], f1.side[c])
        BY <1>2, <2>1 DEF Book, Side, SameStops
    <2>3. f0.side[Opp(d)].entry = None
        BY <1>1, <1>2 DEF Ready, Opened, Dir, Opp
    <2>4. f1 \in Book
        BY <1>1, <1>2, StrategyExitsType
    <2> QED BY <1>1, <1>2, <2>2, <2>3, <2>4 DEF SameStops
<1> HIDE DEF f1
<1>4. f1.side[d].entry # None
    BY <1>3 DEF SameStops, Opened
<1>5. f2 \in Book /\ f2.side[d] = f1.side[d]
    BY <1>1, <1>3, <1>4, TryEnterType, HeldKeptByEntry
<1>6. f3 \in Book /\ f3.side[d] = f1.side[d]
    <2>1. f3 \in Book
        BY <1>1, <1>5, TryEnterType
    <2>2. CASE f2 = f1
        BY <1>1, <1>3, <1>4, <2>1, <2>2, HeldKeptByEntry
    <2>3. CASE f2 # f1
        <3>1. r.signal.entry["long"]
            BY <2>3 DEF TryEnter
        <3>2. f3 = f2
            BY <3>1 DEF TryEnter
        <3> QED BY <1>5, <2>1, <3>2
    <2> QED BY <2>2, <2>3
<1>7. g = Untriggered(f3)
    BY DEF AtOpen, f3, f2, f1, f0, o
<1> HIDE DEF f3
<1>8. SameStops(f3.side[d], g.side[d])
    BY <1>6, <1>7 DEF Untriggered, Book, Side, SameStops
<1> QED BY <1>3, <1>6, <1>8 DEF SameStops

LEMMA TrailedTightens ==
    ASSUME NEW x \in Side, NEW d, NEW p, NEW r, NEW q
    PROVE  Tightened(d, x, Trailed(x, d, p, r, q))
<1> DEFINE y == Trailed(x, d, p, r, q)
           here == Anchor(d, "tsl", p, r.price)
<1>1. SL \subseteq Kind /\ TP \subseteq Kind /\ TSL \subseteq Kind
      /\ \A k \in SL \cup TP : k \notin TSL /\ k # "tsl_psar"
    BY DEF Kind, SL, TP, TSL
<1>2. \A k \in SL \cup TP : y.thr[k] = x.thr[k]
    BY <1>1 DEF Trailed, Side
<1>3. \A k \in TSL : \/ y.thr[k] = x.thr[k]
                     \/ \E t : y.thr[k] = Tighter(d, x.thr[k], t)
    BY <1>1 DEF Trailed, Side
<1>4. \/ y.anchor = x.anchor
      \/ y.anchor = here /\ Better(d, here, x.anchor)
    BY DEF Trailed, Side
<1>5. Tightened(d, x, y)
    <2> HIDE DEF y, here
    <2> QED BY <1>2, <1>3, <1>4 DEF Tightened, Tighter
<1> QED BY <1>5

LEMMA CheckRiskTightens ==
    ASSUME NEW f \in Book, NEW c \in Dir, NEW p \in Param, NEW r \in AnyRow,
           NEW q \in Int, NEW b, ~ NeedsAnchor(f, c, p),
           NEW g, g = CheckRisk(f, c, p, r, q, b)
    PROVE  Tightened(c, f.side[c], g.side[c])
<1> DEFINE x == IF f.first = c THEN f.side[c] ELSE Trailed(f.side[c], c, p, r, q)
           y == Judged(x, c, p, b)
<1>1. f.side[c] \in Side
    BY DEF Book
<1>2. CASE ~ Opened(f.side[c])
    BY <1>2 DEF CheckRisk, Tightened
<1>3. CASE Opened(f.side[c])
    <2>1. x \in Side /\ x.exit = None /\ Tightened(c, f.side[c], x)
        <3>1. CASE f.first = c
            BY <1>1, <1>3, <3>1 DEF Opened, Tightened
        <3>2. CASE f.first # c
            <4>1. f.side[c].anchor = None => \A k \in TSL : ~ On(p, k)
                BY <1>3, <3>2 DEF NeedsAnchor
            <4> QED BY <1>1, <1>3, <3>2, <4>1, TrailedType, TrailedTightens DEF Opened
        <3> QED BY <3>1, <3>2
    <2> HIDE DEF x
    <2>2. y.thr = x.thr /\ y.anchor = x.anchor
        BY <2>1, JudgedEffect
    <2> HIDE DEF y
    <2>3. g.side[c] = y
        BY <1>3 DEF CheckRisk, Book, x, y
    <2> QED BY <2>1, <2>2, <2>3 DEF Tightened
<1> QED BY <1>2, <1>3

(* Under any schedule, the stop loss and take profit of a held position    *)
(* never move, and its trailing stops and their anchor never move back.    *)
THEOREM StopsTighten == Spec => StopsOnlyTighten
<1> DEFINE Step == \A d \in Dir :
                      Opened(book.side[d]) /\ book'.side[d].entry # None
                          => Tightened(d, book.side[d], book'.side[d])
<1>1. IInv /\ [Next]_vars => [Step]_vars
    <2> SUFFICES ASSUME IInv, Next PROVE Step
        BY DEF vars
    <2> SUFFICES ASSUME NEW d \in Dir, Opened(book.side[d]),
                        book'.side[d].entry # None
                 PROVE  Tightened(d, book.side[d], book'.side[d])
        OBVIOUS
    <2>1. ASSUME NEW n \in Rows, NEW p \in NextParams, NEW q \in Quotes, Bar(n, p, q)
          PROVE  Tightened(d, book.side[d], book'.side[d])
        <3> DEFINE opened == AtOpen(book, row, n, p, q)
                   g == CheckRisk(opened, "long", p, row, q, n.price)
        <3>1. /\ p \in Param /\ q \in Int /\ row \in AnyRow /\ n \in AnyRow
              /\ ~ (row.signal.entry["long"] /\ row.signal.entry["short"])
            BY RowsType, ParamAssumption, QuoteAssumption, SwitchAssumption DEF IInv, NextParams, Valid
        <3>2. opened \in Book /\ SameStops(book.side[d], opened.side[d])
            BY <3>1, AtOpenShape, HeldKeptAtOpen DEF IInv
        <3>3. \A c \in Dir : ~ NeedsAnchor(opened, c, p)
            BY <2>1 DEF Bar, Stepped
        <3>4. book' = CheckRisk(g, "short", p, row, q, n.price)
            BY <2>1 DEF Bar, Stepped, AtClose
        <3> HIDE DEF opened
        <3>5. /\ "long" \in Dir /\ "short" \in Dir
              /\ Opp("long") = "short" /\ Opp("short") = "long"
            BY DEF Dir, Opp
        <3>6. /\ g \in Book /\ g.side["short"] = opened.side["short"]
              /\ Tightened("long", opened.side["long"], g.side["long"])
              /\ g.first = opened.first
            BY <3>1, <3>2, <3>3, <3>5, CheckRiskEffect, CheckRiskTightens
        <3> HIDE DEF g
        <3>7. ~ NeedsAnchor(g, "short", p)
            BY <3>3, <3>5, <3>6 DEF NeedsAnchor
        <3>8. /\ book'.side["long"] = g.side["long"]
              /\ Tightened("short", g.side["short"], book'.side["short"])
            BY <3>1, <3>4, <3>5, <3>6, <3>7, CheckRiskEffect, CheckRiskTightens
        <3>9. Tightened(d, opened.side[d], book'.side[d])
            BY <3>6, <3>8 DEF Dir
        <3> QED BY <3>2, <3>9 DEF SameStops, Tightened
    <2>2. ASSUME NEW n \in Rows, NEW p \in NextParams, NEW q \in Quotes, Panic(n, p, q)
          PROVE  Tightened(d, book.side[d], book'.side[d])
        BY <2>2 DEF Panic, Tightened
    <2>3. ASSUME NEW n \in Rows, NEW p \in NextParams, SkippedBar(n, p)
          PROVE  FALSE
        BY <2>3 DEF SkippedBar, EmptyBook, Vacant
    <2> QED BY <2>1, <2>2, <2>3 DEF Next
<1>2. [Step]_vars => [\A d \in Dir :
            Opened(book.side[d]) /\ book'.side[d].entry # None =>
                LET old == book.side[d]
                    new == book'.side[d]
                IN  /\ \A k \in SL \cup TP : new.thr[k] = old.thr[k]
                    /\ \A k \in TSL : \/ new.thr[k] = old.thr[k]
                                      \/ old.thr[k] = None
                                      \/ /\ Number(old.thr[k]) /\ Number(new.thr[k])
                                         /\ Better(d, new.thr[k], old.thr[k])
                    /\ \/ new.anchor = old.anchor
                       \/ Better(d, new.anchor, old.anchor)]_vars
    BY DEF Tightened
<1> QED BY <1>1, <1>2, Invariance, PTL DEF Spec, StopsOnlyTighten

-----------------------------------------------------------------------------
(* Breaches and exits.                                                     *)

LEMMA FineMonotone ==
    ASSUME NEW x \in Int, NEW y \in Int, x <= y
    PROVE  Fine(x) \in Int /\ Fine(y) \in Int /\ Fine(x) <= Fine(y)
<1>1. Scale \in Nat
    BY ScaleAssumption
<1>2. y - x \in Nat /\ (y - x) * Scale \in Nat
    BY <1>1
<1>3. y * Scale = x * Scale + (y - x) * Scale
    BY <1>1
<1> QED BY <1>1, <1>2, <1>3 DEF Fine

(* A threshold t of kind k, against the prices of bar b.                   *)
Spanned(k, p, b) == IF p.triggerAtExtreme[Class(k)] THEN b.low .. b.high ELSE {b.close}
BreachAt(t, d, k, p, b) ==
    /\ Number(t)
    /\ \E x \in Spanned(k, p, b) :
          IF (k \in TP) = (d = "long") THEN Fine(x) >= t ELSE Fine(x) <= t

(* The one price check_risk_exit tests against a threshold decides for all *)
(* the prices of the bar.                                                  *)
LEMMA ProbeDecides ==
    ASSUME NEW d \in Dir, NEW k \in Kind, NEW p, Valid(p), NEW b \in Bars,
           NEW t \in Int \cup {None, NaN}
    PROVE  BreachAt(t, d, k, p, b)
             <=> Number(t) /\ Crossed(d, k, t, Fine(Probe(d, Class(k), p, b)))
<1> DEFINE up == (k \in TP) = (d = "long")
           x == Probe(d, Class(k), p, b)
<1>1. /\ b \in [open : Int, high : Int, low : Int, close : Int]
      /\ b.low <= b.close /\ b.close <= b.high
    BY BarsAssumption
<1>2. /\ Class(k) \in Classes /\ (Class(k) = "tp" <=> k \in TP)
    BY DEF Class, Classes, SL, TP
<1>3. x \in Spanned(k, p, b)
    BY <1>1, <1>2 DEF Probe, Spanned, Valid, Param, Favourable, Adverse
<1>4. x \in Int /\ Fine(x) \in Int /\ \A y \in Spanned(k, p, b) :
         y \in Int /\ Fine(y) \in Int /\ (IF up THEN y <= x ELSE x <= y)
    <2>1. x \in Int /\ \A y \in Spanned(k, p, b) : y \in Int /\ (IF up THEN y <= x ELSE x <= y)
        BY <1>1, <1>2 DEF Probe, Spanned, Valid, Favourable, Adverse, Dir
    <2> QED BY <2>1, FineType
<1> HIDE DEF x
<1>5. ASSUME t \in Int
      PROVE  Crossed(d, k, t, Fine(x)) <=> IF up THEN Fine(x) >= t ELSE Fine(x) <= t
    <2>1. CASE d = "long"
        BY <1>4, <1>5, <2>1 DEF Crossed, Better, Sign
    <2>2. CASE d = "short"
        BY <1>4, <1>5, <2>2 DEF Crossed, Better, Sign
    <2> QED BY <2>1, <2>2 DEF Dir
<1>6. ASSUME t \in Int, NEW y \in Spanned(k, p, b),
             IF up THEN Fine(y) >= t ELSE Fine(y) <= t
      PROVE  IF up THEN Fine(x) >= t ELSE Fine(x) <= t
    BY <1>4, <1>6, FineMonotone
<1>7. Number(t) => t \in Int
    BY DEF Number
<1> HIDE DEF up
<1>8. BreachAt(t, d, k, p, b) <=>
        Number(t) /\ \E y \in Spanned(k, p, b) : IF up THEN Fine(y) >= t ELSE Fine(y) <= t
    BY DEF BreachAt, up
<1>9. Number(t) =>
        ((\E y \in Spanned(k, p, b) : IF up THEN Fine(y) >= t ELSE Fine(y) <= t)
           <=> Crossed(d, k, t, Fine(x)))
    BY <1>3, <1>5, <1>6, <1>7
<1> QED BY <1>8, <1>9 DEF x

LEMMA TriggeredAreBreached ==
    ASSUME NEW d \in Dir, NEW p, Valid(p), NEW b \in Bars, NEW thr \in [Kind -> Stop]
    PROVE  Triggered(thr, d, p, b) = {k \in Kind : BreachAt(thr[k], d, k, p, b)}
<1>1. \A k \in Kind : BreachAt(thr[k], d, k, p, b)
         <=> Number(thr[k]) /\ Crossed(d, k, thr[k], Fine(Probe(d, Class(k), p, b)))
    BY ProbeDecides DEF Stop
<1> QED BY <1>1 DEF Triggered

(* What a bar that leaves the side open says of its stops.                 *)
MarksHits(x, d, p, b) ==
    /\ x.hit # None <=> Triggered(x.thr, d, p, b) # {}
    /\ InBarHits(x, d, p, b) = {}

LEMMA JudgedMarks ==
    ASSUME NEW x \in Side, x.exit = None, NEW d \in Dir, NEW p, NEW b,
           NEW y, y = Judged(x, d, p, b)
    PROVE  /\ y.exit = None => MarksHits(y, d, p, b)
           /\ y.exit # None => InBarHits(y, d, p, b) # {}
<1> DEFINE hits == Triggered(x.thr, d, p, b)
           now == InBarHits(x, d, p, b)
           price == Worst(d, {x.thr[k] : k \in IF now # {} THEN now ELSE hits})
<1>1. now \in SUBSET hits /\ \A k \in hits : k \in Kind /\ x.thr[k] \in Int
    BY DEF InBarHits, Triggered, Number, Side, Stop
<1>2. /\ y.exit = None <=> now = {}
      /\ y.thr = x.thr /\ y \in Side
    BY JudgedEffect
<1>3. y.hit = IF hits = {} THEN None ELSE price
    BY DEF Judged, Side
<1>4. InBarHits(y, d, p, b) = now /\ Triggered(y.thr, d, p, b) = hits
    BY <1>2 DEF InBarHits
<1> HIDE DEF hits, now
<1>5. hits # {} => price \in Int
    <2> SUFFICES ASSUME hits # {} PROVE price \in Int
        OBVIOUS
    <2> DEFINE K == IF now # {} THEN now ELSE hits
    <2>1. K \in SUBSET Kind /\ K # {} /\ \A k \in K : x.thr[k] \in Int
        BY <1>1
    <2> HIDE DEF K
    <2>2. Worst(d, {x.thr[k] : k \in K}) \in Int
        BY <2>1, WorstIsMember
    <2> QED BY <2>2 DEF K
<1> HIDE DEF price
<1>6. y.hit # None <=> hits # {}
    BY <1>3, <1>5, SentinelAssumption
<1> QED BY <1>2, <1>4, <1>6 DEF MarksHits

LEMMA CheckRiskMarks ==
    ASSUME NEW f \in Book, NEW d \in Dir, NEW p \in Param, NEW r \in AnyRow,
           NEW q \in Int, NEW b, ~ NeedsAnchor(f, d, p), Opened(f.side[d]),
           NEW g, g = CheckRisk(f, d, p, r, q, b)
    PROVE  /\ g.side[d].exit = None => MarksHits(g.side[d], d, p, b)
           /\ g.side[d].exit # None => InBarHits(g.side[d], d, p, b) # {}
<1> DEFINE x == IF f.first = d THEN f.side[d] ELSE Trailed(f.side[d], d, p, r, q)
           y == Judged(x, d, p, b)
<1>1. f.side[d] \in Side
    BY DEF Book
<1>2. x \in Side /\ x.exit = None
    <2>1. CASE f.first = d
        BY <1>1, <2>1 DEF Opened
    <2>2. CASE f.first # d
        <3>1. f.side[d].anchor = None => \A k \in TSL : ~ On(p, k)
            BY <2>2 DEF NeedsAnchor
        <3> QED BY <1>1, <2>2, <3>1, TrailedType DEF Opened
    <2> QED BY <2>1, <2>2
<1>3. g.side[d] = y
    BY DEF CheckRisk, Book
<1> HIDE DEF x
<1> QED BY <1>2, <1>3, JudgedMarks

(* What the risk checks of a bar do to side d of a book: f before, h after. *)
RiskChecked(f, h, d, p, b) ==
    /\ h \in Book /\ h.first = f.first /\ h.gap = f.gap
    /\ ~ Opened(f.side[d]) => h.side[d] = f.side[d]
    /\ Opened(h.side[d]) => Opened(f.side[d]) /\ MarksHits(h.side[d], d, p, b)
    /\ Opened(f.side[d]) /\ ~ Opened(h.side[d]) =>
         h.inBar = d /\ InBarHits(h.side[d], d, p, b) # {}

(* Both risk checks, when at most one side is open.                        *)
LEMMA AtCloseMarks ==
    ASSUME NEW f \in Book, \E c \in Dir : ~ Opened(f.side[c]),
           NEW p \in Param, NEW r \in AnyRow, NEW q \in Int, NEW n,
           \A c \in Dir : ~ NeedsAnchor(f, c, p),
           NEW h, h = AtClose(f, r, n, p, q), NEW d \in Dir
    PROVE  RiskChecked(f, h, d, p, n.price)
<1> DEFINE g == CheckRisk(f, "long", p, r, q, n.price)
<1>1. /\ "long" \in Dir /\ "short" \in Dir /\ Opp("long") = "short"
      /\ Opp("short") = "long"
    BY DEF Dir, Opp
<1>2. /\ g \in Book /\ g.first = f.first /\ g.gap = f.gap
      /\ g.side["short"] = f.side["short"]
      /\ g.side["long"].entry = f.side["long"].entry
      /\ ~ Opened(f.side["long"]) => g = f
      /\ Opened(f.side["long"]) =>
           \/ g.side["long"].exit = None /\ g.inBar = None
           \/ g.side["long"].exit # None /\ g.inBar = "long" /\ g.side["long"].hit # None
    BY <1>1, CheckRiskEffect
<1>3. Opened(f.side["long"]) =>
        /\ g.side["long"].exit = None => MarksHits(g.side["long"], "long", p, n.price)
        /\ g.side["long"].exit # None => InBarHits(g.side["long"], "long", p, n.price) # {}
    BY <1>1, CheckRiskMarks
<1>4. h = CheckRisk(g, "short", p, r, q, n.price)
    BY DEF AtClose
<1> HIDE DEF g
<1>5. ~ NeedsAnchor(g, "short", p)
    BY <1>1, <1>2 DEF NeedsAnchor
<1>6. /\ h \in Book /\ h.first = g.first /\ h.gap = g.gap
      /\ h.side["long"] = g.side["long"]
      /\ h.side["short"].entry = g.side["short"].entry
      /\ ~ Opened(g.side["short"]) => h = g
      /\ Opened(g.side["short"]) =>
           \/ h.side["short"].exit = None /\ h.inBar = None
           \/ h.side["short"].exit # None /\ h.inBar = "short" /\ h.side["short"].hit # None
    BY <1>1, <1>2, <1>4, <1>5, CheckRiskEffect
<1>7. Opened(g.side["short"]) =>
        /\ h.side["short"].exit = None => MarksHits(h.side["short"], "short", p, n.price)
        /\ h.side["short"].exit # None => InBarHits(h.side["short"], "short", p, n.price) # {}
    BY <1>1, <1>2, <1>4, <1>5, CheckRiskMarks
<1>8. ~ (Opened(f.side["long"]) /\ Opened(f.side["short"]))
    BY DEF Dir
<1>9. CASE d = "long"
    BY <1>2, <1>3, <1>6, <1>8, <1>9 DEF RiskChecked, Opened
<1>10. CASE d = "short"
    BY <1>2, <1>6, <1>7, <1>8, <1>10 DEF RiskChecked, Opened
<1> QED BY <1>9, <1>10 DEF Dir

(* The mark of an open side says whether the bar breached one of its stops, *)
(* and none of a kind that leaves in the bar was.                          *)
LEMMA MarkedBreaches ==
    ASSUME NEW x \in Side, NEW d \in Dir, NEW p, Valid(p), NEW b \in Bars,
           MarksHits(x, d, p, b)
    PROVE  /\ x.hit # None <=> \E k \in Kind : BreachAt(x.thr[k], d, k, p, b)
           /\ \A k \in Kind : p.exitInBar[Class(k)] => ~ BreachAt(x.thr[k], d, k, p, b)
<1>1. Triggered(x.thr, d, p, b) = {k \in Kind : BreachAt(x.thr[k], d, k, p, b)}
    BY TriggeredAreBreached DEF Side
<1>2. \A k \in Triggered(x.thr, d, p, b) : ~ p.exitInBar[Class(k)]
    BY DEF MarksHits, InBarHits
<1> QED BY <1>1, <1>2 DEF MarksHits

(* A held side leaves at the open exactly when it was signalled out or      *)
(* marked as hit in the bar before.                                        *)
LEMMA LeavesAtOpen ==
    ASSUME NEW f \in Book, Shape(f), NEW p \in Param, NEW r \in AnyRow,
           ~ (r.signal.entry["long"] /\ r.signal.entry["short"]),
           NEW q \in Int, NEW n \in AnyRow,
           NEW g, g = AtOpen(f, r, n, p, q),
           NEW d \in Dir, Opened(f.side[d])
    PROVE  g.side[d].exit = IF r.signal.exit[d] \/ f.side[d].hit # None
                            THEN Fine(n.price.open) ELSE None
<1> DEFINE o == n.price.open
           f0 == Swept(f)
           f1 == StrategyExits(f0, r, o)
           f2 == TryEnter(f1, "long", p, r, q, o)
           f3 == TryEnter(f2, "short", p, r, q, o)
           out == r.signal.exit[d] \/ f.side[d].hit # None
<1>1. /\ o \in Int /\ "long" \in Dir /\ "short" \in Dir
      /\ Opp(d) \in Dir /\ Opp(d) # d
    BY OppType DEF AnyRow, Dir
<1>2. f.inBar # d
    BY <1>1, SentinelAssumption DEF Shape, Empty, Opened, Closed, Dir, Opp
<1>3. /\ f0 \in Book /\ Ready(f0) /\ f0.side[d] = f.side[d] /\ f0.inBar = f.inBar
    BY SweptType, SweptShape DEF Swept, Book, Opened
<1> HIDE DEF o, f0
<1>4. f1.side[d] = IF out THEN [f.side[d] EXCEPT !.exit = Fine(o)] ELSE f.side[d]
    <2>1. HitInBar(f0, d) = FALSE /\ (HitNextBar(f0, d) <=> f.side[d].hit # None)
        BY <1>2, <1>3 DEF HitInBar, HitNextBar
    <2>2. Opened(f0.side[d])
        BY <1>3
    <2> QED BY <1>3, <2>1, <2>2 DEF StrategyExits, Book
<1>5. f1 \in Book /\ f1.side[Opp(d)].entry = None
    <2>1. \/ f1.side[Opp(d)] = f0.side[Opp(d)]
          \/ f1.side[Opp(d)] = [f0.side[Opp(d)] EXCEPT !.exit = Fine(o)]
        BY <1>1, <1>3 DEF StrategyExits, Book
    <2>2. f1.side[Opp(d)].entry = f0.side[Opp(d)].entry
        BY <1>1, <1>3, <2>1 DEF Book, Side
    <2>3. f0.side[Opp(d)].entry = None
        BY <1>1, <1>3 DEF Ready, Opened, Dir, Opp
    <2> QED BY <1>1, <1>3, <2>2, <2>3, StrategyExitsType
<1>6. /\ f1.side[d].entry # None
      /\ f1.side[d].exit = IF out THEN Fine(o) ELSE None
    BY <1>4 DEF Opened, Book, Side
<1> HIDE DEF f1, out
<1>7. f2 \in Book /\ f2.side[d] = f1.side[d]
    BY <1>1, <1>5, <1>6, TryEnterType, HeldKeptByEntry
<1>8. f3 \in Book /\ f3.side[d] = f1.side[d]
    <2>1. f3 \in Book
        BY <1>1, <1>7, TryEnterType
    <2>2. CASE f2 = f1
        BY <1>1, <1>5, <1>6, <2>1, <2>2, HeldKeptByEntry
    <2>3. CASE f2 # f1
        <3>1. r.signal.entry["long"]
            BY <2>3 DEF TryEnter
        <3>2. f3 = f2
            BY <3>1 DEF TryEnter
        <3> QED BY <1>7, <2>1, <3>2
    <2> QED BY <2>2, <2>3
<1>9. g = Untriggered(f3)
    BY DEF AtOpen, f3, f2, f1, f0, o
<1> HIDE DEF f3
<1>10. g.side[d].exit = f3.side[d].exit
    BY <1>8, <1>9 DEF Untriggered, Book, Side
<1> QED BY <1>6, <1>8, <1>10 DEF o, out

(* The strengthening: every open side is marked.                           *)
HInv == \A d \in Dir : Opened(book.side[d]) => MarksHits(book.side[d], d, par, row.price)

(* What a processed row does to a side that was open and to one that is.   *)
LEMMA BarMarks ==
    ASSUME IInv, NEW n \in Rows, NEW p \in NextParams, NEW q \in Quotes,
           Bar(n, p, q), NEW d \in Dir
    PROVE  /\ row' = n /\ par' = p /\ Valid(p) /\ n.price \in Bars /\ book' \in Book
           /\ Opened(book'.side[d]) => MarksHits(book'.side[d], d, p, n.price)
           /\ Opened(book.side[d]) =>
                IF row.signal.exit[d] \/ book.side[d].hit # None
                THEN book'.side[d].exit = Fine(n.price.open)
                ELSE Closed(book'.side[d]) =>
                        book'.inBar = d /\ InBarHits(book'.side[d], d, p, n.price) # {}
<1> DEFINE opened == AtOpen(book, row, n, p, q)
<1>1. /\ p \in Params /\ Valid(p) /\ p \in Param /\ q \in Int
      /\ row \in AnyRow /\ n \in AnyRow /\ n.price \in Bars
      /\ ~ (row.signal.entry["long"] /\ row.signal.entry["short"])
    BY RowsType, ParamAssumption, QuoteAssumption, SwitchAssumption
       DEF IInv, NextParams, Valid, Rows
<1>2. opened \in Book /\ Settled(opened) /\ opened.inBar = None
    BY <1>1, AtOpenShape DEF IInv
<1>3. /\ \A c \in Dir : ~ NeedsAnchor(opened, c, p)
      /\ book' = AtClose(opened, row, n, p, q)
      /\ row' = n /\ par' = p
    BY DEF Bar, Stepped
<1>4. Opened(book.side[d]) =>
        /\ SameStops(book.side[d], opened.side[d])
        /\ opened.side[d].exit = IF row.signal.exit[d] \/ book.side[d].hit # None
                                 THEN Fine(n.price.open) ELSE None
    BY <1>1, HeldKeptAtOpen, LeavesAtOpen DEF IInv
<1> HIDE DEF opened
<1>5. \E c \in Dir : ~ Opened(opened.side[c])
    BY <1>2, OppType DEF Settled, Empty, Opened
<1>6. /\ book' \in Book
      /\ ~ Opened(opened.side[d]) => book'.side[d] = opened.side[d]
      /\ Opened(book'.side[d]) => MarksHits(book'.side[d], d, p, n.price)
      /\ Opened(opened.side[d]) /\ ~ Opened(book'.side[d]) =>
            book'.inBar = d /\ InBarHits(book'.side[d], d, p, n.price) # {}
    <2>1. RiskChecked(opened, book', d, p, n.price)
        BY <1>1, <1>2, <1>3, <1>5, AtCloseMarks
    <2> QED BY <2>1 DEF RiskChecked
<1>7. Fine(n.price.open) # None
    BY <1>1, FineType DEF AnyRow
<1> QED BY <1>1, <1>3, <1>4, <1>6, <1>7 DEF SameStops, Opened, Closed

LEMMA HInvariance == Spec => []HInv
<1>1. Init => HInv
    BY DEF Init, HInv, EmptyBook, Vacant, Opened
<1>2. IInv /\ HInv /\ [Next]_vars => HInv'
    <2> SUFFICES ASSUME IInv, HInv, [Next]_vars PROVE HInv'
        OBVIOUS
    <2>1. ASSUME NEW n \in Rows, NEW p \in NextParams, NEW q \in Quotes, Bar(n, p, q)
          PROVE  HInv'
        BY <2>1, BarMarks DEF HInv
    <2>2. ASSUME NEW n \in Rows, NEW p \in NextParams, NEW q \in Quotes, Panic(n, p, q)
          PROVE  HInv'
        BY <2>2 DEF Panic, HInv
    <2>3. ASSUME NEW n \in Rows, NEW p \in NextParams, SkippedBar(n, p)
          PROVE  HInv'
        BY <2>3 DEF SkippedBar, HInv, EmptyBook, Vacant, Opened
    <2>4. CASE UNCHANGED vars
        BY <2>4 DEF vars, HInv
    <2> QED BY <2>1, <2>2, <2>3, <2>4 DEF Next
<1> QED BY <1>1, <1>2, Invariance, PTL DEF Spec

(* The mark of a held side is the property's word for it.                  *)
LEMMA HeldBreach ==
    ASSUME IInv, HInv, NEW d \in Dir, Opened(book.side[d])
    PROVE  /\ Breached(d) <=> book.side[d].hit # None
           /\ \A k \in Kind : par.exitInBar[Class(k)] => ~ Breach(d, k)
<1>1. Valid(par) /\ row.price \in Bars /\ book.side[d] \in Side
    BY ParamAssumption DEF IInv, Rows, Book
<1>2. \A k \in Kind : Breach(d, k) <=> BreachAt(book.side[d].thr[k], d, k, par, row.price)
    BY DEF Breach, BreachAt, TradedPrices, Spanned
<1> QED BY <1>1, <1>2, MarkedBreaches DEF HInv, Breached

(* A breached stop is always answered: in the bar itself for a kind that   *)
(* leaves in the bar, at the next open for any other, whatever the signals *)
(* and the schedule.                                                       *)
THEOREM BreachesLeave == Spec => BreachLeaves
<1> DEFINE Step == \A d \in Dir :
                     /\ Opened(book.side[d]) /\ Breached(d) /\ ~ broke /\ ~ panicked'
                          => book'.side[d].exit = Fine(row'.price.open)
                     /\ Opened(book'.side[d]) =>
                          \A k \in SL \cup TP : par'.exitInBar[Class(k)] => ~ Breach(d, k)'
<1>1. IInv /\ HInv /\ IInv' /\ HInv' /\ [Next]_vars => [Step]_vars
    <2> SUFFICES ASSUME IInv, HInv, IInv', HInv', Next, NEW d \in Dir
                 PROVE  /\ Opened(book.side[d]) /\ Breached(d) /\ ~ broke /\ ~ panicked'
                             => book'.side[d].exit = Fine(row'.price.open)
                        /\ Opened(book'.side[d]) =>
                             \A k \in SL \cup TP : par'.exitInBar[Class(k)] => ~ Breach(d, k)'
        OBVIOUS
    <2>1. ASSUME Opened(book.side[d]), Breached(d), ~ broke, ~ panicked'
          PROVE  book'.side[d].exit = Fine(row'.price.open)
        <3>1. PICK n \in Rows, p \in NextParams, q \in Quotes : Bar(n, p, q)
            BY <2>1 DEF Next, Panic, SkippedBar
        <3>2. book.side[d].hit # None
            BY <2>1, HeldBreach
        <3> QED BY <2>1, <3>1, <3>2, BarMarks
    <2>2. ASSUME Opened(book'.side[d]), NEW k \in SL \cup TP, par'.exitInBar[Class(k)]
          PROVE  ~ Breach(d, k)'
        <3>1. Valid(par') /\ row'.price \in Bars /\ book'.side[d] \in Side /\ k \in Kind
            BY ParamAssumption DEF IInv, Rows, Book, Kind
        <3>2. Breach(d, k)' <=> BreachAt(book'.side[d].thr[k], d, k, par', row'.price)
            BY DEF Breach, BreachAt, TradedPrices, Spanned
        <3>3. MarksHits(book'.side[d], d, par', row'.price)
            BY <2>2 DEF HInv
        <3> QED BY <2>2, <3>1, <3>2, <3>3, MarkedBreaches
    <2> QED BY <2>1, <2>2
<1> QED BY <1>1, Invariance, HInvariance, PTL DEF Spec, BreachLeaves

(* No position is closed without one of the three causes.                  *)
THEOREM ExitsHaveACause == Spec => LeavesForCause
<1> DEFINE Step == \A d \in Dir :
                     Opened(book.side[d]) /\ Closed(book'.side[d])
                       => \/ row.signal.exit[d] \/ Breached(d)
                          \/ book'.inBar = d /\ Breached(d)'
<1>1. IInv /\ HInv /\ [Next]_vars => [Step]_vars
    <2> SUFFICES ASSUME IInv, HInv, Next, NEW d \in Dir,
                        Opened(book.side[d]), Closed(book'.side[d]),
                        ~ row.signal.exit[d], ~ Breached(d)
                 PROVE  book'.inBar = d /\ Breached(d)'
        OBVIOUS
    <2>1. book.side[d].hit = None
        BY HeldBreach
    <2>2. PICK n \in Rows, p \in NextParams, q \in Quotes : Bar(n, p, q)
        BY DEF Next, Panic, SkippedBar, EmptyBook, Vacant, Opened, Closed
    <2>3. /\ row' = n /\ par' = p /\ Valid(p) /\ n.price \in Bars
          /\ book'.side[d] \in Side
          /\ book'.inBar = d /\ InBarHits(book'.side[d], d, p, n.price) # {}
        <3>1. book' \in Book /\ row' = n /\ par' = p /\ Valid(p) /\ n.price \in Bars
            BY <2>2, BarMarks
        <3> QED BY <2>1, <2>2, <3>1, BarMarks DEF Book
    <2>4. PICK k \in Kind : BreachAt(book'.side[d].thr[k], d, k, p, n.price)
        <3>1. Triggered(book'.side[d].thr, d, p, n.price)
                = {k \in Kind : BreachAt(book'.side[d].thr[k], d, k, p, n.price)}
            BY <2>3, TriggeredAreBreached DEF Side
        <3> QED BY <2>3, <3>1 DEF InBarHits
    <2>5. Breach(d, k)'
        BY <2>3, <2>4 DEF Breach, BreachAt, TradedPrices, Spanned
    <2> QED BY <2>3, <2>5 DEF Breached
<1> QED BY <1>1, Invariance, HInvariance, PTL DEF Spec, LeavesForCause

-----------------------------------------------------------------------------
(* Entries.                                                                *)

(* Side d of the book is signalled in by row r and nothing is in its way.  *)
Welcome(f, r, d) ==
    /\ r.signal.entry[d]
    /\ ~ Opened(f.side[d])
    /\ Opened(f.side[Opp(d)]) => r.signal.exit[Opp(d)] \/ f.side[Opp(d)].hit # None

LEMMA StrategyExitsSide ==
    ASSUME NEW f \in Book, NEW r, NEW o, NEW c \in Dir
    PROVE  StrategyExits(f, r, o).side[c] =
             IF /\ Opened(f.side[c])
                /\ r.signal.exit[c] \/ HitNextBar(f, c)
                /\ ~ HitInBar(f, c)
             THEN [f.side[c] EXCEPT !.exit = Fine(o)] ELSE f.side[c]
BY DEF StrategyExits, Book

LEMMA StrategyExitsSpare ==
    ASSUME NEW f \in Book, NEW r, NEW o, NEW c \in Dir, ~ Opened(f.side[c]),
           NEW g, g = StrategyExits(f, r, o)
    PROVE  g.side[c] = f.side[c]
BY DEF StrategyExits, Book

(* A side can be entered after the strategy exits exactly when neither the *)
(* side itself nor a staying position opposite was held.                   *)
LEMMA CanEnterAfterExits ==
    ASSUME NEW f \in Book, Shape(f), NEW r, NEW o \in Int, NEW d \in Dir,
           NEW g, g = StrategyExits(Swept(f), r, o)
    PROVE  r.signal.entry[d] => (CanEnter(g, d) <=> Welcome(f, r, d))
<1> DEFINE out(c) == r.signal.exit[c] \/ f.side[c].hit # None
<1>1. Opp(d) \in Dir /\ Opp(d) # d /\ Opp(Opp(d)) = d /\ \A c \in Dir : c = d \/ c = Opp(d)
    BY DEF Opp, Dir
<1>2. \A c \in Dir : Opened(f.side[c]) => f.inBar # c
    BY SentinelAssumption DEF Shape, Empty, Opened, Closed, Dir, Opp
<1>3. ~ (Opened(f.side[d]) /\ Opened(f.side[Opp(d)]))
    BY <1>1 DEF Shape, Empty, Opened, Dir
<1>4. \A c \in Dir : ~ Opened(f.side[c]) =>
         g.side[c].entry = None /\ g.side[c].exit = None
    <2> SUFFICES ASSUME NEW c \in Dir, ~ Opened(f.side[c])
                 PROVE  g.side[c].entry = None /\ g.side[c].exit = None
        OBVIOUS
    <2>1. Swept(f).side[c] = IF f.side[c].exit # None THEN Vacant ELSE f.side[c]
        BY DEF Swept, Book
    <2>2. Swept(f).side[c].entry = None /\ Swept(f).side[c].exit = None
        BY <2>1 DEF Opened, Vacant
    <2>3. Swept(f) \in Book
        BY SweptType
    <2>4. g.side[c] = Swept(f).side[c]
        <3> DEFINE f0 == Swept(f)
        <3>1. f0 \in Book /\ g = StrategyExits(f0, r, o) /\ ~ Opened(f0.side[c])
            BY <2>2, <2>3 DEF Opened
        <3> HIDE DEF f0
        <3>2. g.side[c] = f0.side[c]
            BY <3>1, StrategyExitsSpare
        <3> QED BY <3>2 DEF f0
    <2> QED BY <2>2, <2>4
<1>5. \A c \in Dir : Opened(f.side[c]) =>
         /\ g.side[c].entry # None
         /\ g.side[c].exit = IF out(c) THEN Fine(o) ELSE None
    <2> SUFFICES ASSUME NEW c \in Dir, Opened(f.side[c])
                 PROVE  /\ g.side[c].entry # None
                        /\ g.side[c].exit = IF out(c) THEN Fine(o) ELSE None
        OBVIOUS
    <2> DEFINE f0 == Swept(f)
    <2>1. f0 \in Book /\ f0.side[c] = f.side[c] /\ f0.inBar = f.inBar
        BY SweptType DEF Swept, Book, Opened
    <2>2. g = StrategyExits(f0, r, o)
        OBVIOUS
    <2> HIDE DEF f0
    <2>3. HitInBar(f0, c) = FALSE /\ (HitNextBar(f0, c) <=> f.side[c].hit # None)
        BY <1>2, <2>1 DEF HitInBar, HitNextBar
    <2>4. Opened(f0.side[c])
        BY <2>1
    <2>5. g.side[c] = IF out(c) THEN [f.side[c] EXCEPT !.exit = Fine(o)] ELSE f.side[c]
        BY <2>1, <2>2, <2>3, <2>4, StrategyExitsSide
    <2> HIDE DEF out
    <2> QED BY <2>5 DEF Opened, Book, Side
<1>6. Fine(o) # None
    BY FineType
<1>7. CASE Opened(f.side[d])
    <2>1. ~ CanEnter(g, d)
        BY <1>1, <1>3, <1>4, <1>5, <1>7 DEF CanEnter, Closed
    <2> QED BY <1>7, <2>1 DEF Welcome
<1>8. CASE Opened(f.side[Opp(d)])
    <2>1. CanEnter(g, d) <=> out(Opp(d))
        BY <1>1, <1>5, <1>6, <1>8 DEF CanEnter, Closed
    <2> QED BY <1>3, <1>8, <2>1 DEF Welcome
<1>9. CASE \A c \in Dir : ~ Opened(f.side[c])
    <2>1. CanEnter(g, d)
        BY <1>4, <1>9 DEF CanEnter
    <2> QED BY <1>1, <1>9, <2>1 DEF Welcome
<1> QED BY <1>1, <1>7, <1>8, <1>9

(* Every stop of side x that is set is on and safe at open o.              *)
SafeStops(x, d, p, o) ==
    \A k \in Kind : Number(x.thr[k]) => Safe(d, k, x.thr[k], o)

(* One entry that may be made on a book without one: made, refused, or     *)
(* not wanted.                                                             *)
LEMMA TryEnterDecides ==
    ASSUME NEW f \in Book, f.first = None, ~ f.gap, NEW d \in Dir, NEW p, NEW r,
           NEW q, NEW o \in Int,
           NEW g, g = TryEnter(f, d, p, r, q, o)
    PROVE  IF CanEnter(f, d) /\ r.signal.entry[d]
           THEN \/ g.first = None /\ g.gap
                \/ /\ g.first = d /\ ~ g.gap
                   /\ f.side[d].thr = Vacant.thr => SafeStops(g.side[d], d, p, o)
           ELSE g = f
<1> DEFINE safe == \A k \in Kind : On(p, k) => Safe(d, k, EntryThreshold(d, k, p, r, q), o)
           x == Entered(f.side[d], d, p, r, q, o)
<1>1. CASE ~ (CanEnter(f, d) /\ r.signal.entry[d])
    BY <1>1 DEF TryEnter
<1>2. CASE CanEnter(f, d) /\ r.signal.entry[d] /\ ~ safe
    <2>1. g = [f EXCEPT !.gap = TRUE]
        BY <1>2 DEF TryEnter
    <2> QED BY <1>2, <2>1 DEF Book
<1>3. CASE CanEnter(f, d) /\ r.signal.entry[d] /\ safe
    <2>1. g = [f EXCEPT !.side[d] = x, !.first = d]
        BY <1>3 DEF TryEnter
    <2>2. g.first = d /\ ~ g.gap /\ g.side[d] = x
        <3> HIDE DEF x
        <3> QED BY <2>1 DEF Book
    <2>3. x.thr = [k \in Kind |-> IF On(p, k) THEN EntryThreshold(d, k, p, r, q)
                                  ELSE f.side[d].thr[k]]
        BY DEF Entered, Book, Side
    <2> HIDE DEF x
    <2>4. f.side[d].thr = Vacant.thr => SafeStops(x, d, p, o)
        <3> SUFFICES ASSUME f.side[d].thr = Vacant.thr, NEW k \in Kind, Number(x.thr[k])
                     PROVE  Safe(d, k, x.thr[k], o)
            BY DEF SafeStops
        <3>1. f.side[d].thr[k] = None
            BY DEF Vacant
        <3>2. On(p, k) /\ x.thr[k] = EntryThreshold(d, k, p, r, q)
            BY <2>3, <3>1 DEF Number
        <3> QED BY <1>3, <3>2
    <2> QED BY <1>3, <2>2, <2>4
<1> QED BY <1>1, <1>2, <1>3

(* The entries of a bar, from the end of the previous one.                 *)
LEMMA EntersAtOpen ==
    ASSUME NEW f \in Book, Shape(f), Forgets(f), NEW p \in Param, NEW r \in AnyRow,
           ~ (r.signal.entry["long"] /\ r.signal.entry["short"]),
           NEW q \in Int, NEW n \in AnyRow,
           NEW g, g = AtOpen(f, r, n, p, q)
    PROVE  /\ \A d \in Dir : Welcome(f, r, d) => g.first = d \/ g.gap
           /\ \A d \in Dir : g.first = d => Welcome(f, r, d)
           /\ g.gap => g.first = None /\ \E d \in Dir : Welcome(f, r, d)
           /\ \A d \in Dir : g.first = d => SafeStops(g.side[d], d, p, n.price.open)
<1> DEFINE o == n.price.open
           f0 == Swept(f)
           f1 == StrategyExits(f0, r, o)
           f2 == TryEnter(f1, "long", p, r, q, o)
           f3 == TryEnter(f2, "short", p, r, q, o)
<1>1. o \in Int /\ "long" \in Dir /\ "short" \in Dir /\ "long" # "short"
    BY DEF AnyRow, Dir
<1>2. \A d \in Dir : r.signal.entry[d] => (CanEnter(f1, d) <=> Welcome(f, r, d))
    BY <1>1, CanEnterAfterExits
<1> HIDE DEF o
<1>3. f0 \in Book /\ Ready(f0) /\ ~ f0.gap /\ Forgets(f0)
    <2>1. \A d \in Dir : f0.side[d] = Vacant \/ f0.side[d] = f.side[d]
        BY DEF Swept, Book
    <2> QED BY <2>1, SweptType, SweptShape DEF Forgets
<1> HIDE DEF f0
<1>4. f1 \in Book /\ Exited(f1)
    BY <1>1, <1>3, StrategyExitsType, StrategyExitsShape
<1>5. \A d \in Dir : f1.side[d].entry = None => f1.side[d] = Vacant
    <2>1. \A d \in Dir : \/ f1.side[d] = f0.side[d]
                         \/ /\ f0.side[d].entry # None
                            /\ f1.side[d] = [f0.side[d] EXCEPT !.exit = Fine(o)]
        BY <1>3 DEF StrategyExits, Book, Opened
    <2>2. \A d \in Dir : f1.side[d].entry = f0.side[d].entry
        BY <1>3, <2>1 DEF Book, Side
    <2> HIDE DEF f1
    <2> QED BY <1>3, <2>1, <2>2 DEF Forgets
<1> HIDE DEF f1
<1>6. /\ f1.first = None /\ ~ f1.gap
      /\ \A d \in Dir : CanEnter(f1, d) => f1.side[d].thr = Vacant.thr
    <2>1. \A d \in Dir : CanEnter(f1, d) => f1.side[d].entry = None
        BY <1>4, OppType DEF Exited, CanEnter, Empty, Closed, Dir, Opp
    <2> QED BY <1>4, <1>5, <2>1 DEF Exited
<1>7. g = Untriggered(f3)
    BY DEF AtOpen, f3, f2, f1, f0, o
<1>8. ASSUME f3 \in Book
      PROVE  /\ g.first = f3.first /\ g.gap = f3.gap
             /\ \A d \in Dir : g.side[d].thr = f3.side[d].thr
    <2> HIDE DEF f3
    <2> QED BY <1>7, <1>8 DEF Untriggered, Book, Side
<1>9. CASE r.signal.entry["long"]
    <2>1. f3 = f2 /\ f3 \in Book
        BY <1>1, <1>4, <1>9, TryEnterType DEF TryEnter
    <2>2. IF Welcome(f, r, "long")
          THEN \/ f3.first = None /\ f3.gap
               \/ /\ f3.first = "long" /\ ~ f3.gap
                  /\ SafeStops(f3.side["long"], "long", p, o)
          ELSE f3.first = None /\ ~ f3.gap
        BY <1>1, <1>2, <1>4, <1>6, <1>9, <2>1, TryEnterDecides
    <2>3. ~ Welcome(f, r, "short")
        BY <1>9 DEF Welcome
    <2> HIDE DEF f2, f3
    <2> QED BY <1>1, <1>8, <2>1, <2>2, <2>3, SentinelAssumption DEF Dir, SafeStops, o
<1>10. CASE ~ r.signal.entry["long"]
    <2>1. f2 = f1
        BY <1>10 DEF TryEnter
    <2>2. f3 \in Book
        BY <1>1, <1>4, <2>1, TryEnterType
    <2>3. IF Welcome(f, r, "short")
          THEN \/ f3.first = None /\ f3.gap
               \/ /\ f3.first = "short" /\ ~ f3.gap
                  /\ SafeStops(f3.side["short"], "short", p, o)
          ELSE f3.first = None /\ ~ f3.gap
        <3>1. f3 = TryEnter(f1, "short", p, r, q, o)
            BY <2>1
        <3> HIDE DEF f2, f3
        <3>2. Welcome(f, r, "short") => r.signal.entry["short"]
            BY DEF Welcome
        <3> QED BY <1>1, <1>2, <1>4, <1>6, <3>1, <3>2, TryEnterDecides
    <2>4. ~ Welcome(f, r, "long")
        BY <1>10 DEF Welcome
    <2> HIDE DEF f2, f3
    <2> QED BY <1>1, <1>8, <2>2, <2>3, <2>4, SentinelAssumption DEF Dir, SafeStops, o
<1> QED BY <1>9, <1>10

(* The entry signals are followed to the letter: a reversal is made in the *)
(* bar that closes the other side, no wanted entry is lost without the     *)
(* gap label, and none is made that the signals did not ask for.           *)
THEOREM EntriesAreWanted == Spec => EntriesFollowSignals
<1> DEFINE Step == ~ broke /\ ~ panicked' =>
                     /\ \A d \in Dir : Wanted(d) => book'.first = d \/ book'.gap
                     /\ \A d \in Dir : book'.first = d => Wanted(d)
                     /\ book'.gap => book'.first = None /\ \E d \in Dir : Wanted(d)
<1>1. IInv /\ HInv /\ VacantSideForgets /\ [Next]_vars => [Step]_vars
    <2> SUFFICES ASSUME IInv, HInv, VacantSideForgets, Next, ~ broke, ~ panicked'
                 PROVE  /\ \A d \in Dir : Wanted(d) => book'.first = d \/ book'.gap
                        /\ \A d \in Dir : book'.first = d => Wanted(d)
                        /\ book'.gap => book'.first = None /\ \E d \in Dir : Wanted(d)
        OBVIOUS
    <2>1. PICK n \in Rows, p \in NextParams, q \in Quotes : Bar(n, p, q)
        BY DEF Next, Panic, SkippedBar
    <2>2. \A d \in Dir : Wanted(d) <=> Welcome(book, row, d)
        <3> SUFFICES ASSUME NEW d \in Dir
                     PROVE  Opened(book.side[Opp(d)]) =>
                               (Breached(Opp(d)) <=> book.side[Opp(d)].hit # None)
            BY DEF Wanted, Welcome
        <3> QED BY OppType, HeldBreach
    <2> DEFINE opened == AtOpen(book, row, n, p, q)
    <2>3. /\ p \in Param /\ q \in Int /\ row \in AnyRow /\ n \in AnyRow
          /\ ~ (row.signal.entry["long"] /\ row.signal.entry["short"])
        BY RowsType, ParamAssumption, QuoteAssumption, SwitchAssumption
           DEF IInv, NextParams, Valid
    <2>4. opened \in Book /\ Settled(opened)
        BY <2>3, AtOpenShape DEF IInv
    <2>5. /\ \A d \in Dir : Welcome(book, row, d) => opened.first = d \/ opened.gap
          /\ \A d \in Dir : opened.first = d => Welcome(book, row, d)
          /\ opened.gap => opened.first = None /\ \E d \in Dir : Welcome(book, row, d)
        BY <2>3, EntersAtOpen DEF IInv, VacantSideForgets, Forgets
    <2>6. /\ \A d \in Dir : ~ NeedsAnchor(opened, d, p)
          /\ book' = AtClose(opened, row, n, p, q)
        BY <2>1 DEF Bar, Stepped
    <2> HIDE DEF opened
    <2>7. \E d \in Dir : ~ Opened(opened.side[d])
        BY <2>4, OppType DEF Settled, Empty, Opened
    <2>8. book'.first = opened.first /\ book'.gap = opened.gap
        <3> SUFFICES ASSUME NEW h, h = AtClose(opened, row, n, p, q)
                     PROVE  h.first = opened.first /\ h.gap = opened.gap
            BY <2>6
        <3>1. "long" \in Dir
            BY DEF Dir
        <3> QED BY <2>3, <2>4, <2>6, <2>7, <3>1, AtCloseMarks DEF RiskChecked
    <2> QED BY <2>2, <2>5, <2>8
<1> QED BY <1>1, Invariance, HInvariance, VacantSidesForget, PTL
        DEF Spec, EntriesFollowSignals

-----------------------------------------------------------------------------
(* The fill of an exit on the entry bar.                                   *)

LEMMA JudgedFill ==
    ASSUME NEW x \in Side, x.exit = None, NEW d \in Dir, NEW p, NEW b,
           NEW y, y = Judged(x, d, p, b), y.exit # None
    PROVE  \E k \in InBarHits(x, d, p, b) : y.exit = x.thr[k]
<1> DEFINE hits == Triggered(x.thr, d, p, b)
           now == InBarHits(x, d, p, b)
<1>1. now # {}
    BY JudgedEffect
<1>2. y.exit = Worst(d, {x.thr[k] : k \in IF now # {} THEN now ELSE hits})
    BY <1>1 DEF Judged, Side
<1>3. now \in SUBSET Kind /\ \A k \in now : x.thr[k] \in Int
    BY DEF InBarHits, Triggered, Number, Side, Stop
<1> HIDE DEF now, hits
<1>4. (IF now # {} THEN now ELSE hits) = now
    BY <1>1
<1>5. y.exit = Worst(d, {x.thr[k] : k \in now})
    BY <1>2, <1>4
<1>6. y.exit \in {x.thr[k] : k \in now}
    BY <1>1, <1>3, <1>5, WorstIsMember
<1> QED BY <1>6 DEF now

(* A stop that was safe at the open and is touched by an extreme of the    *)
(* bar lies within the bar.                                                *)
LEMMA SafeFillTraded ==
    ASSUME NEW x \in Side, NEW d \in Dir, NEW p, Valid(p), NEW b \in Bars,
           SafeStops(x, d, p, b.open), NEW k \in InBarHits(x, d, p, b)
    PROVE  Fine(b.low) <= x.thr[k] /\ x.thr[k] <= Fine(b.high)
<1> DEFINE t == x.thr[k]
           z == Probe(d, Class(k), p, b)
<1>1. /\ k \in Kind /\ Number(t) /\ t \in Int
      /\ Crossed(d, k, t, Fine(z)) /\ p.exitInBar[Class(k)]
    BY DEF InBarHits, Triggered, Number, Side, Stop
<1>2. /\ b.low \in Int /\ b.high \in Int /\ b.open \in Int
      /\ b.low <= b.open /\ b.open <= b.high
    BY BarsAssumption
<1>3. /\ Fine(b.low) \in Int /\ Fine(b.high) \in Int /\ Fine(b.open) \in Int
      /\ Fine(b.low) <= Fine(b.open) /\ Fine(b.open) <= Fine(b.high)
    BY <1>2, FineMonotone
<1>4. k \in SL \cup TP
    BY <1>1 DEF Valid, Class, Kind, SL, TP, TSL
<1>5. k # "tsl_psar" /\ (Class(k) = "tp" <=> k \in TP)
    BY <1>4 DEF Class, SL, TP
<1>6. z = IF k \in TP THEN Favourable(d, b) ELSE Adverse(d, b)
    BY <1>1, <1>5 DEF Probe
<1>7. Safe(d, k, t, b.open)
    BY <1>1 DEF SafeStops
<1> HIDE DEF t, z
<1>8. IF k \in TP THEN Better(d, t, Fine(b.open)) ELSE Better(d, Fine(b.open), t)
    BY <1>5, <1>7 DEF Safe
<1>9. CASE k \in TP
    <2>1. Better(d, t, Fine(b.open)) /\ ~ Better(d, t, Fine(Favourable(d, b)))
        BY <1>1, <1>6, <1>8, <1>9 DEF Crossed
    <2>2. CASE d = "long"
        BY <1>1, <1>3, <2>1, <2>2 DEF Better, Sign, Favourable, t
    <2>3. CASE d = "short"
        BY <1>1, <1>3, <2>1, <2>3 DEF Better, Sign, Favourable, t
    <2> QED BY <2>2, <2>3 DEF Dir
<1>10. CASE k \notin TP
    <2>1. Better(d, Fine(b.open), t) /\ ~ Better(d, Fine(Adverse(d, b)), t)
        BY <1>1, <1>6, <1>8, <1>10 DEF Crossed
    <2>2. CASE d = "long"
        BY <1>1, <1>3, <2>1, <2>2 DEF Better, Sign, Adverse, t
    <2>3. CASE d = "short"
        BY <1>1, <1>3, <2>1, <2>3 DEF Better, Sign, Adverse, t
    <2> QED BY <2>2, <2>3 DEF Dir
<1> QED BY <1>9, <1>10

(* On its entry bar a side is judged with the stops of its entry.          *)
LEMMA AtCloseFill ==
    ASSUME NEW f \in Book, NEW d \in Dir, f.first = d, Opened(f.side[d]),
           ~ Opened(f.side[Opp(d)]), NEW p \in Param, NEW r \in AnyRow, NEW q \in Int,
           NEW n, NEW h, h = AtClose(f, r, n, p, q), h.side[d].exit # None
    PROVE  \E k \in InBarHits(f.side[d], d, p, n.price) :
              h.side[d].exit = f.side[d].thr[k]
<1> DEFINE g == CheckRisk(f, "long", p, r, q, n.price)
           y == Judged(f.side[d], d, p, n.price)
<1>1. f.side[d] \in Side /\ f.side[d].exit = None
    BY DEF Book, Opened
<1>2. h = CheckRisk(g, "short", p, r, q, n.price)
    BY DEF AtClose
<1>3. h.side[d] = y
    <2>1. CASE d = "long"
        <3>1. Opp(d) = "short" /\ "short" \in Dir /\ d # "short"
            BY <2>1 DEF Opp, Dir
        <3>2. /\ g.side["long"] = y
              /\ g.side["short"] = f.side["short"]
            BY <2>1, <3>1 DEF CheckRisk, Book
        <3> HIDE DEF g
        <3>3. h = g
            BY <1>2, <3>1, <3>2 DEF CheckRisk
        <3> QED BY <2>1, <3>2, <3>3
    <2>2. CASE d = "short"
        <3>1. Opp(d) = "long"
            BY <2>2 DEF Opp
        <3>2. g = f
            BY <3>1 DEF CheckRisk
        <3> HIDE DEF g
        <3> QED BY <1>2, <2>2, <3>2 DEF CheckRisk, Book
    <2> QED BY <2>1, <2>2 DEF Dir
<1> HIDE DEF y
<1>4. y = Judged(f.side[d], d, p, n.price) /\ y.exit # None
    BY <1>3 DEF y
<1> QED BY <1>1, <1>3, <1>4, JudgedFill

(* A position that leaves on the bar it entered does so at a price of that *)
(* bar: the gap check at the entry is what keeps the fill honest.          *)
THEOREM EntryBarFills == Spec => []EntryBarFillTraded
<1>1. Init => EntryBarFillTraded
    BY SentinelAssumption DEF Init, EntryBarFillTraded, EmptyBook
<1>2. IInv /\ VacantSideForgets /\ EntryBarFillTraded /\ [Next]_vars => EntryBarFillTraded'
    <2> SUFFICES ASSUME IInv, VacantSideForgets, EntryBarFillTraded, [Next]_vars
                 PROVE  EntryBarFillTraded'
        OBVIOUS
    <2>1. ASSUME NEW n \in Rows, NEW p \in NextParams, NEW q \in Quotes, Bar(n, p, q)
          PROVE  EntryBarFillTraded'
        <3> SUFFICES ASSUME NEW d \in Dir, book'.first = d, Closed(book'.side[d])
                     PROVE  /\ Fine(row'.price.low) <= book'.side[d].exit
                            /\ book'.side[d].exit <= Fine(row'.price.high)
            BY DEF EntryBarFillTraded
        <3> DEFINE opened == AtOpen(book, row, n, p, q)
        <3>1. /\ p \in Param /\ Valid(p) /\ q \in Int /\ row \in AnyRow /\ n \in AnyRow
              /\ n.price \in Bars
              /\ ~ (row.signal.entry["long"] /\ row.signal.entry["short"])
            BY RowsType, ParamAssumption, QuoteAssumption, SwitchAssumption
               DEF IInv, NextParams, Valid, Rows
        <3>2. opened \in Book /\ Settled(opened)
            BY <3>1, AtOpenShape DEF IInv
        <3>3. \A c \in Dir : opened.first = c =>
                 SafeStops(opened.side[c], c, p, n.price.open)
            BY <3>1, EntersAtOpen DEF IInv, VacantSideForgets, Forgets
        <3>4. /\ \A c \in Dir : ~ NeedsAnchor(opened, c, p)
              /\ book' = AtClose(opened, row, n, p, q) /\ row' = n
            BY <2>1 DEF Bar, Stepped
        <3> HIDE DEF opened
        <3>5. \E c \in Dir : ~ Opened(opened.side[c])
            BY <3>2, OppType DEF Settled, Empty, Opened
        <3>6. book'.first = opened.first
            <4> SUFFICES ASSUME NEW h, h = AtClose(opened, row, n, p, q)
                         PROVE  h.first = opened.first
                BY <3>4
            <4> QED BY <3>1, <3>2, <3>4, <3>5, AtCloseMarks DEF RiskChecked
        <3>7. opened.first = d /\ Opened(opened.side[d]) /\ ~ Opened(opened.side[Opp(d)])
            BY <3>2, <3>6, SentinelAssumption DEF Settled
        <3>8. PICK k \in InBarHits(opened.side[d], d, p, n.price) :
                 book'.side[d].exit = opened.side[d].thr[k]
            <4> SUFFICES ASSUME NEW h, h = AtClose(opened, row, n, p, q),
                                h.side[d].exit # None
                         PROVE  \E k \in InBarHits(opened.side[d], d, p, n.price) :
                                   h.side[d].exit = opened.side[d].thr[k]
                BY <3>4 DEF Closed
            <4> QED BY <3>1, <3>2, <3>7, AtCloseFill
        <3>9. opened.side[d] \in Side
            BY <3>2 DEF Book
        <3>10. /\ Fine(n.price.low) <= opened.side[d].thr[k]
               /\ opened.side[d].thr[k] <= Fine(n.price.high)
            BY <3>1, <3>3, <3>7, <3>9, SafeFillTraded
        <3> QED BY <3>4, <3>8, <3>10
    <2>2. ASSUME NEW n \in Rows, NEW p \in NextParams, NEW q \in Quotes, Panic(n, p, q)
          PROVE  EntryBarFillTraded'
        BY <2>2 DEF Panic, EntryBarFillTraded
    <2>3. ASSUME NEW n \in Rows, NEW p \in NextParams, SkippedBar(n, p)
          PROVE  EntryBarFillTraded'
        BY <2>3, SentinelAssumption DEF SkippedBar, EntryBarFillTraded, EmptyBook
    <2>4. CASE UNCHANGED vars
        BY <2>4 DEF vars, EntryBarFillTraded
    <2> QED BY <2>1, <2>2, <2>3, <2>4 DEF Next
<1> QED BY <1>1, <1>2, Invariance, VacantSidesForget, PTL DEF Spec
-----------------------------------------------------------------------------
(* The account.                                                            *)

(* Every entry in the book was made at a positive price.                   *)

Paid(f) == \A d \in Dir : f.side[d].entry # None => f.side[d].entry > 0

(* Side d of the book g, made on the row after f, holds a position that f  *)
(* held too or that was entered on that row.                               *)
Traced(f, g) == \A d \in Dir :
    g.side[d].entry # None => Opened(f.side[d]) \/ g.first = d

LEMMA OpenPrice ==
    ASSUME NEW n \in Rows
    PROVE  n.price.open \in Int /\ n.price.close \in Int /\ n.price.open > 0
<1>1. PICK a \in Atrs : n \in [price : Bars, atr : {a}, signal : CleanSignals(a)]
    BY DEF Rows
<1> QED BY <1>1, BarsAssumption, PositivePrices

LEMMA AtOpenTraced ==
    ASSUME NEW f \in Book, Shape(f), Paid(f), NEW p \in Param, NEW r \in AnyRow,
           ~ (r.signal.entry["long"] /\ r.signal.entry["short"]),
           NEW q \in Int, NEW n \in AnyRow, n.price.open > 0,
           NEW g, g = AtOpen(f, r, n, p, q)
    PROVE  Paid(g) /\ Traced(f, g)
<1> DEFINE o == n.price.open
           f0 == Swept(f)
           f1 == StrategyExits(f0, r, o)
           f2 == TryEnter(f1, "long", p, r, q, o)
           f3 == TryEnter(f2, "short", p, r, q, o)
<1>1. /\ o \in Int /\ o > 0 /\ "long" \in Dir /\ "short" \in Dir
      /\ Opp("long") = "short" /\ Opp("short") = "long"
    BY DEF AnyRow, Dir, Opp
<1> HIDE DEF o
<1>2. /\ f0 \in Book
      /\ \A d \in Dir : f0.side[d].entry # None =>
            Opened(f.side[d]) /\ f0.side[d].entry = f.side[d].entry
    BY SweptType DEF Swept, Book, Vacant, Opened
<1> HIDE DEF f0
<1>3. /\ f1 \in Book
      /\ \A d \in Dir : f1.side[d].entry = f0.side[d].entry
    <2>1. f1 \in Book
        BY <1>1, <1>2, StrategyExitsType
    <2>2. \A d \in Dir : \/ f1.side[d] = f0.side[d]
                        \/ f1.side[d] = [f0.side[d] EXCEPT !.exit = Fine(o)]
        BY <1>2 DEF StrategyExits, Book
    <2>3. \A x \in Side : [x EXCEPT !.exit = Fine(o)].entry = x.entry
        BY DEF Side
    <2>4. \A d \in Dir : f0.side[d] \in Side
        BY <1>2 DEF Book
    <2> QED BY <2>1, <2>2, <2>3, <2>4
<1> HIDE DEF f1
<1>4. Fine(o) > 0 /\ Fine(o) \in Int
    BY <1>1, ScaleAssumption DEF Fine
<1>5. ASSUME NEW e \in Book, NEW d \in Dir, NEW h, h = TryEnter(e, d, p, r, q, o)
      PROVE  \/ h.first = e.first /\ h.side = e.side
             \/ /\ r.signal.entry[d] /\ h.first = d /\ h.side[d].entry = Fine(o)
                /\ \A c \in Dir : c # d => h.side[c] = e.side[c]
    BY <1>5 DEF TryEnter, Entered, Book, Side
<1>6. f2 \in Book /\ f3 \in Book
    BY <1>1, <1>3, TryEnterType
<1>7. \/ f2.first = f1.first /\ f2.side = f1.side
      \/ /\ r.signal.entry["long"] /\ f2.first = "long"
         /\ f2.side["long"].entry = Fine(o)
         /\ \A c \in Dir : c # "long" => f2.side[c] = f1.side[c]
    BY <1>1, <1>3, <1>5
<1>8. \/ f3.first = f2.first /\ f3.side = f2.side
      \/ /\ r.signal.entry["short"] /\ f3.first = "short"
         /\ f3.side["short"].entry = Fine(o)
         /\ \A c \in Dir : c # "short" => f3.side[c] = f2.side[c]
    BY <1>1, <1>5, <1>6
<1>9. r.signal.entry["long"] => f3.first = f2.first /\ f3.side = f2.side
    BY <1>8
<1>10. g = Untriggered(f3)
    BY DEF AtOpen, f3, f2, f1, f0, o
<1> HIDE DEF f2, f3
<1>11. \A d \in Dir : \/ f3.side[d].entry = f1.side[d].entry
                      \/ f3.first = d /\ f3.side[d].entry = Fine(o)
    <2>1. CASE f2.side = f1.side
        BY <1>1, <1>8, <2>1 DEF Dir
    <2>2. CASE f2.side # f1.side
        <3>1. f3.first = "long" /\ f3.side = f2.side
            BY <1>7, <1>9, <2>2
        <3> QED BY <1>1, <1>7, <2>2, <3>1 DEF Dir
    <2> QED BY <2>1, <2>2
<1>12. Paid(f3) /\ Traced(f, f3)
    <2> SUFFICES ASSUME NEW d \in Dir, f3.side[d].entry # None
                 PROVE  /\ f3.side[d].entry > 0
                        /\ Opened(f.side[d]) \/ f3.first = d
        BY DEF Paid, Traced
    <2>1. CASE f3.side[d].entry = f1.side[d].entry
        BY <1>2, <1>3, <2>1 DEF Paid
    <2>2. CASE f3.first = d /\ f3.side[d].entry = Fine(o)
        BY <1>4, <2>2
    <2> QED BY <1>11, <2>1, <2>2
<1>13. g.first = f3.first /\ \A d \in Dir : g.side[d].entry = f3.side[d].entry
    <2>1. /\ g.first = f3.first
          /\ \A d \in Dir : g.side[d] = [f3.side[d] EXCEPT !.hit = None]
        BY <1>6, <1>10 DEF Untriggered, Book
    <2> QED BY <1>6, <2>1 DEF Book, Side
<1> QED BY <1>12, <1>13 DEF Paid, Traced

(* The risk checks keep the entries; a position that leaves on the row it  *)
(* was entered on leaves by an in-bar stop.                                *)
LEMMA AtCloseTraced ==
    ASSUME NEW f \in Book, Settled(f), f.inBar = None,
           NEW p \in Param, NEW r \in AnyRow, NEW q \in Int, NEW n,
           \A d \in Dir : ~ NeedsAnchor(f, d, p),
           NEW h, h = AtClose(f, r, n, p, q)
    PROVE  /\ h.first = f.first
           /\ \A d \in Dir : h.side[d].entry = f.side[d].entry
           /\ \A d \in Dir : h.first = d /\ Closed(h.side[d]) => HitInBar(h, d)
<1> DEFINE g == CheckRisk(f, "long", p, r, q, n.price)
<1>1. /\ "long" \in Dir /\ "short" \in Dir
      /\ Opp("long") = "short" /\ Opp("short") = "long"
    BY DEF Dir, Opp
<1>2. h = CheckRisk(g, "short", p, r, q, n.price)
    BY DEF AtClose
<1>3. /\ g \in Book /\ g.first = f.first
      /\ g.side["short"] = f.side["short"]
      /\ g.side["long"].entry = f.side["long"].entry
      /\ ~ Opened(f.side["long"]) => g = f
      /\ Opened(f.side["long"]) =>
            \/ g.side["long"].exit = None /\ g.inBar = None
            \/ /\ g.side["long"].exit # None /\ g.inBar = "long"
               /\ g.side["long"].hit # None
    BY <1>1, CheckRiskEffect
<1> HIDE DEF g
<1>4. ~ NeedsAnchor(g, "short", p)
    BY <1>1, <1>3 DEF NeedsAnchor
<1>5. /\ h.first = g.first /\ h.side["long"] = g.side["long"]
      /\ h.side["short"].entry = g.side["short"].entry
      /\ ~ Opened(g.side["short"]) => h = g
      /\ Opened(g.side["short"]) =>
            \/ h.side["short"].exit = None /\ h.inBar = None
            \/ /\ h.side["short"].exit # None /\ h.inBar = "short"
               /\ h.side["short"].hit # None
    BY <1>1, <1>2, <1>3, <1>4, CheckRiskEffect
<1>6. \A d \in Dir : h.side[d].entry = f.side[d].entry
    BY <1>3, <1>5 DEF Dir
<1>7. ASSUME h.first = "long", Closed(h.side["long"]) PROVE HitInBar(h, "long")
    <2>1. Opened(f.side["long"]) /\ ~ Opened(f.side["short"])
        BY <1>1, <1>3, <1>5, <1>7, SentinelAssumption DEF Settled
    <2> QED BY <1>3, <1>5, <1>7, <2>1 DEF HitInBar, Closed
<1>8. ASSUME h.first = "short", Closed(h.side["short"]) PROVE HitInBar(h, "short")
    <2>1. Opened(f.side["short"])
        BY <1>1, <1>3, <1>5, <1>8, SentinelAssumption DEF Settled
    <2> QED BY <1>3, <1>5, <1>8, <2>1 DEF HitInBar, Closed
<1> QED BY <1>3, <1>5, <1>6, <1>7, <1>8 DEF Dir

LEMMA SteppedBook ==
    ASSUME IInv, Paid(book), NEW n \in Rows, NEW p \in NextParams, NEW q \in Quotes,
           Stepped(n, p, q)
    PROVE  /\ book' \in Book /\ Shape(book') /\ Paid(book') /\ Traced(book, book')
           /\ \A d \in Dir : book'.first = d /\ Closed(book'.side[d]) => HitInBar(book', d)
<1> DEFINE opened == AtOpen(book, row, n, p, q)
           done == AtClose(opened, row, n, p, q)
<1>1. /\ p \in Params /\ p \in Param /\ q \in Int
      /\ row \in AnyRow /\ n \in AnyRow /\ n.price.open > 0
      /\ ~ (row.signal.entry["long"] /\ row.signal.entry["short"])
    BY RowsType, OpenPrice, ParamAssumption, QuoteAssumption, SwitchAssumption
       DEF IInv, NextParams, Valid
<1>2. opened \in Book /\ Settled(opened) /\ opened.inBar = None
    BY <1>1, AtOpenShape DEF IInv
<1>3. Paid(opened) /\ Traced(book, opened)
    BY <1>1, AtOpenTraced DEF IInv
<1>4. (\A d \in Dir : ~ NeedsAnchor(opened, d, p)) /\ book' = done
    BY DEF Stepped
<1> HIDE DEF opened
<1>5. done \in Book /\ Shape(done)
    BY <1>1, <1>2, <1>4, AtCloseShape
<1>6. /\ done.first = opened.first
      /\ \A d \in Dir : done.side[d].entry = opened.side[d].entry
      /\ \A d \in Dir : done.first = d /\ Closed(done.side[d]) => HitInBar(done, d)
    BY <1>1, <1>2, <1>4, AtCloseTraced
<1> HIDE DEF done
<1> QED BY <1>3, <1>4, <1>5, <1>6 DEF Paid, Traced

-----------------------------------------------------------------------------
(* The account.                                                            *)

Account == [balance : Int, equity : Int, fee : Int, feeCum : Int, peak : Int]

LEMMA WorthType ==
    ASSUME NEW amount \in Int, NEW d \in Dir, NEW entry \in Int, entry > 0,
           NEW price \in Int
    PROVE  Worth(amount, d, entry, price) \in Int
<1>1. Sign(d) * (price - entry) \in Int
    BY DEF Sign, Dir
<1>2. amount * (entry + Sign(d) * (price - entry)) \in Int
    BY <1>1
<1> QED BY <1>2 DEF Worth

LEMMA FeeType ==
    ASSUME NEW amount \in Int, NEW worth \in Int
    PROVE  Fee(amount, worth) \in Int
<1>1. (amount + worth) * FeePct \in Int /\ 2 * Scale \in Int /\ 2 * Scale > 0
    BY MoneyAssumption, ScaleAssumption
<1> QED BY <1>1, MoneyAssumption DEF Fee

LEMMA PaidOutType ==
    ASSUME NEW a \in Account, NEW f \in Book, Paid(f), NEW d \in Dir, Closed(f.side[d])
    PROVE  /\ PaidOut(a, f.side[d], d) \in Account
           /\ PaidOut(a, f.side[d], d).peak = a.peak
           /\ PaidOut(a, f.side[d], d).feeCum - PaidOut(a, f.side[d], d).fee
                = a.feeCum - a.fee
<1>1. /\ f.side[d].entry \in Int /\ f.side[d].exit \in Int /\ f.side[d].entry > 0
      /\ a.balance \in Int
    BY DEF Book, Side, Price, Closed, Paid, Account
<1> DEFINE worth == Worth(a.balance, d, f.side[d].entry, f.side[d].exit)
           cost == Fee(a.balance, worth)
<1>2. worth \in Int /\ cost \in Int
    BY <1>1, WorthType, FeeType
<1>3. PaidOut(a, f.side[d], d) =
        [a EXCEPT !.balance = worth - cost, !.fee = @ + cost, !.feeCum = @ + cost]
    BY DEF PaidOut
<1> HIDE DEF worth, cost
<1>4. worth - cost \in Int /\ a.fee + cost \in Int /\ a.feeCum + cost \in Int
    BY <1>2 DEF Account
<1>5. PaidOut(a, f.side[d], d) =
        [balance |-> worth - cost, equity |-> a.equity, fee |-> a.fee + cost,
         feeCum |-> a.feeCum + cost, peak |-> a.peak]
    BY <1>3 DEF Account
<1>6. (a.feeCum + cost) - (a.fee + cost) = a.feeCum - a.fee
    BY <1>2 DEF Account
<1>7. PaidOut(a, f.side[d], d) \in Account
    BY <1>4, <1>5 DEF Account
<1> QED BY <1>5, <1>6, <1>7

(* What is paid out depends on the balance alone.                          *)
LEMMA PaidOutBalance ==
    ASSUME NEW a \in Account, NEW b \in Account, a.balance = b.balance, NEW x, NEW d
    PROVE  PaidOut(a, x, d).balance = PaidOut(b, x, d).balance
BY DEF PaidOut, Account

LEMMA RoundType ==
    ASSUME NEW a \in Account, NEW f \in Book, Paid(f), NEW inBar
    PROVE  /\ Round(a, f, inBar) \in Account /\ Round(a, f, inBar).peak = a.peak
           /\ Round(a, f, inBar).feeCum - Round(a, f, inBar).fee = a.feeCum - a.fee
<1> DEFINE b == IF Leaving(f, "long", inBar) THEN PaidOut(a, f.side["long"], "long")
                ELSE a
<1>1. "long" \in Dir /\ "short" \in Dir
    BY DEF Dir
<1>2. b \in Account /\ b.peak = a.peak /\ b.feeCum - b.fee = a.feeCum - a.fee
    BY <1>1, PaidOutType DEF Leaving
<1>3. Round(a, f, inBar) = IF Leaving(f, "short", inBar)
                           THEN PaidOut(b, f.side["short"], "short") ELSE b
    BY DEF Round
<1> HIDE DEF b
<1> QED BY <1>1, <1>2, <1>3, PaidOutType DEF Leaving

LEMMA RealizedType ==
    ASSUME NEW a \in Account, NEW f \in Book, Paid(f)
    PROVE  /\ Realized(a, f) \in Account /\ Realized(a, f).peak = a.peak
           /\ Realized(a, f).feeCum = a.feeCum + Realized(a, f).fee
<1> DEFINE b == [a EXCEPT !.fee = 0]
           c == Round(b, f, FALSE)
           e == Round(c, f, TRUE)
<1>1. b \in Account /\ b.peak = a.peak /\ b.feeCum = a.feeCum /\ b.fee = 0
    BY DEF Account
<1>2. Realized(a, f) = e
    BY DEF Realized
<1> HIDE DEF b
<1>3. c \in Account /\ c.peak = b.peak /\ c.feeCum - c.fee = b.feeCum - b.fee
    BY <1>1, RoundType
<1> HIDE DEF c
<1>4. e \in Account /\ e.peak = c.peak /\ e.feeCum - e.fee = c.feeCum - c.fee
    BY <1>3, RoundType
<1> HIDE DEF e
<1> QED BY <1>1, <1>2, <1>3, <1>4 DEF Account

LEMMA MarkedType ==
    ASSUME NEW balance \in Int, NEW f \in Book, Paid(f), NEW close \in Int
    PROVE  Marked(balance, f, close) \in Int
<1>1. \A d \in Dir : Opened(f.side[d]) =>
        Worth(balance, d, f.side[d].entry, Fine(close)) \in Int
    BY WorthType, FineType DEF Book, Side, Price, Opened, Paid
<1> QED BY <1>1 DEF Marked, Dir

LEMMA AccountedEffect ==
    ASSUME NEW a \in Account, a.peak >= 0, NEW f \in Book, Paid(f), NEW close \in Int,
           NEW c, c = Accounted(a, f, close)
    PROVE  /\ c \in Account /\ c.balance >= 0 /\ c.equity >= 0
           /\ c.peak >= 0 /\ c.equity <= c.peak
           /\ c.balance = NotNegative(Realized(a, f).balance)
           /\ c.fee = Realized(a, f).fee /\ c.feeCum = Realized(a, f).feeCum
           /\ c.equity = NotNegative(Marked(Realized(a, f).balance, f, close))
<1> DEFINE paid == Realized(a, f)
           equity == NotNegative(Marked(paid.balance, f, close))
<1>1. paid \in Account /\ paid.peak = a.peak
    BY RealizedType
<1>2. c = [paid EXCEPT !.balance = NotNegative(@), !.equity = equity,
                       !.peak = IF equity > @ THEN equity ELSE @]
    BY DEF Accounted
<1> HIDE DEF paid
<1>3. equity \in Int /\ equity >= 0
    BY <1>1, MarkedType DEF NotNegative, Account
<1> HIDE DEF equity
<1>4. NotNegative(paid.balance) \in Int /\ NotNegative(paid.balance) >= 0
    BY <1>1 DEF NotNegative, Account
<1>5. /\ c \in Account /\ c.balance = NotNegative(paid.balance)
      /\ c.equity = equity /\ c.fee = paid.fee /\ c.feeCum = paid.feeCum
      /\ c.peak = IF equity > paid.peak THEN equity ELSE paid.peak
    BY <1>1, <1>2, <1>3, <1>4 DEF Account
<1>6. c.peak >= 0 /\ c.equity <= c.peak
    BY <1>1, <1>3, <1>5 DEF Account
<1> QED BY <1>3, <1>4, <1>5, <1>6 DEF paid, equity

(* Nothing closes: nothing is paid.                                        *)
LEMMA QuietAccount ==
    ASSUME NEW a \in Account, NEW f, \A d \in Dir : ~ Closed(f.side[d])
    PROVE  Realized(a, f) = [a EXCEPT !.fee = 0]
BY DEF Realized, Round, Leaving, Dir

-----------------------------------------------------------------------------
(* The inductive invariant.                                                *)

KInv == IInv /\ Paid(book) /\ AccountOK

LEMMA InitKInv == KernelInit => KInv
<1> SUFFICES ASSUME KernelInit PROVE KInv
    OBVIOUS
<1>1. IInv
    BY InitIInv DEF KernelInit
<1>2. Paid(book)
    BY DEF KernelInit, Init, EmptyBook, Vacant, Paid
<1>3. AccountOK
    <2>1. /\ account \in [balance : Nat, equity : Nat, fee : Int, feeCum : Int, peak : Nat]
          /\ account.balance = Capital /\ account.equity = Capital
          /\ account.peak = Capital
        BY MoneyAssumption DEF KernelInit
    <2>2. broke = FALSE /\ index = 1
        BY DEF KernelInit, Init
    <2>3. Ruined(account) = FALSE /\ account.equity <= account.peak
        BY <2>1, MoneyAssumption DEF Ruined
    <2>4. index \in 1 .. Length - 1
        BY <2>2, LengthAssumption
    <2> QED BY <2>1, <2>2, <2>3, <2>4, Zenon DEF AccountOK
<1> QED BY <1>1, <1>2, <1>3 DEF KInv

(* A row of the kernel is a row of the position machine: while the account *)
(* has anything left, only a position can use it up.                       *)
LEMMA KernelBarIsBar ==
    ASSUME KInv, NEW n \in Rows, NEW p \in NextParams, NEW q \in Quotes,
           KernelBar(n, p, q)
    PROVE  Bar(n, p, q) /\ Paid(book)' /\ AccountOK'
<1>1. /\ book' \in Book /\ Paid(book')
    BY SteppedBook DEF KInv, KernelBar
<1>2. n.price.close \in Int
    BY OpenPrice
<1>3. /\ account \in Account /\ account.peak >= 0
      /\ account.balance > 0 /\ account.equity > 0
    <2>1. ~ broke /\ AccountOK
        BY DEF KInv, KernelBar, Stepped
    <2>2. /\ account \in [balance : Nat, equity : Nat, fee : Int, feeCum : Int, peak : Nat]
          /\ ~ (account.balance <= 0 \/ account.equity <= 0)
        BY <2>1 DEF AccountOK, Ruined
    <2> QED BY <2>2 DEF Account
<1>4. /\ account' \in Account /\ account'.balance >= 0 /\ account'.equity >= 0
      /\ account'.peak >= 0 /\ account'.equity <= account'.peak
      /\ account'.balance = NotNegative(Realized(account, book').balance)
      /\ account'.equity =
            NotNegative(Marked(Realized(account, book').balance, book', n.price.close))
    BY <1>1, <1>2, <1>3, AccountedEffect DEF KernelBar
<1>5. broke' = Ruined(account') /\ Stepped(n, p, q)
      /\ index' = index + 1 /\ index + 1 < Length
    BY DEF KernelBar, NextRow
<1>6. AccountOK'
    BY <1>4, <1>5, LengthAssumption DEF AccountOK, Account, KInv
<1>7. ASSUME \A d \in Dir : book'.side[d].entry = None
      PROVE  broke' = FALSE
    <2>1. \A d \in Dir : ~ Closed(book'.side[d]) /\ ~ Opened(book'.side[d])
        BY <1>7 DEF Closed, Opened
    <2>2. Realized(account, book').balance = account.balance
        BY <1>3, <2>1, QuietAccount DEF Account
    <2>3. Marked(account.balance, book', n.price.close) = account.balance
        BY <2>1 DEF Marked, Dir
    <2>4. account'.balance = account.balance /\ account'.equity = account.balance
        BY <1>3, <1>4, <2>2, <2>3 DEF NotNegative, Account
    <2>5. account.balance \in Int
        BY <1>3 DEF Account
    <2>6. Ruined(account') = FALSE
        BY <1>3, <2>4, <2>5 DEF Ruined
    <2> QED BY <1>5, <2>6
<1>8. broke' \in BOOLEAN
    BY <1>5 DEF Ruined
<1>9. Bar(n, p, q)
    BY <1>5, <1>7, <1>8 DEF Bar
<1> QED BY <1>1, <1>6, <1>9 DEF Paid

LEMMA KernelStep ==
    KInv /\ [KernelNext]_kernelVars => [Next]_vars /\ KInv'
<1> SUFFICES ASSUME KInv, [KernelNext]_kernelVars PROVE [Next]_vars /\ KInv'
    OBVIOUS
<1>1. ASSUME NEW n \in Rows, NEW p \in NextParams, NEW q \in Quotes, KernelBar(n, p, q)
      PROVE  [Next]_vars /\ KInv'
    <2>1. Bar(n, p, q) /\ Paid(book)' /\ AccountOK'
        BY <1>1, KernelBarIsBar
    <2>2. IInv'
        BY <2>1, BarIInv DEF KInv
    <2> QED BY <2>1, <2>2 DEF Next, KInv
<1>2. ASSUME NEW n \in Rows, NEW p \in NextParams, NEW q \in Quotes, KernelPanic(n, p, q)
      PROVE  [Next]_vars /\ KInv'
    <2>1. Panic(n, p, q) /\ UNCHANGED <<account, index, book, broke>>
        BY <1>2 DEF KernelPanic, Panic
    <2>2. Next
        BY <2>1 DEF Next
    <2> QED BY <2>1, <2>2, NextIInv DEF KInv, Paid, AccountOK
<1>3. ASSUME NEW n \in Rows, NEW p \in NextParams, KernelSkip(n, p)
      PROVE  [Next]_vars /\ KInv'
    <2>1. /\ SkippedBar(n, p) /\ account' = AccountedOnSkip(account)
          /\ index' = index + 1 /\ index + 1 < Length
          /\ book' = EmptyBook /\ broke' = broke
        BY <1>3 DEF KernelSkip, NextRow, SkippedBar
    <2>2. Next
        BY <2>1 DEF Next
    <2>3. Paid(book')
        BY <2>1 DEF Paid, EmptyBook, Vacant
    <2>4. /\ account' \in [balance : Nat, equity : Nat, fee : Int, feeCum : Int, peak : Nat]
          /\ account'.balance = account.balance /\ account'.equity = account.equity
          /\ account'.peak = account.peak
        <3>1. account \in [balance : Nat, equity : Nat, fee : Int, feeCum : Int, peak : Nat]
            BY DEF KInv, AccountOK
        <3>2. NotNegative(account.balance) = account.balance
              /\ NotNegative(account.equity) = account.equity
            BY <3>1 DEF NotNegative
        <3>3. account' = [balance |-> account.balance, equity |-> account.equity,
                          fee |-> 0, feeCum |-> account.feeCum, peak |-> account.peak]
            BY <2>1, <3>1, <3>2 DEF AccountedOnSkip
        <3> QED BY <3>1, <3>3
    <2>5. AccountOK'
        BY <2>1, <2>4, LengthAssumption DEF KInv, AccountOK, Ruined
    <2> QED BY <2>2, <2>3, <2>5, NextIInv DEF KInv, Paid
<1>4. CASE UNCHANGED kernelVars
    <2>1. UNCHANGED vars /\ UNCHANGED <<account, index, book, broke>>
        BY <1>4 DEF kernelVars, vars
    <2> QED BY <2>1, NextIInv DEF KInv, Paid, AccountOK
<1> QED BY <1>1, <1>2, <1>3, <1>4 DEF KernelNext
LEMMA KernelInvariance == KernelSpec => []KInv
<1> QED BY InitKInv, KernelStep, PTL DEF KernelSpec

-----------------------------------------------------------------------------
(* The kernel with its account implements the position machine whose       *)
(* verdict "broke" is left open.                                           *)
THEOREM KernelImplementsPositions == KernelSpec => Positions
<1>1. KernelInit => Init
    BY DEF KernelInit
<1>2. KInv /\ [KernelNext]_kernelVars => [Next]_vars
    BY KernelStep
<1> QED BY <1>1, <1>2, KernelInvariance, PTL DEF KernelSpec, Positions, Spec

(* What holds of the position machine holds of the kernel: it never holds  *)
(* a long and a short position at once.                                    *)
THEOREM KernelHoldsOnePosition == KernelSpec => []SinglePosition
<1> QED BY KernelImplementsPositions, PositionsAreSingle, PTL DEF Positions

(* Balance and equity never end a row below zero, the peak covers the      *)
(* equity, and the verdict is the one on the account.                      *)
THEOREM AccountsAreSound == KernelSpec => []AccountOK
<1>1. KInv => AccountOK
    BY DEF KInv
<1> QED BY <1>1, KernelInvariance, PTL

(* The fee column adds up to the cumulated fee.                            *)
THEOREM FeesAdd == KernelSpec => FeesAddUp
<1> DEFINE Adds == ~ panicked' => account'.feeCum = account.feeCum + account'.fee
<1>1. KInv /\ [KernelNext]_kernelVars => [Adds]_kernelVars
    <2> SUFFICES ASSUME KInv, KernelNext PROVE Adds
        OBVIOUS
    <2>1. account \in Account
        BY DEF KInv, AccountOK, Account
    <2>2. ASSUME NEW n \in Rows, NEW p \in NextParams, NEW q \in Quotes, KernelBar(n, p, q)
          PROVE  Adds
        <3>1. book' \in Book /\ Paid(book') /\ account.peak >= 0
            BY <2>2, SteppedBook DEF KInv, KernelBar, AccountOK
        <3>2. /\ account'.fee = Realized(account, book').fee
              /\ account'.feeCum = Realized(account, book').feeCum
            BY <2>1, <2>2, <3>1, OpenPrice, AccountedEffect DEF KernelBar
        <3> QED BY <2>1, <3>1, <3>2, RealizedType
    <2>3. ASSUME NEW n \in Rows, NEW p \in NextParams, NEW q \in Quotes, KernelPanic(n, p, q)
          PROVE  Adds
        BY <2>3 DEF KernelPanic, Panic
    <2>4. ASSUME NEW n \in Rows, NEW p \in NextParams, KernelSkip(n, p)
          PROVE  Adds
        <3>1. account'.fee = 0 /\ account'.feeCum = account.feeCum
            BY <2>1, <2>4 DEF KernelSkip, AccountedOnSkip, Account
        <3> QED BY <2>1, <3>1 DEF Account
    <2> QED BY <2>2, <2>3, <2>4 DEF KernelNext
<1> QED BY <1>1, KernelInvariance, PTL DEF KernelSpec, FeesAddUp

(* The account changes only in a row that closes a position that was held  *)
(* before it or entered on it: no exit is paid a second time.              *)
THEOREM ExitsArePaidOnce == KernelSpec => PaidOnce
<1> DEFINE Once ==
        ~ panicked' /\ (account'.balance # account.balance \/ account'.fee # 0) =>
            \E d \in Dir : /\ Closed(book'.side[d])
                           /\ Opened(book.side[d]) \/ book'.first = d
<1>1. KInv /\ [KernelNext]_kernelVars => [Once]_kernelVars
    <2> SUFFICES ASSUME KInv, KernelNext PROVE Once
        OBVIOUS
    <2>1. account \in [balance : Nat, equity : Nat, fee : Int, feeCum : Int, peak : Nat]
          /\ account \in Account
        BY DEF KInv, AccountOK, Account
    <2>2. ASSUME NEW n \in Rows, NEW p \in NextParams, NEW q \in Quotes, KernelBar(n, p, q)
          PROVE  Once
        <3>1. book' \in Book /\ Paid(book') /\ Traced(book, book') /\ account.peak >= 0
            BY <2>1, <2>2, SteppedBook DEF KInv, KernelBar
        <3>2. CASE \E d \in Dir : Closed(book'.side[d])
            BY <3>1, <3>2 DEF Traced, Closed
        <3>3. CASE \A d \in Dir : ~ Closed(book'.side[d])
            <4>1. Realized(account, book') = [account EXCEPT !.fee = 0]
                BY <2>1, <3>3, QuietAccount
            <4>2. /\ account'.balance = NotNegative(Realized(account, book').balance)
                  /\ account'.fee = Realized(account, book').fee
                BY <2>1, <2>2, <3>1, OpenPrice, AccountedEffect DEF KernelBar
            <4>3. account'.fee = 0 /\ account'.balance = NotNegative(account.balance)
                BY <2>1, <4>1, <4>2
            <4> QED BY <2>1, <4>3 DEF NotNegative
        <3> QED BY <3>2, <3>3
    <2>3. ASSUME NEW n \in Rows, NEW p \in NextParams, NEW q \in Quotes, KernelPanic(n, p, q)
          PROVE  Once
        BY <2>3 DEF KernelPanic, Panic
    <2>4. ASSUME NEW n \in Rows, NEW p \in NextParams, KernelSkip(n, p)
          PROVE  Once
        <3>1. account'.fee = 0 /\ account'.balance = NotNegative(account.balance)
            BY <2>1, <2>4 DEF KernelSkip, AccountedOnSkip
        <3> QED BY <2>1, <3>1 DEF NotNegative
    <2> QED BY <2>2, <2>3, <2>4 DEF KernelNext
<1> QED BY <1>1, KernelInvariance, PTL DEF KernelSpec, PaidOnce

(* When both positions of a reversal close on its row, the one that was    *)
(* held before is paid out first.                                          *)
THEOREM ExitsAreInOrder == KernelSpec => SettledInOrder
<1> DEFINE Ordered ==
        \A d \in Dir :
            ~ broke /\ ~ panicked' /\ book'.first = d
            /\ Closed(book'.side[Opp(d)]) /\ Closed(book'.side[d])
                => LET before == PaidOut(account, book'.side[Opp(d)], Opp(d))
                       after == PaidOut(before, book'.side[d], d)
                   IN  account'.balance = NotNegative(after.balance)
<1>1. ASSUME KInv, NEW n \in Rows, NEW p \in NextParams, NEW q \in Quotes,
             KernelBar(n, p, q), NEW d \in Dir, book'.first = d,
             Closed(book'.side[Opp(d)]), Closed(book'.side[d])
      PROVE  account'.balance =
                NotNegative(PaidOut(PaidOut(account, book'.side[Opp(d)], Opp(d)),
                                    book'.side[d], d).balance)
    <2> DEFINE x == book'.side[Opp(d)]
               y == book'.side[d]
               a == [account EXCEPT !.fee = 0]
    <2>1. account \in Account /\ account.peak >= 0
        BY <1>1 DEF KInv, AccountOK, Account
    <2>2. /\ book' \in Book /\ Paid(book') /\ HitInBar(book', d)
        BY <1>1, SteppedBook DEF KInv, KernelBar
    <2>3. Opp(d) \in Dir /\ Opp(d) # d /\ Opp(Opp(d)) = d
        BY DEF Opp, Dir
    <2>4. ~ HitInBar(book', Opp(d))
        BY <2>2, <2>3 DEF HitInBar
    <2>5. /\ Leaving(book', d, TRUE) /\ ~ Leaving(book', d, FALSE)
          /\ Leaving(book', Opp(d), FALSE) /\ ~ Leaving(book', Opp(d), TRUE)
        BY <1>1, <2>2, <2>4 DEF Leaving, HitInBar
    <2>6. \A b, i : /\ Leaving(book', d, i) /\ ~ Leaving(book', Opp(d), i)
                        => Round(b, book', i) = PaidOut(b, y, d)
                    /\ Leaving(book', Opp(d), i) /\ ~ Leaving(book', d, i)
                        => Round(b, book', i) = PaidOut(b, x, Opp(d))
        BY DEF Round, Dir, Opp
    <2>7. Realized(account, book') = PaidOut(PaidOut(a, x, Opp(d)), y, d)
        BY <2>5, <2>6 DEF Realized
    <2>8. PaidOut(a, x, Opp(d)) \in Account /\ PaidOut(account, x, Opp(d)) \in Account
          /\ a \in Account /\ a.balance = account.balance
        <3>1. a \in Account /\ a.balance = account.balance
            BY <2>1 DEF Account
        <3> QED BY <1>1, <2>1, <2>2, <2>3, <3>1, PaidOutType
    <2>9. PaidOut(PaidOut(a, x, Opp(d)), y, d).balance
            = PaidOut(PaidOut(account, x, Opp(d)), y, d).balance
        <3> HIDE DEF x, y, a
        <3>1. PaidOut(a, x, Opp(d)).balance = PaidOut(account, x, Opp(d)).balance
            BY <2>1, <2>8, PaidOutBalance
        <3> DEFINE u == PaidOut(a, x, Opp(d))
                   v == PaidOut(account, x, Opp(d))
        <3>2. u \in Account /\ v \in Account /\ u.balance = v.balance
            BY <2>8, <3>1
        <3> HIDE DEF u, v
        <3>3. PaidOut(u, y, d).balance = PaidOut(v, y, d).balance
            BY <3>2, PaidOutBalance
        <3> QED BY <3>3 DEF u, v
    <2>10. account'.balance = NotNegative(Realized(account, book').balance)
        BY <1>1, <2>1, <2>2, OpenPrice, AccountedEffect DEF KernelBar
    <2> QED BY <2>7, <2>9, <2>10
<1>2. KInv /\ [KernelNext]_kernelVars => [Ordered]_kernelVars
    <2> SUFFICES ASSUME KInv, KernelNext PROVE Ordered
        OBVIOUS
    <2>1. ASSUME NEW n \in Rows, NEW p \in NextParams, NEW q \in Quotes, KernelBar(n, p, q)
          PROVE  Ordered
        BY <1>1, <2>1
    <2>2. ASSUME NEW n \in Rows, NEW p \in NextParams, NEW q \in Quotes, KernelPanic(n, p, q)
          PROVE  Ordered
        BY <2>2 DEF KernelPanic, Panic
    <2>3. ASSUME NEW n \in Rows, NEW p \in NextParams, KernelSkip(n, p)
          PROVE  Ordered
        BY <2>3 DEF KernelSkip, SkippedBar
    <2> QED BY <2>1, <2>2, <2>3 DEF KernelNext
<1> QED BY <1>2, KernelInvariance, PTL DEF KernelSpec, SettledInOrder
=============================================================================
