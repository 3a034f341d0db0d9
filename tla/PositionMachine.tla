-------------------------- MODULE PositionMachine --------------------------
(***************************************************************************)
(* The per-bar position machine of the backtest kernel: signal cleaning,   *)
(* strategy exits and entries at the open, the gap check that guards an    *)
(* entry, trailing stops, risk triggers and the frame label, as            *)
(* BacktestState::calculate_position runs them for one row.                *)
(*                                                                         *)
(* The two directions of the code (..._long and ..._short fields) are the  *)
(* two elements of Dir.  Bar prices are integers.  Thresholds and fills    *)
(* are integers in units of 1/Scale of a price tick, so that a percentage  *)
(* of a price stays exact.  Capital is abstracted to the verdict           *)
(* "broke", the PSAR recurrence to a fresh quote per bar.                  *)
(***************************************************************************)
EXTENDS Integers

CONSTANTS
    Bars,       \* the possible [open, high, low, close] records
    Atrs,       \* the possible ATR readings of a row: integers and NaN
    Quotes,     \* the possible PSAR stop prices
    Params,     \* the possible (validated) backtest parameters
    Switching,  \* parameters a schedule may switch among at any row; a run
                \* that starts with others keeps them
    Scale,      \* threshold units per price tick; also 100 %
    None,       \* Option::None
    NaN         \* an ATR that is not a number

Dir == {"long", "short"}
Opp(d) == IF d = "long" THEN "short" ELSE "long"
Sign(d) == IF d = "long" THEN 1 ELSE -1

SL == {"sl_pct", "sl_atr"}
TP == {"tp_pct", "tp_atr"}
TSL == {"tsl_pct", "tsl_atr"}
Kind == SL \cup TP \cup TSL \cup {"tsl_psar"}
Pct == {"sl_pct", "tp_pct", "tsl_pct"}
Class(k) == IF k \in SL THEN "sl" ELSE IF k \in TP THEN "tp" ELSE "tsl"
Classes == {"sl", "tp", "tsl"}

(* level: a pct in units of 1/Scale, an ATR multiple, or 1 for "PSAR on";   *)
(* 0 when the parameter is absent or not positive.                         *)
Param == [level : [Kind -> Nat], anchorAtExtreme : [Classes -> BOOLEAN],
          triggerAtExtreme : [Classes -> BOOLEAN],
          exitInBar : [Classes -> BOOLEAN], tight : BOOLEAN]

(* What BacktestParams::validate accepts, and a trailing stop never leaves  *)
(* in the bar that triggers it.                                            *)
Valid(p) == /\ p \in Param
            /\ \A c \in Classes : p.exitInBar[c] => p.triggerAtExtreme[c]
            /\ ~ p.exitInBar["tsl"]

On(p, k) == p.level[k] > 0

ASSUME BarsAssumption ==
    \A b \in Bars : /\ b \in [open : Int, high : Int, low : Int, close : Int]
                    /\ b.low <= b.open /\ b.open <= b.high
                    /\ b.low <= b.close /\ b.close <= b.high
ASSUME SentinelAssumption ==
    None \notin Int \cup Dir /\ NaN \notin Int /\ None # NaN
ASSUME AtrAssumption == Atrs \subseteq Int \cup {NaN}
ASSUME QuoteAssumption == Quotes \subseteq Int
ASSUME ParamAssumption == \A p \in Params : Valid(p)
ASSUME SwitchAssumption == Switching \subseteq Params
ASSUME ScaleAssumption == Scale \in Nat \ {0}

-----------------------------------------------------------------------------
(* Signals, as the preprocessing leaves them (rules R1 to R5).             *)

Signals == [entry : [Dir -> BOOLEAN], exit : [Dir -> BOOLEAN]]

Clean(raw, skip, atr) ==
    [raw EXCEPT !.entry =
        [d \in Dir |-> /\ raw.entry[d]
                       /\ ~ raw.entry[Opp(d)]
                       /\ ~ raw.exit[d]
                       /\ ~ skip
                       /\ atr # NaN]]

CleanSignals(atr) == {Clean(raw, skip, atr) : raw \in Signals, skip \in BOOLEAN}

(* One prepared row: prices, the row's ATR and its clean signals.          *)
Rows == UNION {[price : Bars, atr : {a}, signal : CleanSignals(a)] : a \in Atrs}

-----------------------------------------------------------------------------
(* Prices and thresholds.                                                  *)

Fine(p) == p * Scale
Number(x) == x \notin {None, NaN}

(* x lies strictly on the profitable side of y for a position in d.        *)
Better(d, x, y) == Sign(d) * x > Sign(d) * y

(* The extreme that lies against d, and the one that lies with it.         *)
Adverse(d, b) == IF d = "long" THEN b.low ELSE b.high
Favourable(d, b) == IF d = "long" THEN b.high ELSE b.low

Anchor(d, c, p, b) ==
    IF ~ p.anchorAtExtreme[c] THEN b.close
    ELSE IF c = "sl" THEN Adverse(d, b) ELSE Favourable(d, b)

Threshold(d, k, p, anchor, atr) ==
    LET way == IF k \in TP THEN Sign(d) ELSE -Sign(d)
    IN  IF k \in Pct THEN anchor * (Scale + way * p.level[k])
        ELSE IF atr = NaN THEN NaN
        ELSE Fine(anchor + way * atr * p.level[k])

(* The thresholds an entry in d on signal row r would start with.          *)
EntryThreshold(d, k, p, r, quote) ==
    IF k = "tsl_psar" THEN quote
    ELSE Threshold(d, k, p, Anchor(d, Class(k), p, r.price), r.atr)

(* Variant: only the stops are checked for a gap, not the take profits.    *)
SafeStopsOnly(d, k, t, open) ==
    /\ Number(t)
    /\ \/ k \in TP
       \/ k = "tsl_psar" /\ ~ Better(d, t, Fine(open))
       \/ Better(d, Fine(open), t)

(* The gap check: the open has not yet crossed the threshold.              *)
Safe(d, k, t, open) ==
    /\ Number(t)
    /\ IF k = "tsl_psar" THEN ~ Better(d, t, Fine(open))
       ELSE IF k \in TP THEN Better(d, t, Fine(open))
       ELSE Better(d, Fine(open), t)

(* Variant: every next-bar stop is tested against the close.               *)
ProbeClose(d, c, p, b) ==
    IF ~ p.exitInBar[c] THEN b.close
    ELSE IF c = "tp" THEN Favourable(d, b) ELSE Adverse(d, b)

(* The price a threshold of class c is tested against.                     *)
Probe(d, c, p, b) ==
    IF ~ (p.exitInBar[c] \/ p.triggerAtExtreme[c]) THEN b.close
    ELSE IF c = "tp" THEN Favourable(d, b) ELSE Adverse(d, b)

(* Variant: without the direction's sign.                                  *)
CrossedUnsigned(d, k, t, x) == IF k \in TP THEN x >= t ELSE x <= t

(* Price x has reached threshold t of kind k.                              *)
Crossed(d, k, t, x) == IF k \in TP THEN ~ Better(d, t, x) ELSE ~ Better(d, x, t)

Triggered(thr, d, p, b) ==
    {k \in Kind : /\ Number(thr[k])
                  /\ Crossed(d, k, thr[k], Fine(Probe(d, Class(k), p, b)))}

(* The least profitable of a set of prices.                                *)
Worst(d, S) == CHOOSE x \in S : \A y \in S : ~ Better(d, x, y)

-----------------------------------------------------------------------------
(* One side of the book: the action prices and the risk state of one       *)
(* direction.  thr["tsl_psar"] # None stands for the PSAR state as well.   *)

Vacant == [entry |-> None, exit |-> None, thr |-> [k \in Kind |-> None],
           anchor |-> None, hit |-> None]

Opened(x) == x.entry # None /\ x.exit = None
Closed(x) == x.entry # None /\ x.exit # None

EmptyBook == [side |-> [d \in Dir |-> Vacant], first |-> None,
              gap |-> FALSE, inBar |-> None]

HitInBar(f, d) == f.side[d].hit # None /\ f.inBar = d
HitNextBar(f, d) == f.side[d].hit # None /\ f.inBar # d

(* Variant: the action prices are cleared, the risk state is not.          *)
SweptPricesOnly(f) ==
    [f EXCEPT !.gap = FALSE,
              !.side = [d \in Dir |->
                  IF @[d].exit # None
                  THEN [@[d] EXCEPT !.entry = None, !.exit = None] ELSE @[d]]]

(* Variant: a side closed by a signal stays in the book.                   *)
SweptStopsOnly(f) ==
    [f EXCEPT !.gap = FALSE,
              !.side = [d \in Dir |->
                  IF @[d].exit # None /\ @[d].hit # None THEN Vacant ELSE @[d]]]

(* Sides that closed in the previous bar are cleared, then open sides that *)
(* were signalled out or hit in the previous row r leave at the open.      *)
Swept(f) ==
    [f EXCEPT !.gap = FALSE,
              !.side = [d \in Dir |-> IF @[d].exit # None THEN Vacant ELSE @[d]]]

StrategyExits(f, r, open) ==
    [f EXCEPT !.first = None,
              !.side = [d \in Dir |->
                  IF /\ Opened(@[d])
                     /\ r.signal.exit[d] \/ HitNextBar(f, d)
                     /\ ~ HitInBar(f, d)
                  THEN [@[d] EXCEPT !.exit = Fine(open)] ELSE @[d]]]

(* Variants: the other side is not looked at, or a reversal waits until    *)
(* both sides are cleared.                                                 *)
CanEnterOwnSide(f, d) == f.side[d].entry = None
CanEnterFlatOnly(f, d) == \A e \in Dir : f.side[e].entry = None
CanEnter(f, d) == \/ \A e \in Dir : f.side[e].entry = None
                  \/ Closed(f.side[Opp(d)])

Entered(x, d, p, r, quote, open) ==
    [x EXCEPT
        !.entry = Fine(open),
        !.thr = [k \in Kind |-> IF On(p, k) THEN EntryThreshold(d, k, p, r, quote)
                                ELSE @[k]],
        !.anchor = IF \E k \in TSL : On(p, k) THEN Anchor(d, "tsl", p, r.price)
                   ELSE @]

TryEnter(f, d, p, r, quote, open) ==
    IF ~ (CanEnter(f, d) /\ r.signal.entry[d]) THEN f
    ELSE IF \A k \in Kind : On(p, k) => Safe(d, k, EntryThreshold(d, k, p, r, quote), open)
         THEN [f EXCEPT !.side[d] = Entered(@, d, p, r, quote, open), !.first = d]
         ELSE [f EXCEPT !.gap = TRUE]

Untriggered(f) ==
    [f EXCEPT !.inBar = None,
              !.side = [d \in Dir |-> [@[d] EXCEPT !.hit = None]]]

(* Variant: not worse in place of better.                                  *)
TighterNotWorse(d, old, new) ==
    IF Number(old) /\ Number(new) /\ ~ Better(d, new, old) THEN old ELSE new

(* One-directional update of a stop.                                       *)
Tighter(d, old, new) ==
    IF old = None \/ (Number(old) /\ Number(new) /\ Better(d, new, old))
    THEN new ELSE old

Trailed(x, d, p, r, quote) ==
    LET here == Anchor(d, "tsl", p, r.price)
        moved == Better(d, here, x.anchor)
        anchor == IF moved THEN here ELSE x.anchor
        tsl == [k \in TSL |-> Tighter(d, x.thr[k], Threshold(d, k, p, anchor, r.atr))]
        due(k) == On(p, k) /\ (k = "tsl_atr" => p.tight \/ moved)
    IN  [x EXCEPT
            !.anchor = IF \E k \in TSL : On(p, k) THEN anchor ELSE @,
            !.thr = [k \in Kind |->
                IF k \in TSL THEN IF due(k) THEN tsl[k] ELSE @[k]
                ELSE IF k = "tsl_psar" /\ On(p, k) /\ @[k] # None THEN quote
                ELSE @[k]]]

(* The expect() on anchor_since_entry that the trailing update relies on.  *)
NeedsAnchor(f, d, p) == /\ Opened(f.side[d]) /\ f.first # d
                        /\ \E k \in TSL : On(p, k)
                        /\ f.side[d].anchor = None

InBarHits(x, d, p, b) == {k \in Triggered(x.thr, d, p, b) : p.exitInBar[Class(k)]}

(* A triggered in-bar stop closes the side at once at the worst of the     *)
(* triggered in-bar thresholds; any other trigger waits for the next open. *)
Judged(x, d, p, b) ==
    LET hits == Triggered(x.thr, d, p, b)
        now == InBarHits(x, d, p, b)
        price == Worst(d, {x.thr[k] : k \in IF now # {} THEN now ELSE hits})
    IN  [x EXCEPT !.hit = IF hits = {} THEN None ELSE price,
                  !.exit = IF now = {} THEN @ ELSE price]

CheckRisk(f, d, p, r, quote, b) ==
    IF ~ Opened(f.side[d]) THEN f
    ELSE LET x == IF f.first = d THEN f.side[d]
                  ELSE Trailed(f.side[d], d, p, r, quote)
         IN  [f EXCEPT !.side[d] = Judged(x, d, p, b),
                       !.inBar = IF InBarHits(x, d, p, b) = {} THEN None ELSE d]

-----------------------------------------------------------------------------
(* The frame label: the white list of FrameState::infer, by the phase of   *)
(* the two sides.                                                          *)

Phase(x) == IF Opened(x) THEN "open"
            ELSE IF Closed(x) THEN "closed"
            ELSE IF x.exit = None THEN "vacant" ELSE "orphan"

WhiteListed(f) ==
    \/ /\ \A d \in Dir : Phase(f.side[d]) = "vacant"
       /\ f.inBar = None /\ f.first = None
    \/ \E d \in Dir :
        LET mine == Phase(f.side[d])
            other == Phase(f.side[Opp(d)])
        IN  \/ /\ mine = "open" /\ other = "vacant"
               /\ f.inBar = None /\ f.first \in {None, d}
            \/ /\ mine = "closed" /\ other = "vacant"
               /\ \/ f.inBar = None /\ f.first = None
                  \/ f.inBar = d /\ f.first \in {None, d}
            \/ /\ mine = "open" /\ other = "closed"
               /\ f.inBar = None /\ f.first = d
            \/ /\ mine = "closed" /\ other = "closed"
               /\ f.inBar = d /\ f.first = d

Frames == {"ok", "gap_blocked", "capital_exhausted", "invalid"}

Infer(f) == IF f.gap THEN "gap_blocked"
            ELSE IF WhiteListed(f) THEN "ok" ELSE "invalid"

-----------------------------------------------------------------------------
VARIABLES
    row,        \* current_bar: the row processed last, prices and signals
    book,       \* action, risk_state, gap_blocked
    frame,      \* frame_state; "ok" stands for the white-listed labels
    par,        \* the parameters of the current row
    broke,      \* should_skip_current_bar(): balance or equity is used up
    panicked    \* the expect() in the trailing update has failed

vars == <<row, book, frame, par, broke, panicked>>

(* Rows 0 and 1 are written before the loop, without a position.           *)
Init == /\ row \in Rows
        /\ book = EmptyBook
        /\ frame = "ok"
        /\ par \in Params
        /\ broke = FALSE
        /\ panicked = FALSE

(* The book up to the risk check of row n, and after it.                   *)
AtOpen(f, r, n, p, quote) ==
    LET f1 == StrategyExits(Swept(f), r, n.price.open)
        f2 == TryEnter(f1, "long", p, r, quote, n.price.open)
        f3 == TryEnter(f2, "short", p, r, quote, n.price.open)
    IN  Untriggered(f3)

AtClose(f, r, n, p, quote) ==
    LET f1 == CheckRisk(f, "long", p, r, quote, n.price)
    IN  CheckRisk(f1, "short", p, r, quote, n.price)

NextParams == IF par \in Switching THEN Switching ELSE {par}

(* calculate_position on the next row n.                                   *)
Stepped(n, p, quote) ==
    LET opened == AtOpen(book, row, n, p, quote)
        done == AtClose(opened, row, n, p, quote)
    IN  /\ ~ broke /\ ~ panicked
        /\ \A d \in Dir : ~ NeedsAnchor(opened, d, p)
        /\ row' = n /\ par' = p
        /\ book' = done
        /\ frame' = Infer(done)
        /\ UNCHANGED panicked

(* The row, and the verdict of the capital calculation that follows it:    *)
(* without an entry in the book the account does not change.               *)
Bar(n, p, quote) ==
    /\ Stepped(n, p, quote)
    /\ broke' \in {FALSE} \cup {\E d \in Dir : book'.side[d].entry # None}

(* The same row, when the trailing update finds no anchor.                 *)
Panic(n, p, quote) ==
    /\ ~ broke /\ ~ panicked
    /\ LET opened == AtOpen(book, row, n, p, quote)
       IN  \E d \in Dir : NeedsAnchor(opened, d, p)
    /\ panicked' = TRUE
    /\ UNCHANGED <<row, book, frame, par, broke>>

(* Every row after the capital is used up.                                 *)
SkippedBar(n, p) ==
    /\ broke /\ ~ panicked
    /\ row' = n /\ par' = p
    /\ book' = EmptyBook
    /\ frame' = "capital_exhausted"
    /\ UNCHANGED <<broke, panicked>>

Next == \E n \in Rows, p \in NextParams :
            \/ \E quote \in Quotes : Bar(n, p, quote) \/ Panic(n, p, quote)
            \/ SkippedBar(n, p)

Spec == Init /\ [][Next]_vars

-----------------------------------------------------------------------------
(* Types.                                                                  *)

Price == Int \cup {None}
Stop == Int \cup {None, NaN}
Side == [entry : Price, exit : Price, thr : [Kind -> Stop],
         anchor : Price, hit : Price]
Book == [side : [Dir -> Side], first : Dir \cup {None}, gap : BOOLEAN,
         inBar : Dir \cup {None}]

(* The type invariant.  A stop is a number once it is set (a NaN stop      *)
(* could never trigger again), unless a schedule can switch an ATR         *)
(* trailing stop on while a position is held.                              *)
TypeOK == /\ row \in Rows
          /\ book \in Book
          /\ par \notin Switching => \A d \in Dir, k \in Kind : book.side[d].thr[k] # NaN
          /\ frame \in Frames
          /\ par \in Params
          /\ broke \in BOOLEAN /\ panicked \in BOOLEAN

(* No reachable row gets a label outside the white list of FrameState.     *)
FrameWhiteListed == frame # "invalid"

(* A long and a short position are never held at once, and a row whose     *)
(* entry the gap check refused ends without any position (the label        *)
(* gap_blocked would hide one from the white list).                        *)
SinglePosition == /\ ~ \A d \in Dir : Opened(book.side[d])
                  /\ book.gap => \A d \in Dir : ~ Opened(book.side[d])

(* A side without a position keeps nothing of an earlier one or of a       *)
(* refused entry: no threshold, no anchor, no pending hit.                 *)
VacantSideForgets ==
    \A d \in Dir : book.side[d].entry = None => book.side[d] = Vacant

(* The trailing update always finds the anchor that the entry stored, when *)
(* all rows are run with the same parameters.                              *)
NeverPanics == panicked => par \in Switching

(* The prices a stop of kind k is measured against over a whole bar.       *)
TradedPrices(k) == IF par.triggerAtExtreme[Class(k)]
                   THEN row.price.low .. row.price.high
                   ELSE {row.price.close}

Breach(d, k) ==
    LET t == book.side[d].thr[k]
    IN  /\ Number(t)
        /\ \E x \in TradedPrices(k) :
              IF (k \in TP) = (d = "long") THEN Fine(x) >= t ELSE Fine(x) <= t

Breached(d) == \E k \in Kind : Breach(d, k)

(* A stop breached by a bar that did not close the position closes it at   *)
(* the very next open, whatever the signals are; and no position survives  *)
(* a bar, its entry bar included, that breached a stop of an in-bar kind.  *)
BreachLeaves ==
    [][\A d \in Dir :
        /\ Opened(book.side[d]) /\ Breached(d) /\ ~ broke /\ ~ panicked'
            => book'.side[d].exit = Fine(row'.price.open)
        /\ Opened(book'.side[d]) =>
            \A k \in SL \cup TP : par'.exitInBar[Class(k)] => ~ Breach(d, k)']_vars

(* A position is closed only by an exit signal of the previous bar, a stop *)
(* breached in the previous bar, or one breached in this bar.              *)
LeavesForCause ==
    [][\A d \in Dir :
        Opened(book.side[d]) /\ Closed(book'.side[d])
            => \/ row.signal.exit[d] \/ Breached(d)
               \/ book'.inBar = d /\ Breached(d)']_vars

(* While a position is held its SL and TP stay what they were at the entry *)
(* and its trailing stops and their anchor move towards profit only; one   *)
(* that is a number never turns into none, whatever the ATR is.            *)
StopsOnlyTighten ==
    [][\A d \in Dir :
        Opened(book.side[d]) /\ book'.side[d].entry # None =>
            LET old == book.side[d]
                new == book'.side[d]
            IN  /\ \A k \in SL \cup TP : new.thr[k] = old.thr[k]
                /\ \A k \in TSL : \/ new.thr[k] = old.thr[k]
                                  \/ old.thr[k] = None
                                  \/ /\ Number(old.thr[k]) /\ Number(new.thr[k])
                                     /\ Better(d, new.thr[k], old.thr[k])
                /\ \/ new.anchor = old.anchor
                   \/ Better(d, new.anchor, old.anchor)]_vars

(* An in-bar exit on the entry bar fills at a price the bar really traded: *)
(* the gap check keeps every stop on the far side of the open.             *)
EntryBarFillTraded ==
    \A d \in Dir : book.first = d /\ Closed(book.side[d]) =>
        /\ Fine(row.price.low) <= book.side[d].exit
        /\ book.side[d].exit <= Fine(row.price.high)

(* Side d is signalled in, and at the next open nothing will be held that  *)
(* stands in its way.                                                      *)
Wanted(d) == /\ row.signal.entry[d]
             /\ ~ Opened(book.side[d])
             /\ Opened(book.side[Opp(d)]) =>
                    row.signal.exit[Opp(d)] \/ Breached(Opp(d))

(* Every wanted entry, reversals included, is either made at the next open *)
(* or reported as gap-blocked, and nothing else is ever entered.           *)
EntriesFollowSignals ==
    [][~ broke /\ ~ panicked' =>
        /\ \A d \in Dir : Wanted(d) => book'.first = d \/ book'.gap
        /\ \A d \in Dir : book'.first = d => Wanted(d)
        /\ book'.gap => book'.first = None /\ \E d \in Dir : Wanted(d)]_vars
=============================================================================
