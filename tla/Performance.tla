----------------------------- MODULE Performance -----------------------------
(***************************************************************************)
(* What performance_analyzer counts in a backtest: the trades, the times a *)
(* position was held and the times between, the longest drawdown.          *)
(*                                                                         *)
(* A row of a backtest is [held, down, pnl]: whether an entry price is     *)
(* set, whether the equity is below its peak, what a trade closed in the   *)
(* row paid, as a number, 0 where no trade closed, or NaN.                 *)
(***************************************************************************)
EXTENDS Integers, Sequences, FiniteSets

CONSTANTS
  NaN,   \* a number that is none
  Idle   \* the risk metric of a backtest without a trade, -100

ASSUME MetricAssumption == Idle \in Int /\ NaN \notin Int

Metric == Int \cup {NaN}

AtLeastNone(n) == IF n < 0 THEN 0 ELSE n

(* The time a row lasts: until the next row; the last row, as long as the  *)
(* median of the others that last at all.                                  *)
Median(values) ==
  LET below(i) == {j \in DOMAIN values :
                     values[j] < values[i] \/ (values[j] = values[i] /\ j < i)}
  IN  values[CHOOSE i \in DOMAIN values : Cardinality(below(i)) = Len(values) \div 2]

Lasts(times) ==
  LET n == Len(times)
      delta == [i \in 1..n - 1 |-> AtLeastNone(times[i + 1] - times[i])]
      lasting == SelectSeq(delta, LAMBDA d : d > 0)
  IN  IF n < 2 THEN [i \in 1..n |-> 0]
      ELSE Append(delta, IF lasting = <<>> THEN 0 ELSE Median(lasting))
-----------------------------------------------------------------------------
(* The scan over the rows.  A span is [bars, ms].  Nothing is counted as   *)
(* time between positions before the first one.                            *)
NoSpan == [bars |-> 0, ms |-> 0]
Longer(span, ms) == [bars |-> span.bars + 1, ms |-> span.ms + ms]
Kept(spans, span) == IF span.bars > 0 THEN Append(spans, span) ELSE spans

Start == [held |-> NoSpan, empty |-> NoSpan, in |-> FALSE, traded |-> FALSE,
          holdings |-> <<>>, empties |-> <<>>]

HeldRow(s, ms) ==
  [s EXCEPT !.traded = TRUE, !.in = TRUE,
            !.empties = IF s.in THEN @ ELSE Kept(@, s.empty),
            !.empty = IF s.in THEN @ ELSE NoSpan,
            !.held = Longer(@, ms)]

(* The variant does not start over when a position is left.                *)
EmptyRowRunsOn(s, ms) ==
  [s EXCEPT !.in = FALSE,
            !.holdings = IF s.in THEN Kept(@, s.held) ELSE @,
            !.empty = IF s.traded THEN Longer(@, ms) ELSE @]
EmptyRow(s, ms) ==
  [s EXCEPT !.in = FALSE,
            !.holdings = IF s.in THEN Kept(@, s.held) ELSE @,
            !.held = IF s.in THEN NoSpan ELSE @,
            !.empty = IF s.traded THEN Longer(@, ms) ELSE @]

Spans(rows, times) ==
  LET ms == Lasts(times)
      scan[i \in 0..Len(rows)] ==
        IF i = 0 THEN Start
        ELSE IF rows[i].held THEN HeldRow(scan[i - 1], ms[i]) ELSE EmptyRow(scan[i - 1], ms[i])
      last == scan[Len(rows)]
  IN  [holdings |-> Kept(last.holdings, last.held), empties |-> Kept(last.empties, last.empty)]

DrawdownBars(rows) ==
  LET run[i \in 0..Len(rows)] ==
        IF i > 0 /\ rows[i].down THEN run[i - 1] + 1 ELSE 0
  IN  CHOOSE n \in {run[i] : i \in DOMAIN run} : \A i \in DOMAIN run : run[i] <= n

(* A trade that paid nothing, or no number, is not one.                    *)
Trades(rows) ==
  LET closed == {i \in DOMAIN rows : rows[i].pnl \notin {0, NaN}}
  IN  [total |-> Cardinality(closed), wins |-> Cardinality({i \in closed : rows[i].pnl > 0})]

(* The rows behind the warm-up; fewer than two of them have no statistics. *)
ActiveRows(pack, rows) == SubSeq(rows, pack.warmup + 1, Len(rows))

Analyzed(pack, backtest) ==
  LET rows == ActiveRows(pack, backtest.rows)
      times == ActiveRows(pack, pack.times)
  IN  IF Len(rows) < 2 THEN [counted |-> FALSE]
      ELSE [counted |-> TRUE, trades |-> Trades(rows), spans |-> Spans(rows, times),
            drawdown |-> DrawdownBars(rows),
            score |-> IF Trades(rows).total = 0 THEN Idle ELSE backtest.score]
=============================================================================
