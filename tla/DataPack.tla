------------------------------ MODULE DataPack ------------------------------
(***************************************************************************)
(* The data a backtest runs on (data_ops): one series of bars per source,  *)
(* how the rows of the base see the bars of the other sources, and the     *)
(* smaller packs cut out of a pack.                                        *)
(*                                                                         *)
(* The times of a series strictly increase (extract_time_values), so a     *)
(* series is the set of the times its bars open at; the row of a bar is    *)
(* the number of bars before it.  Of a range only the warm-up is kept: the *)
(* other two numbers are checked to follow from it (validate_ranges).      *)
(* What is cut in step with the base rows (skip mask, signals, backtest)   *)
(* is left out.                                                            *)
(***************************************************************************)
EXTENDS Projection

CONSTANTS
  Base,     \* the source whose rows the backtest runs over
  Order,    \* the other sources, in the order of their keys
  Interval  \* the time between two bars, of each source

Others == {Order[i] : i \in 1..Len(Order)}
Sources == {Base} \cup Others

ASSUME IntervalAssumption ==
  /\ Order \in Seq(Others) /\ Base \notin Others
  /\ \A i, j \in 1..Len(Order) : i # j => Order[i] # Order[j]
  /\ Interval \in [Sources -> Nat \ {0}]

Pack == [bars : [Sources -> SUBSET Int], warmup : [Sources -> Nat]]

Earliest(bars) == CHOOSE t \in bars : \A u \in bars : t <= u
Latest(bars) == CHOOSE t \in bars : \A u \in bars : u <= t
Row(bars, time) == Cardinality({t \in bars : t < time})
Rows(bars, from, to) == {t \in bars : Row(bars, t) \in from..to - 1}
BarAt(bars, row) == CHOOSE t \in bars : Row(bars, t) = row

\* The row a moment sees: the last bar that has opened by then.
RowAt(bars, time) ==
  IF \E t \in bars : t <= time THEN Cardinality({t \in bars : t <= time}) - 1 ELSE None

\* The other source has a bar for the first base row, and its last bar has not
\* ended before the last base row opens.
Covers(bars, first, last, interval) ==
  /\ bars # {}
  /\ Earliest(bars) <= first
  /\ Latest(bars) + interval > last

Spaced(bars, interval) == \A t, u \in bars : t < u => u - t >= interval

\* build_data_pack: what it refuses.
Buildable(p) ==
  /\ Cardinality(p.bars[Base]) >= 2
  /\ \A k \in Sources :
       /\ Spaced(p.bars[k], Interval[k])
       /\ Interval[k] >= Interval[Base]
       /\ p.warmup[k] <= Cardinality(p.bars[k])
  /\ \A k \in Others :
       Covers(p.bars[k], Earliest(p.bars[Base]), Latest(p.bars[Base]), Interval[k])

Mapping(p, k) ==
  [i \in 1..Cardinality(p.bars[Base]) |-> RowAt(p.bars[k], BarAt(p.bars[Base], i - 1))]
-----------------------------------------------------------------------------
\* Cutting

\* A slice keeps the warm-up the pack has, counted from its own first row, and
\* at least one row is active.
Window(p, start, len) ==
  [pack |-> <<start, start + len>>,
   active |-> <<start + Smaller(p.warmup[Base], len - 1), start + len>>]

\* Each source's rows: those of the base are the window itself.
Cut(p, start, len, k) ==
  LET w == Window(p, start, len)
  IN  IF k = Base
      THEN [start |-> start, end |-> start + len, warmup |-> w.active[1] - start]
      ELSE Projected([mapping |-> Mapping(p, k)], w, p.warmup[k])

Cuttable(p, start, len) ==
  /\ len > 0 /\ start + len <= Cardinality(p.bars[Base])
  /\ \A k \in Others :
       Projects([mapping |-> Mapping(p, k)], Window(p, start, len), p.warmup[k])

Slice(p, start, len) ==
  [bars |-> [k \in Sources |-> Rows(p.bars[k], Cut(p, start, len, k).start,
                                              Cut(p, start, len, k).end)],
   warmup |-> [k \in Sources |-> Cut(p, start, len, k).warmup]]

\* extract_active: what is left without the warm-ups.
Active(p) ==
  [bars |-> [k \in Sources |-> Rows(p.bars[k], p.warmup[k], Cardinality(p.bars[k]))],
   warmup |-> [k \in Sources |-> 0]]
=============================================================================
