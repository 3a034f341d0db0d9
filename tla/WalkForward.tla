---------------------------- MODULE WalkForward ----------------------------
(***************************************************************************)
(* Walk forward: each window is evaluated with its own parameters, hands    *)
(* the position it would still hold to the next window as a signal, and is  *)
(* closed before its last row; then the signals of all test parts are       *)
(* joined and replayed in one run, each row under the parameters of its     *)
(* window.                                                                  *)
(*                                                                          *)
(* Rows are counted on the joined axis: the test part of window k is the    *)
(* rows plan[k].start to plan[k].end - 1, its pack begins Warmup rows       *)
(* before.  A run of the kernel is reduced to the position it holds: what   *)
(* prices and stops do to a position entered on a row is given by "market". *)
(* It depends on the entry, the window's parameters and, with a stop by     *)
(* ATR, on the ATR series.  A window takes its series over its own pack,    *)
(* the replay takes another one over the joined rows; both start with a     *)
(* mean, so that they differ.  The account is never used up.                *)
(***************************************************************************)
EXTENDS ScheduleContract

CONSTANTS
  Plans,    \* the test parts WindowPlan may lay out
  Warmup,   \* warm-up bars of a test pack
  Raws,     \* what the strategy may signal on a row
  Markets,  \* what the market may do to positions (see Event), in the runs
            \* of the windows and in the joined replay
  None      \* no position

Dir == {"long", "short"}
Opp(d) == IF d = "long" THEN "short" ELSE "long"
Signals == [entry : [Dir -> BOOLEAN], exit : [Dir -> BOOLEAN]]

\* On row "row" the entry in "side" on row "entry" is refused by the gap
\* check, or the position it opened is stopped out in the bar, or is due to
\* leave at the next open.
Event == [side : Dir, entry : Int, row : Int, what : {"refused", "in_bar", "due"}]

\* What WindowPlan guarantees of its test parts (OneSchedule, RowsUsed).
Laid(p) == /\ p \in Seq([start : Nat, end : Nat])
           /\ p # <<>> /\ Contiguous(p, p[Len(p)].end)
           /\ \A i \in 1..Len(p) : p[i].end - p[i].start >= 3

ASSUME PlansAssumption == \A p \in Plans : Laid(p)
ASSUME WarmupAssumption == Warmup \in Nat \ {0}
ASSUME RawsAssumption == Raws \subseteq Signals
ASSUME MarketsAssumption == \A m \in Markets : m.windows \cup m.joined \subseteq Event
ASSUME NoneAssumption == None \notin Dir \cup Int

VARIABLES
  plan,    \* the test parts
  market,  \* what happens to positions
  atr,     \* the windows whose parameters have a stop by ATR
  own,     \* the windows executed so far, with their own results
  carry,   \* prev_test_last_position
  stage,   \* where the call is
  row,     \* the row the replay has reached
  seg,     \* the window whose parameters that row has
  pos      \* the replay's position on that row

vars == <<plan, market, atr, own, carry, stage, row, seg, pos>>
-----------------------------------------------------------------------------
\* The kernel, one row

Idle == [open |-> None, since |-> None, out |-> {}, due |-> FALSE]

\* What the market m of the run does.
Does(m, what, d, e, r) == [side |-> d, entry |-> e, row |-> r, what |-> what] \in m

\* Signals that contradict one another do not enter.
Asked(s, d) == s.entry[d] /\ ~s.entry[Opp(d)] /\ ~s.exit[d]

Leaves(x, s) == x.open # None /\ (x.due \/ s.exit[x.open])

Enters(m, x, s, d, r) ==
  /\ Asked(s, d)
  /\ x.open = None \/ (x.open = Opp(d) /\ Leaves(x, s))
  /\ ~Does(m, "refused", d, r, r)

\* The position d, entered on row e, at the close of row r.
Held(m, d, e, r, out) ==
  IF Does(m, "in_bar", d, e, r)
  THEN [Idle EXCEPT !.out = out \cup {d}]
  ELSE [open |-> d, since |-> e, out |-> out, due |-> Does(m, "due", d, e, r)]

\* Row r, after a row that ended with x and was signalled s.
Advanced(m, x, s, r) ==
  LET out == IF Leaves(x, s) THEN {x.open} ELSE {}
      entered == {d \in Dir : Enters(m, x, s, d, r)}
  IN  IF entered # {} THEN Held(m, CHOOSE d \in entered : TRUE, r, r, out)
      ELSE IF x.open # None /\ out = {} THEN Held(m, x.open, x.since, r, out)
      ELSE [Idle EXCEPT !.out = out]

\* A run over the rows a to b signalled by f; its first two rows are not
\* processed.
Run(m, f, a, b) ==
  LET x[r \in a..b] == IF r < a + 2 THEN Idle ELSE Advanced(m, x[r - 1], f[r - 1], r)
  IN  x
-----------------------------------------------------------------------------
\* The signals of a window

First(k) == plan[k].start
Last(k) == plan[k].end - 1
PackFirst(k) == First(k) - Warmup

\* The variant forgets a side.
FlatLong == [entry |-> [d \in Dir |-> FALSE], exit |-> [d \in Dir |-> d = "long"]]
Flat == [entry |-> [d \in Dir |-> FALSE], exit |-> [d \in Dir |-> TRUE]]
Enter(side) == [entry |-> [d \in Dir |-> d = side], exit |-> [d \in Dir |-> FALSE]]

\* The warm-up never enters.
WarmRaws == {[s EXCEPT !.entry = [d \in Dir |-> FALSE]] : s \in Raws}

\* The signals of the first evaluation: the warm-up, then the test part.
Evaluated(warm, raw, k) ==
  [r \in PackFirst(k)..Last(k) |-> IF r < First(k) THEN warm[r] ELSE raw[r]]

\* The variant sets the carried entry and leaves the exits as they are.
CarryOnlyEntry(f, k, side) ==
  IF side = None THEN f ELSE [f EXCEPT ![First(k)].entry = Enter(side).entry]
CarryOnly(f, k, side) ==
  IF side = None THEN f ELSE [f EXCEPT ![First(k)] = Enter(side)]

\* The last row but one leaves on both sides, so that the last row is flat.
Final(f, k) == [f EXCEPT ![Last(k) - 1] = Flat]

\* extract_active.
Active(f, k) == [r \in First(k)..Last(k) |-> f[r]]

\* The position handed on is the natural run's, not the published one's.
Carried(natural, final, k) == natural[Last(k)].open

\* What execute_window returns: "tail" is the row that the forced exit
\* replaces.
Executed(signals, k) ==
  LET carried == CarryOnly(signals, k, carry)
      final == Final(carried, k)
      natural == Run(market.windows, carried, PackFirst(k), Last(k))
      result == Run(market.windows, final, PackFirst(k), Last(k))
  IN  [signals |-> Active(final, k), rows |-> Active(result, k),
       tail |-> carried[Last(k) - 1], inherited |-> carry,
       leaves |-> Carried(natural, result, k)]
-----------------------------------------------------------------------------
\* What one market does and the other does not.
Unlike == (market.windows \ market.joined) \cup (market.joined \ market.windows)

\* The replay has an ATR of its own, where a window's parameters ask for one.
OnlyAtrDiffers ==
  \A x \in Unlike, k \in 1..Len(plan) : x.entry \in First(k)..Last(k) => k \in atr

Init ==
  /\ plan \in Plans
  /\ market \in Markets
  /\ atr \in SUBSET (1..Len(plan)) /\ OnlyAtrDiffers
  /\ own = <<>> /\ carry = None
  /\ stage = "windows"
  /\ row = 0 /\ seg = 1 /\ pos = Idle

Execute ==
  /\ stage = "windows" /\ Len(own) < Len(plan)
  /\ LET k == Len(own) + 1
     IN  \E warm \in [PackFirst(k)..First(k) - 1 -> WarmRaws], raw \in [First(k)..Last(k) -> Raws] :
           LET w == Executed(Evaluated(warm, raw, k), k)
           IN  own' = Append(own, w) /\ carry' = w.leaves
  /\ UNCHANGED <<plan, market, atr, stage, row, seg, pos>>

\* Any error, of a window or while the results are joined, ends the call.
Fail ==
  /\ stage = "windows"
  /\ stage' = "failed"
  /\ UNCHANGED <<plan, market, atr, own, carry, row, seg, pos>>

Stitch ==
  /\ stage = "windows" /\ Len(own) = Len(plan)
  /\ stage' = "replay"
  /\ row' = 1 /\ pos' = Idle
  /\ UNCHANGED <<plan, market, atr, own, carry, seg>>

\* The signals of row r of window k in the replay; the variant reads them
\* before the window is closed.
OpenSignals(k, r) == IF r = Last(k) - 1 THEN own[k].tail ELSE own[k].signals[r]
StitchedSignals(k, r) == own[k].signals[r]

Replay ==
  /\ stage = "replay"
  /\ row < Last(seg) \/ seg < Len(plan)
  /\ row' = row + 1
  /\ seg' = IF row < Last(seg) THEN seg ELSE seg + 1
  /\ pos' = Advanced(market.joined, pos, StitchedSignals(seg, row), row + 1)
  /\ UNCHANGED <<plan, market, atr, own, carry, stage>>

Next == Execute \/ Fail \/ Stitch \/ Replay

Spec == Init /\ [][Next]_vars
-----------------------------------------------------------------------------
\* Properties

\* In the replay a position is only ever held under the parameters it was
\* entered with, and the last row of every window ends flat.
KeepsParams == pos.open # None => First(seg) <= pos.since /\ row < Last(seg)

\* A position that only the end of its window closes is handed on, and one is
\* handed on only if it was held or signalled in when the window was closed.
\* The window that inherits it enters it on its second row, unless the gap
\* check refuses; nothing the strategy signalled there is in its way.
HandedOn(w, k) ==
  LET x == w.rows[Last(k) - 1]
  IN  /\ x.open # None /\ ~Leaves(x, w.tail) /\ ~Does(market.windows, "in_bar", x.open, x.since, Last(k))
           => w.leaves = x.open
      /\ w.leaves # None => x.open = w.leaves \/ Asked(w.tail, w.leaves)
Entered(w, second) ==
  LET d == w.inherited
      x == w.rows[second]
  IN  d # None => \/ x.open = d /\ x.since = second
                  \/ d \in x.out
                  \/ Does(market.windows, "refused", d, second, second)
CarryEnters ==
  \A k \in 1..Len(own) :
    /\ HandedOn(own[k], k) /\ Entered(own[k], First(k) + 1)
    /\ k > 1 => own[k].inherited = own[k - 1].leaves

\* The strategy signals an entry that no row of the windows' own results
\* executes, but that the row of the replay after it does; and the first entry
\* of the first window, which the replay does not process.
Stray(k) == IF k = 1 THEN \E d \in Dir : Asked(own[1].signals[0], d)
            ELSE \E d \in Dir : Asked(own[k - 1].signals[Last(k - 1)], d)

\* The replay's ATR has moved a price that mattered: it refused, stopped or
\* spared an entry the window was signalled, up to this row.
Differs(k, r) ==
  \E x \in Unlike : /\ x.entry \in First(k) + 1..r /\ x.row \in x.entry..r
                   /\ Asked(own[k].signals[x.entry - 1], x.side)

\* The replay repeats, row by row, what the windows published.  In a window
\* with a stop by ATR it may leave the window's course, but not before the two
\* ATRs disagree about a signalled entry, nor beyond the window.
Replayed ==
  stage = "replay" /\ ~Stray(seg) =>
    pos = own[seg].rows[row] \/ (seg \in atr /\ Differs(seg, row))
=============================================================================
