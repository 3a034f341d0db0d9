--------------------------- MODULE SignalGenerator ---------------------------
(***************************************************************************)
(* The signals of a strategy: a template has a group of comparisons for    *)
(* entering and leaving each side, evaluated one after the other; then the *)
(* entries are silenced in the warm-up (signal_generator/mod.rs).          *)
(*                                                                         *)
(* A group is listed with the groups nested in it, the innermost first: a  *)
(* sequence of [logic, comparisons, subs], where subs are the places of    *)
(* the groups it joins.  The last one is the group itself.                 *)
(***************************************************************************)
EXTENDS SignalCondition

CONSTANTS
  Calls,   \* what generate_signals may be called with
  Absent   \* a field of the template that has no group

(* A comparison as parse_condition returns it: its left operand is data.   *)
Value == Int \cup {NaN}
WellFormed(x) ==
  /\ x.kind = "data" =>
       /\ x.offset.at \in Seq(Nat)
       /\ Len(x.offset.at) >= IF x.offset.form = "range" THEN 2 ELSE 1
  /\ x.kind = "scalar" => x.value \in Value
IsComparison(c) ==
  /\ DOMAIN c = {"left", "op", "right", "end", "negated"} /\ c.negated \in BOOLEAN
  /\ c.left.kind = "data" /\ c.right.kind \in {"data", "param", "scalar"}
  /\ c.end.kind \in {"data", "param", "scalar", "none"}
  /\ \A x \in {c.left, c.right, c.end} : WellFormed(x)

WellNested(g) ==
  /\ Len(g) \in Nat \ {0} /\ DOMAIN g = 1..Len(g)
  /\ \A n \in DOMAIN g :
       /\ g[n].logic \in {"AND", "OR"} /\ g[n].subs \subseteq 1..n - 1
       /\ Len(g[n].comparisons) \in Nat
       /\ DOMAIN g[n].comparisons = 1..Len(g[n].comparisons)
       /\ \A j \in DOMAIN g[n].comparisons : IsComparison(g[n].comparisons[j])

(* A column has a value for each bar of its source.                        *)
HasColumns(columns_, pack) ==
  /\ DOMAIN columns_ \subseteq Sources
  /\ \A k \in DOMAIN columns_ : \A name \in DOMAIN columns_[k] :
       columns_[k][name] \in [1..Cardinality(pack.bars[k]) -> Value]

Fields == <<"entry_long", "exit_long", "entry_short", "exit_short">>
Entries == {"entry_long", "entry_short"}

ASSUME SignalsAssumption ==
  \A in \in Calls :
    /\ DOMAIN in = {"pack", "source", "indicators", "params", "template"}
    /\ in.pack \in Pack /\ \A k \in Sources : IsFiniteSet(in.pack.bars[k])
    /\ Buildable(in.pack)
    /\ HasColumns(in.source, in.pack) /\ HasColumns(in.indicators, in.pack)
    /\ \A name \in DOMAIN in.params : in.params[name] \in Value
    /\ \A n \in DOMAIN Fields :
         in.template[Fields[n]] # Absent => WellNested(in.template[Fields[n]])

VARIABLES
  call,     \* the call
  done,     \* how many fields have been evaluated
  columns,  \* per field: the rows it fires in
  masked,   \* the rows some comparison was masked in, has_leading_nan
  outcome   \* "running", "error" or "done"

signalVars == <<call, done, columns, masked, outcome>>
-----------------------------------------------------------------------------
(* A group joins its comparisons and its groups; one with neither never    *)
(* fires.  Any error in it is an error of the whole.                       *)
GroupOK(in, g) ==
  \A n \in DOMAIN g : \A j \in DOMAIN g[n].comparisons : Evaluable(in, g[n].comparisons[j])

Combined(logic, rows, parts) ==
  [i \in rows |->
     [fires |-> /\ parts # {}
                /\ \/ logic = "AND" /\ \A part \in parts : part[i].fires
                   \/ logic = "OR" /\ \E part \in parts : part[i].fires,
      masked |-> \E part \in parts : part[i].masked]]

Group(in, g) ==
  LET value[n \in 1..Len(g)] ==
        Combined(g[n].logic, BaseRows(in),
                 {Condition(in, g[n].comparisons[j]) : j \in DOMAIN g[n].comparisons}
                   \cup {value[m] : m \in g[n].subs})
  IN  value[Len(g)]

Firing(rows) == {i \in DOMAIN rows : rows[i].fires}
Silent(rows) == {i \in DOMAIN rows : rows[i].masked}
-----------------------------------------------------------------------------
SignalInit ==
  /\ call \in Calls
  /\ done = 0
  /\ columns = [f \in {Fields[n] : n \in DOMAIN Fields} |-> {}]
  /\ masked = {}
  /\ outcome = IF BaseRows(call) = {} THEN "error" ELSE "running"

Field == Fields[done + 1]
GroupOf(in, f) == in.template[f]
Running == outcome = "running" /\ done < Len(Fields)

(* The next field of the template.                                         *)
Generate ==
  /\ Running /\ GroupOf(call, Field) # Absent /\ GroupOK(call, GroupOf(call, Field))
  /\ LET rows == Group(call, GroupOf(call, Field))
     IN  /\ columns' = [columns EXCEPT ![Field] = @ \cup Firing(rows)]
         /\ masked' = masked \cup Silent(rows)
  /\ done' = done + 1
  /\ UNCHANGED <<call, outcome>>

Skip ==
  /\ Running /\ GroupOf(call, Field) = Absent
  /\ done' = done + 1
  /\ UNCHANGED <<call, columns, masked, outcome>>

Refuse ==
  /\ Running /\ GroupOf(call, Field) # Absent /\ ~ GroupOK(call, GroupOf(call, Field))
  /\ outcome' = "error"
  /\ UNCHANGED <<call, done, columns, masked>>

(* No entries in the warm-up; exits there stay.                            *)
Silence(rows) == {i \in rows : i > call.pack.warmup[Base]}
Suppress ==
  /\ outcome = "running" /\ done = Len(Fields)
  /\ columns' = [f \in DOMAIN columns |-> IF f \in Entries THEN Silence(columns[f])
                                          ELSE columns[f]]
  /\ outcome' = "done"
  /\ UNCHANGED <<call, done, masked>>

SignalNext == Generate \/ Skip \/ Refuse \/ Suppress

SignalSpec == SignalInit /\ [][SignalNext]_signalVars
-----------------------------------------------------------------------------
(* The signals handed out; the properties are about their comparisons.     *)
Returned == {f \in DOMAIN columns : outcome = "done" /\ GroupOf(call, f) # Absent}
Warm(f) == IF f \in Entries THEN 1..call.pack.warmup[Base] ELSE {}
Single(f) == Len(GroupOf(call, f)) = 1 /\ Len(GroupOf(call, f)[1].comparisons) = 1
Only(f) == GroupOf(call, f)[1].comparisons[1]

(* perform_range_comparison keeps a flag from row to row.  What a row of   *)
(* x> or x< means without one: the value crossed into the zone from below, *)
(* or above, in this row or an earlier one, and in every row since it was  *)
(* known and inside.                                                       *)
Entered(op, l, r, e, i) ==
  \E j \in 2..i :
    /\ ~ Blank(l, r, e, j - 1)
    /\ IF op = "x>" THEN \A v \in {r, e} : l[j - 1] < v[j - 1]
                    ELSE \A v \in {r, e} : l[j - 1] > v[j - 1]
    /\ \A m \in j..i : ~ Blank(l, r, e, m) /\ Inside(l, r, e, m)

ZoneWasEntered ==
  \A f \in Returned :
    Single(f) /\ Zoned(Only(f)) /\ Only(f).op \in {"x>", "x<"} /\ ~ Only(f).negated
      => LET c == Only(f)
             n == Longest(call, c)
         IN  n = 1 => \A i \in BaseRows(call) \ Warm(f) :
                        i \in columns[f] <=>
                          Entered(c.op, Pick(call, c.left, 1), Pick(call, c.right, 1),
                                  Pick(call, c.end, 1), i)

(* What a comparison needs is there wherever it fires, and where all of it *)
(* is there, it or its negation fires: the mask is applied after negation. *)
(* A crossing needs the row before, too.                                   *)
Needs(c, i) == IF c.op \in Crossing THEN {i - 1, i} ELSE {i}
Known(c, i) == \A j \in DOMAIN Operands(c) : \A n \in DOMAIN Series(call, Operands(c)[j]) :
                 \A m \in Needs(c, i) : ~ Missing(Series(call, Operands(c)[j])[n], m)
Negation(c) == [c EXCEPT !.negated = ~ @]

FiresOnKnown ==
  \A f \in Returned : Single(f) =>
    \A i \in BaseRows(call) :
      /\ i \in columns[f] => Known(Only(f), i)
      /\ Known(Only(f), i) =>
           (Condition(call, Only(f))[i].fires # Condition(call, Negation(Only(f)))[i].fires)

(* No signal looks ahead.  A row is acted on when its base bar is over; a  *)
(* bar of another source that is not over by then may still change, and    *)
(* the row comes out the same whatever it changes to.  One case is left    *)
(* out: a coarser source of which each base row happens to see the next    *)
(* bar is read in place, without the bar's delay.                          *)
TimeOf(k, row) == CHOOSE t \in call.pack.bars[k] : Row(call.pack.bars[k], t) = row - 1
Over(k, row, i) == TimeOf(k, row) + Interval[k] <= TimeOf(Base, i) + Interval[Base]

Scrambled(columns_, i) ==
  [k \in DOMAIN columns_ |->
     [name \in DOMAIN columns_[k] |->
        [row \in DOMAIN columns_[k][name] |->
           IF Over(k, row, i) THEN columns_[k][name][row] ELSE NaN]]]
Unseen(i) == [call EXCEPT !.source = Scrambled(@, i), !.indicators = Scrambled(@, i)]

InPlace == \E k \in Others : Natural(call, k) /\ Interval[k] > Interval[Base]

ClosedBarsOnly ==
  \A f \in Returned : ~ InPlace =>
    \A i \in BaseRows(call) :
      Group(call, GroupOf(call, f))[i] = Group(Unseen(i), GroupOf(call, f))[i]
=============================================================================
