--------------------------- MODULE SignalCondition ---------------------------
(***************************************************************************)
(* One comparison of a signal template, row by row (signal_generator): how *)
(* its operands are read from the pack, what the operators mean when a     *)
(* value is missing, and how several offsets are joined.                   *)
(*                                                                         *)
(* in is the input: its pack, the columns of each source and of its        *)
(* indicators, and the parameters.  A row is a row of the base, from 1.  A *)
(* value is a number or NaN, which stands for null too.  An operand is     *)
(* [kind, name, source, offset, value] with the fields its kind has; the   *)
(* text of a comparison is taken as parsed, but for its offsets.           *)
(***************************************************************************)
EXTENDS DataPack

CONSTANT NaN  \* a value that is missing

ASSUME NaNAssumption == NaN \notin Int

BaseRows(in) == 1..Cardinality(in.pack.bars[Base])
-----------------------------------------------------------------------------
(* Parsing                                                                 *)

(* A list of one offset is a single offset, whatever its sign; a range of  *)
(* one is not.                                                             *)
Offset(written) ==
  LET at == written.at
  IN  CASE written.form = "range" ->
             [join |-> written.join, at |-> [i \in 1..at[2] - at[1] + 1 |-> at[1] + i - 1]]
        [] written.form = "list" /\ Len(at) > 1 -> [join |-> written.join, at |-> at]
        [] OTHER -> [join |-> "single", at |-> at]

Crossing == {"x>", "x<", "x>=", "x<=", "x==", "x!=", "xin"}
Zoned(c) == c.end.kind # "none"

(* parse_condition: which operators go with a zone.                        *)
Parses(c) ==
  /\ Zoned(c) => /\ c.op \in {"x>", "x<", "in", "xin"}
                 /\ Offset(c.left.offset).join = "single"
  /\ c.op \in {"in", "xin"} => Zoned(c)

SourceOf(x) == IF x.source = "" THEN Base ELSE x.source

(* A crossing looks at two rows of the base, so it reads the base only.    *)
CrossesBase(c) ==
  c.op \in Crossing =>
    \A x \in {c.left, c.right, c.end} : x.kind = "data" => SourceOf(x) = Base
-----------------------------------------------------------------------------
(* Operands                                                                *)

(* A source whose rows match the base's one to one is read in place; any   *)
(* other is read one bar further back, since its current bar is not over.  *)
InStep(seen) == \A i \in DOMAIN seen : seen[i] = i - 1
Natural(in, k) == InStep(Mapping(in.pack, k))

SameBar(in, k, offset) == offset
Lag(in, k, offset) == IF Natural(in, k) THEN offset ELSE offset + 1

Has(columns, k, name) == k \in DOMAIN columns /\ name \in DOMAIN columns[k]

(* The column of the source, or else of its indicators.                    *)
Column(in, k, name) ==
  IF Has(in.source, k, name) THEN in.source[k][name] ELSE in.indicators[k][name]

Shifted(column, seen, lag) ==
  [i \in DOMAIN seen |-> IF seen[i] >= lag THEN column[seen[i] - lag + 1] ELSE NaN]
Read(in, k, name, offset) ==
  Shifted(Column(in, k, name), Mapping(in.pack, k), Lag(in, k, offset))

(* The series of an operand, one for each of its offsets.                  *)
Constant(in, v) == [i \in BaseRows(in) |-> v]
Series(in, x) ==
  CASE x.kind = "data" ->
         [j \in DOMAIN Offset(x.offset).at |->
            Read(in, SourceOf(x), x.name, Offset(x.offset).at[j])]
    [] x.kind = "param" -> <<Constant(in, in.params[x.name])>>
    [] OTHER -> <<Constant(in, x.value)>>

Resolves(in, x) ==
  CASE x.kind = "data" ->
         /\ SourceOf(x) \in DOMAIN in.source
         /\ Has(in.source, SourceOf(x), x.name) \/ Has(in.indicators, SourceOf(x), x.name)
    [] x.kind = "param" -> x.name \in DOMAIN in.params
    [] OTHER -> TRUE
-----------------------------------------------------------------------------
(* Comparisons.  Each gives for a row whether it fires, and whether it is  *)
(* masked: a value it needs is missing.                                    *)

Related(op, a, b) ==
  CASE op \in {">", "x>"} -> a > b   [] op \in {"<", "x<"} -> a < b
    [] op \in {">=", "x>="} -> a >= b [] op \in {"<=", "x<="} -> a <= b
    [] op \in {"==", "x=="} -> a = b  [] op \in {"!=", "x!="} -> a # b

Missing(series, i) == i \notin DOMAIN series \/ series[i] = NaN

Simple(op, l, r) ==
  [i \in DOMAIN l |->
     LET masked == Missing(l, i) \/ Missing(r, i)
     IN  [fires |-> ~ masked /\ Related(op, l[i], r[i]), masked |-> masked]]

(* It holds, and did not hold in the row before, where it could be told.   *)
Rises(simple) ==
  [i \in DOMAIN simple |->
     LET masked == i = 1 \/ simple[i].masked \/ simple[i - 1].masked
     IN  [fires |-> ~ masked /\ simple[i].fires /\ ~ simple[i - 1].fires, masked |-> masked]]
Crosses(op, l, r) == Rises(Simple(op, l, r))

(* The zone between two boundaries, whichever is the lower one.            *)
Low(r, e, i) == Smaller(r[i], e[i])
High(r, e, i) == Larger(r[i], e[i])
Inside(l, r, e, i) == Low(r, e, i) <= l[i] /\ l[i] <= High(r, e, i)
Blank(l, r, e, i) == Missing(l, i) \/ Missing(r, i) \/ Missing(e, i)

Masked(op, l, r, e, i) == Blank(l, r, e, i) \/ (op # "in" /\ Blank(l, r, e, i - 1))

(* Crossed into the zone, from below or from above.                        *)
Enters(op, l, r, e, i) ==
  /\ Inside(l, r, e, i)
  /\ IF op = "x>" THEN l[i - 1] < Low(r, e, i - 1) ELSE l[i - 1] > High(r, e, i - 1)

(* x> and x< stay active within the zone they crossed into.  The variant   *)
(* forgets a missing value, and stays active over it.                      *)
Remains(op, l, r, e) ==
  LET active[i \in 0..Len(l)] ==
        IF i = 0 THEN FALSE
        ELSE IF Masked(op, l, r, e, i) THEN active[i - 1]
        ELSE Enters(op, l, r, e, i) \/ (active[i - 1] /\ Inside(l, r, e, i))
  IN  active
Stays(op, l, r, e) ==
  LET active[i \in 0..Len(l)] ==
        IF i = 0 THEN FALSE
        ELSE /\ ~ Masked(op, l, r, e, i)
             /\ Enters(op, l, r, e, i) \/ (active[i - 1] /\ Inside(l, r, e, i))
  IN  active

Ranged(op, l, r, e) ==
  [i \in DOMAIN l |->
     LET masked == Masked(op, l, r, e, i)
     IN  [masked |-> masked,
          fires |-> /\ ~ masked
                    /\ CASE op = "in" -> Inside(l, r, e, i)
                         [] op = "xin" -> Inside(l, r, e, i) /\ ~ Inside(l, r, e, i - 1)
                         [] OTHER -> Stays(op, l, r, e)[i]]]
-----------------------------------------------------------------------------
(* Conditions                                                              *)

Operands(c) == IF Zoned(c) THEN <<c.left, c.right, c.end>> ELSE <<c.left, c.right>>

(* The operands of one row of comparisons: a single one goes with all.     *)
Lengths(in, c) == [n \in DOMAIN Operands(c) |-> Len(Series(in, Operands(c)[n]))]
LongestOf(lengths) ==
  CHOOSE n \in {lengths[j] : j \in DOMAIN lengths} : \A j \in DOMAIN lengths : lengths[j] <= n
Longest(in, c) == LongestOf(Lengths(in, c))
Fit(lengths) ==
  LongestOf(lengths) > 0 /\ \A j \in DOMAIN lengths : lengths[j] \in {1, LongestOf(lengths)}
Broadcasts(in, c) == Fit(Lengths(in, c))
Nth(s, n) == IF Len(s) = 1 THEN s[1] ELSE s[n]
Pick(in, x, n) == Nth(Series(in, x), n)

Join(x) == IF x.kind = "data" THEN Offset(x.offset).join ELSE "single"

(* The left and the right operand say how the comparisons are joined; the  *)
(* end of a zone has no say.                                               *)
Joinable(c) == ~ {"and", "or"} \subseteq {Join(c.left), Join(c.right)}
AnyOf(c) == "or" \in {Join(c.left), Join(c.right)}

Comparison(c, l, r, e) ==
  IF Zoned(c) THEN Ranged(c.op, l, r, e)
  ELSE IF c.op \in Crossing THEN Crosses(c.op, l, r) ELSE Simple(c.op, l, r)
Compared(in, c, n) ==
  Comparison(c, Pick(in, c.left, n), Pick(in, c.right, n), Pick(in, c.end, n))

Evaluable(in, c) ==
  /\ Parses(c) /\ CrossesBase(c)
  /\ \A j \in DOMAIN Operands(c) : Resolves(in, Operands(c)[j])
  /\ Joinable(c) /\ Broadcasts(in, c)

(* A row one of whose comparisons is masked does not fire, negated or not. *)
(* The variant negates after the mask was applied.                         *)
Settle(c, joined, masked) == ((joined /\ ~ masked) # c.negated)
Decide(c, joined, masked) == (joined # c.negated) /\ ~ masked

Decided(c, rows, each) ==
  [i \in rows |->
     LET masked == \E n \in DOMAIN each : each[n][i].masked
         joined == IF AnyOf(c) THEN \E n \in DOMAIN each : each[n][i].fires
                   ELSE \A n \in DOMAIN each : each[n][i].fires
     IN  [fires |-> Decide(c, joined, masked), masked |-> masked]]
Condition(in, c) ==
  Decided(c, BaseRows(in), [n \in 1..Longest(in, c) |-> Compared(in, c, n)])
=============================================================================
