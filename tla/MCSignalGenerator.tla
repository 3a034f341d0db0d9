-------------------------- MODULE MCSignalGenerator --------------------------
(***************************************************************************)
(* An instance of SignalGenerator for TLC: four base rows, a source of     *)
(* twice their interval, one in step with the base, every course of an     *)
(* indicator over a few values and gaps, and comparisons of every kind.    *)
(* Zones that are entered get a fifth row: one to cross from, one to enter *)
(* in, a gap, the row that looks back on it, and one that can tell.        *)
(***************************************************************************)
EXTENDS SignalGenerator, TLC

MCOrder == <<"half", "twin">>
MCInterval == "base" :> 1 @@ "half" :> 2 @@ "twin" :> 1

MCPack(bars, half, warmup) ==
  [bars |-> "base" :> bars @@ "half" :> half @@ "twin" :> bars,
   warmup |-> "base" :> warmup @@ "half" :> 0 @@ "twin" :> 0]

MCData(name, source, form, join, at) ==
  [kind |-> "data", name |-> name, source |-> source,
   offset |-> [form |-> form, join |-> join, at |-> at]]
MCNow(name, source) == MCData(name, source, "plain", "and", <<0>>)
MCScalar(v) == [kind |-> "scalar", value |-> v]
MCParam(name) == [kind |-> "param", name |-> name]
MCNone == [kind |-> "none"]

MCCondition(left, op, right, end, negated) ==
  [left |-> left, op |-> op, right |-> right, end |-> end, negated |-> negated]

MCRsi == MCNow("rsi", "")
MCHalf == MCNow("ma", "half")
MCSome(join) == MCData("rsi", "", "list", join, <<0, 2>>)
MCSpan(join, to) == MCData("rsi", "", "range", join, <<0, to>>)

\* The ones that are refused come last.
MCConditions(negated) ==
  {MCCondition(MCRsi, op, right, MCNone, negated) :
     op \in {">", "x>", "<=", "x<="}, right \in {MCParam("level"), MCNow("close", "base")}}
    \cup {MCCondition(MCRsi, op, MCScalar(1), MCNone, negated) :
            op \in {"==", "x==", "!=", "x!=", "<", "x<", ">=", "x>="}}
    \cup {MCCondition(MCRsi, op, MCScalar(2), MCScalar(1), negated) :
            op \in {"in", "xin", "x>", "x<"}}
    \cup {MCCondition(MCRsi, op, MCNow("close", ""), MCParam("level"), negated) :
            op \in {"in", "x>", "x<"}}
    \cup {MCCondition(left, "<", MCHalf, MCNone, negated) :
            left \in {MCRsi, MCNow("close", "twin"), MCSome("or"), MCSpan("and", 1)}}
    \cup {MCCondition(MCHalf, ">", MCSome(join), MCNone, negated) : join \in {"and", "or"}}
    \cup {MCCondition(MCData("rsi", "", "list", "or", <<1>>), "<=", MCSpan("or", 1), MCNone, negated)}
    \cup {MCCondition(MCRsi, "in", MCScalar(0), MCSome("or"), negated)}
    \cup {MCCondition(MCHalf, "x>", MCScalar(1), MCNone, negated),
          MCCondition(MCRsi, ">", MCScalar(1), MCScalar(2), negated),
          MCCondition(MCRsi, "in", MCScalar(1), MCNone, negated),
          MCCondition(MCSome("and"), ">", MCSpan("or", 1), MCNone, negated),
          MCCondition(MCSpan("and", 2), ">", MCSpan("and", 1), MCNone, negated),
          MCCondition(MCRsi, ">", MCParam("none"), MCNone, negated)}

MCGroup(logic, comparisons, subs) ==
  [logic |-> logic, comparisons |-> comparisons, subs |-> subs]
MCOne(c) == <<MCGroup("AND", <<c>>, {})>>
MCAbove == MCCondition(MCRsi, ">", MCScalar(0), MCNone, FALSE)
MCTree(c) == <<MCGroup("OR", <<c, MCAbove>>, {}), MCGroup("AND", <<MCAbove>>, {1})>>
MCEmpty == <<MCGroup("OR", <<>>, {})>>

MCTemplate(c) ==
  "entry_long" :> MCOne(c) @@ "exit_long" :> Absent
    @@ "entry_short" :> MCEmpty @@ "exit_short" :> MCTree(c)

MCBars == {0, 1, 2, 4}
MCPacks ==
  {MCPack(MCBars, half, 0) : half \in {{-2, 0, 2, 4}, {-3, -1, 1, 4}, {-1, 1, 3}, {0, 2, 4}}}
    \cup {MCPack({0, 2, 4, 6}, half, 0) : half \in {{0, 2, 4, 6}, {-2, 0, 2, 5}}}

\* A column of a source has a value for each of its bars.
MCColumn(pack, k, values) == SubSeq(values, 1, Cardinality(pack.bars[k]))

MCCall(pack, rsi, c) ==
  [pack |-> pack,
   source |-> "base" :> ("close" :> MCColumn(pack, "base", <<0, 1, 1, 2, 2>>)) @@ "half" :> ("close" :> MCColumn(pack, "half", <<0, 0, 0, 0>>))
                @@ "twin" :> ("close" :> MCColumn(pack, "twin", <<1, 0, 2, 1, 1>>)),
   indicators |-> "base" :> ("rsi" :> rsi) @@ "half" :> ("ma" :> MCColumn(pack, "half", <<1, 0, 2, 1>>)),
   params |-> "level" :> 1,
   template |-> MCTemplate(c)]

MCLong == MCPack({0, 1, 2, 3, 4}, {-2, 0, 2, 4}, 0)
MCZones == {MCCondition(MCRsi, op, MCScalar(2), MCScalar(1), FALSE) : op \in {"x>", "x<"}}

\* Every course with every comparison, on one pack; fewer on the others.
MCCalls ==
  {MCCall(MCLong, rsi, c) : rsi \in [1..5 -> {0, 2, 3, NaN}], c \in MCZones} \cup
  {MCCall(MCPack(MCBars, {-2, 0, 2, 4}, 1), rsi, c) :
     rsi \in [1..4 -> {0, 2, NaN}], c \in MCConditions(FALSE) \cup MCConditions(TRUE)}
    \cup {MCCall(pack, <<NaN, 0, 1, 2>>, c) : pack \in MCPacks, c \in MCConditions(FALSE)}
=============================================================================
