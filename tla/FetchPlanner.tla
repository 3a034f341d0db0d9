---------------------------- MODULE FetchPlanner ----------------------------
(***************************************************************************)
(* The planner that decides what to ask the exchange for until the bars    *)
(* make a pack (data_ops/fetch_planner).  The exchange answers a request   *)
(* <<since, limit>> with the first limit bars that open at since or later  *)
(* and not after the present, or with as many as one page of it holds; it  *)
(* may show a bar only when the bar is over.  Nobody knows beforehand how  *)
(* many bars there are, markets close and the listing has a first day.     *)
(* The base is fetched first: its first bar is the anchor where trading    *)
(* begins, and warm-up is added before it.  Each other source must then    *)
(* cover the base at its end, at its start, and hold its own warm-up, in   *)
(* this order.  Every request asks for the whole series again and replaces *)
(* the answer before it.                                                   *)
(***************************************************************************)
EXTENDS DataPack

CONSTANTS
  Inputs,  \* what the planner may be called with, and the exchange's bars
  Nowhere, \* no time yet
  Horizon  \* bound: the latest present

\* A parameter that is optimized stands for every value up to its maximum;
\* the warm-up of an indicator grows with it.
Param == [optimize : BOOLEAN, value : Nat, max : Nat]
Input == [since : Int, limit : Nat \ {0}, indicator : [Sources -> Param], exec : Param,
          min_bars : Nat \ {0}, max_rounds : Nat \ {0},
          history : [Sources -> SUBSET Int], page : Nat \ {0}, closed_only : BOOLEAN]

ASSUME InputAssumption == Inputs \subseteq Input /\ Nowhere \notin Int /\ None \notin Int
ASSUME HorizonAssumption == Horizon \in Nat

\* An exchange has finitely many bars, and two of a source open an interval
\* apart or more.
ASSUME HistoryAssumption ==
  \A i \in Inputs, k \in Sources :
    IsFiniteSet(i.history[k]) /\ Spaced(i.history[k], Interval[k])

VARIABLES
  input,    \* the call
  now,      \* the present
  fetch,    \* per source: the pending request, rounds, stage, last answer
  anchor,   \* where trading begins: the first bar the base ever answered
  window,   \* the base's first and last bar and the first one traded
  turn,     \* which of the other sources is next
  verdict,  \* "asking", an error, or what came of finish()
  pack      \* the pack built, or cut from it

vars == <<input, now, fetch, anchor, window, turn, verdict, pack>>

NoWindow == [start |-> Nowhere, end |-> Nowhere, live |-> Nowhere]
NoPack == [bars |-> [k \in Sources |-> {}], warmup |-> [k \in Sources |-> 0]]

\* What the exchange answers.
Listed(k) == {t \in input.history[k] : t + (IF input.closed_only THEN Interval[k] ELSE 0) <= now}
Answer(k) ==
  LET from == {t \in Listed(k) : t >= fetch[k].since}
  IN  {t \in from : Row(from, t) < Smaller(fetch[k].limit, input.page)}

\* The warm-up a source needs; ATR and PSAR stops run on the base.  The
\* variant takes the value a parameter has now.
WarmupNow(p) == p.value
Warmup(p) == IF p.optimize THEN p.max ELSE p.value
Required(k) ==
  IF k = Base THEN Larger(Warmup(input.indicator[k]), Warmup(input.exec))
  ELSE Warmup(input.indicator[k])

Asked == IF fetch[Base].stage # "Complete" THEN {Base}
         ELSE IF turn <= Len(Order) THEN {Order[turn]} ELSE {}
Asking(k) == verdict = "asking" /\ k \in Asked /\ Answer(k) # {}
-----------------------------------------------------------------------------
\* What is still missing in the answer to a source, in bars

Anchor(k) == IF k = Base THEN IF anchor = Nowhere THEN Earliest(Answer(Base)) ELSE anchor
             ELSE window.live

TailMissing(k) ==
  /\ k # Base /\ fetch[k].stage \in {"Initial", "TailCoverage"}
  /\ Latest(Answer(k)) + Interval[k] <= window.end
TailBars(k) == (window.end - (Latest(Answer(k)) + Interval[k])) \div Interval[k] + 1

HeadMissing(k) ==
  /\ k # Base /\ fetch[k].stage # "HeadWarmup"
  /\ Earliest(Answer(k)) > window.start
HeadBars(k) == (Earliest(Answer(k)) - window.start + Interval[k] - 1) \div Interval[k]

\* The anchor must be in the base's answer itself; another source only needs a
\* bar that has opened by then.
Anchored(k) == IF k = Base THEN Anchor(k) \in Answer(k) ELSE RowAt(Answer(k), Anchor(k)) # None
WarmupBars(k) == Required(k) - RowAt(Answer(k), Anchor(k))
WarmupMissing(k) == WarmupBars(k) > 0

\* A base answer shorter than what is to be traded.
Short(k) == k = Base /\ Cardinality(Answer(k)) < input.limit

\* One more round, if there is one left: the request grows by the bars missing,
\* at least min_bars, at its end, or at its start when it moves back by as many.
Grow(bars) == Larger(bars, input.min_bars)
Another(k) == fetch[k].rounds < input.max_rounds
AskAgain(k, stage, grow, back) ==
  IF Another(k)
  THEN /\ fetch' = [fetch EXCEPT ![k] =
            [since |-> @.since - back * Interval[k], limit |-> @.limit + grow,
             rounds |-> @.rounds + 1, stage |-> stage, bars |-> Answer(k)]]
       /\ UNCHANGED verdict
  ELSE /\ fetch' = [fetch EXCEPT ![k].rounds = @ + 1, ![k].stage = stage, ![k].bars = Answer(k)]
       /\ verdict' = "rounds"

\* The variants of AskEarlier do not move the start back, or leave the limit as
\* it is.
AskEarlierNoBack(k, stage, bars) == AskAgain(k, stage, Grow(bars), 0)
AskEarlierNoGrow(k, stage, bars) == AskAgain(k, stage, 0, Grow(bars))
AskEarlier(k, stage, bars) == AskAgain(k, stage, Grow(bars), Grow(bars))
AskLater(k, stage, bars) == AskAgain(k, stage, Grow(bars), 0)
-----------------------------------------------------------------------------
Init ==
  /\ input \in Inputs
  /\ now \in 0..Horizon
  /\ fetch = [k \in Sources |->
                IF k = Base
                THEN [since |-> input.since, limit |-> input.limit, rounds |-> 0,
                      stage |-> "Initial", bars |-> {}]
                ELSE [since |-> 0, limit |-> 0, rounds |-> 0, stage |-> "Unplanned", bars |-> {}]]
  /\ anchor = Nowhere /\ window = NoWindow
  /\ turn = 1
  /\ verdict = "asking"
  /\ pack = NoPack

\* Time passes while the caller waits for an answer.
Tick ==
  /\ verdict = "asking" /\ now < Horizon
  /\ now' = now + 1
  /\ UNCHANGED <<input, fetch, anchor, window, turn, verdict, pack>>

\* The caller gives up on an empty answer; the planner would refuse it.
NoAnswer ==
  /\ verdict = "asking"
  /\ \E k \in Asked : Answer(k) = {}
  /\ verdict' = "empty"
  /\ UNCHANGED <<input, now, fetch, anchor, window, turn, pack>>

BaseShort ==
  /\ Asking(Base) /\ Short(Base)
  /\ verdict' = "short"
  /\ fetch' = [fetch EXCEPT ![Base].bars = Answer(Base)]
  /\ UNCHANGED <<input, now, anchor, window, turn, pack>>

\* An answer without the anchor, or without a bar open at it.
Unanchored(k) ==
  /\ Asking(k) /\ ~Short(k) /\ ~TailMissing(k) /\ ~HeadMissing(k) /\ ~Anchored(k)
  /\ verdict' = "anchor"
  /\ fetch' = [fetch EXCEPT ![k].bars = Answer(k),
                            ![k].stage = IF k = Base THEN @ ELSE "HeadWarmup"]
  /\ UNCHANGED <<input, now, anchor, window, turn, pack>>

CoverTail(k) ==
  /\ Asking(k) /\ TailMissing(k)
  /\ AskLater(k, "TailCoverage", TailBars(k))
  /\ UNCHANGED <<input, now, anchor, window, turn, pack>>

CoverHead(k) ==
  /\ Asking(k) /\ ~TailMissing(k) /\ HeadMissing(k)
  /\ AskEarlier(k, "HeadTimeCoverage", HeadBars(k))
  /\ UNCHANGED <<input, now, anchor, window, turn, pack>>

WarmUp(k) ==
  /\ Asking(k) /\ ~Short(k) /\ ~TailMissing(k) /\ ~HeadMissing(k) /\ Anchored(k)
  /\ WarmupMissing(k)
  /\ AskEarlier(k, "HeadWarmup", WarmupBars(k))
  /\ anchor' = IF k = Base THEN Anchor(k) ELSE anchor
  /\ UNCHANGED <<input, now, window, turn, pack>>

\* The request the other sources start from: the span of the base.
FirstRequest(k, bars) ==
  [since |-> Earliest(bars),
   limit |-> (Latest(bars) - Earliest(bars) + Interval[k] - 1) \div Interval[k] + 1,
   rounds |-> 0, stage |-> "Initial", bars |-> {}]

\* The base is cut to its warm-up on the left, never on the right.
CompleteBase ==
  /\ Asking(Base) /\ ~Short(Base) /\ Anchored(Base) /\ ~WarmupMissing(Base)
  /\ LET first == Row(Answer(Base), Anchor(Base)) - Required(Base)
         bars == Rows(Answer(Base), first, Cardinality(Answer(Base)))
     IN  /\ fetch' = [k \in Sources |->
                        IF k = Base THEN [fetch[k] EXCEPT !.stage = "Complete", !.bars = bars]
                        ELSE FirstRequest(k, bars)]
         /\ window' = [start |-> Earliest(bars), end |-> Latest(bars), live |-> Anchor(Base)]
  /\ anchor' = Anchor(Base)
  /\ UNCHANGED <<input, now, turn, verdict, pack>>

\* Both ends are tested once more: an answer to a later request could have
\* lost what an earlier one had.
CompleteSource(k) ==
  /\ k # Base
  /\ Asking(k) /\ ~TailMissing(k) /\ ~HeadMissing(k) /\ Anchored(k) /\ ~WarmupMissing(k)
  /\ IF Covers(Answer(k), window.start, window.end, Interval[k])
     THEN /\ fetch' = [fetch EXCEPT ![k].stage = "Complete", ![k].bars = Answer(k)]
          /\ turn' = turn + 1
          /\ UNCHANGED verdict
     ELSE /\ fetch' = [fetch EXCEPT ![k].stage = "HeadWarmup", ![k].bars = Answer(k)]
          /\ verdict' = "uncovered"
          /\ UNCHANGED turn
  /\ UNCHANGED <<input, now, anchor, window, pack>>

\* finish(): the warm-up of the base is what it needs, that of another source
\* whatever lies before the bar that the base row after its warm-up sees.
Finished ==
  [bars |-> [k \in Sources |-> fetch[k].bars],
   warmup |-> [k \in Sources |->
     IF k = Base THEN Required(Base)
     ELSE RowAt(fetch[k].bars, BarAt(fetch[Base].bars, Required(Base)))]]

Finish ==
  /\ verdict = "asking" /\ Asked = {}
  /\ IF Buildable(Finished) /\ \A k \in Others : Finished.warmup[k] >= Required(k)
     THEN verdict' = "built" /\ pack' = Finished
     ELSE verdict' = "unbuilt" /\ UNCHANGED pack
  /\ UNCHANGED <<input, now, fetch, anchor, window, turn>>

\* What the caller does with the pack.
CutPack ==
  /\ verdict = "built"
  /\ \E start \in 0..Cardinality(pack.bars[Base]), len \in 1..Cardinality(pack.bars[Base]) :
       /\ Cuttable(pack, start, len) /\ Buildable(Slice(pack, start, len))
       /\ pack' = Slice(pack, start, len)
  /\ UNCHANGED <<input, now, fetch, anchor, window, turn, verdict>>

ExtractActive ==
  /\ verdict = "built"
  /\ Buildable(Active(pack))
  /\ pack' = Active(pack)
  /\ UNCHANGED <<input, now, fetch, anchor, window, turn, verdict>>

Ingest ==
  \/ NoAnswer \/ BaseShort \/ CompleteBase
  \/ \E k \in Sources : Unanchored(k) \/ CoverTail(k) \/ CoverHead(k) \/ WarmUp(k) \/ CompleteSource(k)

Next == Tick \/ Ingest \/ Finish \/ CutPack \/ ExtractActive

\* The caller asks and ingests until the planner is complete or refuses.
Spec == Init /\ [][Next]_vars /\ WF_vars(Ingest \/ Finish)
-----------------------------------------------------------------------------
\* Properties

\* The values the optimizer may try for a parameter.
Candidates(p) == IF p.optimize THEN 0..p.max ELSE {p.value}

\* The exchange answers every request in full.
Whole == \A k \in Sources : Cardinality(input.history[k]) <= input.page

\* What a finished plan promises: trading starts at the first bar the base ever
\* answered, and as many base bars as were asked for follow, if no answer was
\* cut to a page; every source sees a bar on every base row, up to the last;
\* and before the first traded row it has the warm-up of any parameter the
\* optimizer may try.
CompleteIsEnough ==
  verdict \in {"asking", "built"} /\ Asked = {} =>
    /\ Whole => Cardinality({t \in fetch[Base].bars : t >= anchor}) >= input.limit
    /\ anchor = Earliest({t \in input.history[Base] : t >= input.since})
    /\ \A v \in Candidates(input.exec) : Row(fetch[Base].bars, anchor) >= v
    /\ \A k \in Sources :
         /\ \A v \in Candidates(input.indicator[k]) : RowAt(fetch[k].bars, anchor) >= v
         /\ \A t \in fetch[Base].bars : \E u \in fetch[k].bars : u <= t
         /\ Latest(fetch[k].bars) + Interval[k] > Latest(fetch[Base].bars)

\* With an exchange that answers in full the planner is only ever short of
\* data: what a request had covered stays covered when the next one reaches
\* further back.  With pages the ends are lost and noticed, and finish()
\* builds whatever is complete, but for a base of a single bar or one that is
\* not the finest source, which nothing before finish() looks at.
OnlyDataIsMissing ==
  /\ Whole => verdict \notin {"anchor", "uncovered"}
  /\ verdict = "unbuilt" => \/ Cardinality(fetch[Base].bars) = 1
                           \/ \E k \in Others : Interval[k] < Interval[Base]

\* A market that never closes, is listed early enough for every warm-up, shows
\* a bar as it opens, and has traded for as long as asked; a bar of every source
\* has opened since, for a source is asked from the base's first bar on, and
\* its empty answer is refused.
OpenMarket ==
  /\ Whole /\ ~input.closed_only
  /\ \A k \in Sources : \A t \in input.history[k] :
       t + Interval[k] \in input.history[k] \/ t + Interval[k] > Horizon
  /\ \A k \in Sources : \E t \in input.history[k] :
       t + (Required(Base) + Required(k) + 2 * input.min_bars) * Interval[k] <= input.since
  /\ now >= input.since + input.limit - 1
  /\ \A k \in Others : \E t \in input.history[k] : input.since <= t /\ t <= now
  /\ input.limit >= 2 /\ input.max_rounds >= 2

\* On such a market two rounds per source are enough, whatever the warm-ups:
\* one for the start of the base, one for the warm-up.
OpenMarketServed == OpenMarket /\ fetch[Base].stage = "Initial" ~> verdict = "built"

\* The bar of source k that the base row at time t works with.
Seen(p, k, t) == Latest({u \in p.bars[k] : u <= t})

\* Every base bar lies within a bar of each other source: what an exchange has
\* that puts the bars of one market together to longer ones.
Nested ==
  \A k \in Others : \A t \in input.history[Base] :
    \E u \in input.history[k] : u <= t /\ t < u + Interval[k]

\* However a pack is cut, each row left sees the bars it saw in the pack the
\* planner built; and where bars are nested a cut of two rows or more that
\* reaches past the warm-up is never refused.
CutsKeepSight ==
  verdict = "built" =>
    /\ \A k \in Others, t \in pack.bars[Base] : Seen(pack, k, t) = Seen(Finished, k, t)
    /\ Nested => \A start \in 0..Cardinality(pack.bars[Base]), len \in 2..Cardinality(pack.bars[Base]) :
         start + len <= Cardinality(pack.bars[Base]) /\ len > pack.warmup[Base] =>
           Cuttable(pack, start, len) /\ Buildable(Slice(pack, start, len))
=============================================================================
