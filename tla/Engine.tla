------------------------------- MODULE Engine -------------------------------
(***************************************************************************)
(* The entry points of the engine: a batch of backtests on parallel        *)
(* workers (top_level_api.rs), the optimizer's rounds (optimizer/runner)   *)
(* and the sensitivity test (sensitivity/runner.rs).  All of them evaluate *)
(* parameters through the pipeline.                                        *)
(*                                                                         *)
(* A call is a record with the field entry, its pack and settings, and     *)
(*   "batch": params, a sequence of parameter sets;                        *)
(*   "optimize": dims, config, and params, the set for each tuple of       *)
(*     values;                                                             *)
(*   "sensitivity": the same, the config being another.                    *)
(* Ratios are in percent.                                                  *)
(***************************************************************************)
EXTENDS ParamSearch

CONSTANTS
  Calls,
  SortsInPlace  \* the length up to which a sort cannot panic

VARIABLES
  call,
  phase,    \* "running", "done", "error" or "panic"
  jobs,     \* of a batch: the outcome of each, or Nothing while it is out
  top,      \* top_k_samples
  best,     \* best_all_time, Nothing before the first round
  highest,  \* max_seen, Nothing for minus infinity
  history,  \* a round is [best, samples], the samples sorted
  answer

vars == <<call, phase, jobs, top, best, highest, history, answer>>
search == <<top, best, highest, history>>

(* What a search draws its values from, in each dimension.                 *)
Spread(c) ==
  IF c.entry = "optimize" THEN Inside(c.dims)
  ELSE [d \in DOMAIN c.dims |-> Jittered(c.dims[d], c.config.distribution, c.config.ratio)]

Entry(name) == phase = "running" /\ call.entry = name
Quantiles == {5, 25, 75, 95}
ForEvaluation == [stage |-> "performance", keep |-> "stage"]

(* validate_config, and the settings both searches insist on.              *)
ConfigOK(c) ==
  LET f == c.config
  IN  CASE c.entry = "batch" -> TRUE
        [] c.entry = "optimize" ->
             /\ f.explore \in 0..100 /\ f.topK \in 0..100 /\ f.n > 0 /\ f.sigma > 0
        [] c.entry = "sensitivity" -> f.ratio > 0
Refused(c) ==
  c.entry # "batch" /\ (c.settings # ForEvaluation \/ ~ ConfigOK(c) \/ c.dims = <<>>)

(* Counts are unsigned.  What a search may draw is among its sets, and a   *)
(* backtest has a metric; what a stage computes is an artifact.            *)
HasMetric(param) == param["backtest"] = Fails \/ param["backtest"].score \in Metric
HasShape(param) ==
  /\ param["indicators"] # Fails =>
       /\ Normalized(param["indicators"]) # Nothing
       /\ \A k \in DOMAIN param["indicators"] :
            param["indicators"][k] \in [width : Nat, height : Nat, time : Nat]
  /\ param["signals"] # Nothing
  /\ param["backtest"] # Fails =>
       /\ param["backtest"] # Nothing
       /\ DOMAIN param["backtest"] = {"height", "leading", "rows", "score"}
       /\ param["backtest"].rows \in Seq([held : BOOLEAN, down : BOOLEAN, pnl : Metric])
       /\ Len(param["backtest"].rows) = param["backtest"].height

(* The times of the base never fall (extract_time_values).                 *)
HasTimes(pack) ==
  /\ pack.warmup \in Nat /\ pack.times \in Seq(Int)
  /\ Len(pack.times) = MapHeight(pack)
  /\ \A i \in 1..Len(pack.times) - 1 : pack.times[i] <= pack.times[i + 1]

ASSUME CallAssumption ==
  \A c \in Calls :
    /\ c.entry \in {"batch", "optimize", "sensitivity"}
    /\ c.entry = "batch" =>
         HasTimes(c.pack) /\ \A i \in DOMAIN c.params : HasShape(c.params[i])
    /\ c.entry # "batch" => c.config.n \in Nat
    /\ c.entry = "optimize" =>
         {c.config.maxRounds, c.config.maxSamples, c.config.minSamples, c.config.patience,
          c.config.topK, c.config.returnTopK} \subseteq Nat
    /\ c.entry # "batch" /\ ~ Refused(c) =>
         /\ Nothing \notin [values : Tuples(Spread(c)), metric : Metric]
         /\ \A values \in Tuples(Spread(c)) :
              /\ Applied(c.dims, values) \in DOMAIN c.params
              /\ HasMetric(c.params[Applied(c.dims, values)])

Init ==
  /\ call \in Calls
  /\ phase = IF Refused(call) THEN "error" ELSE "running"
  /\ jobs = IF call.entry = "batch" THEN [i \in DOMAIN call.params |-> Nothing] ELSE <<>>
  /\ top = <<>> /\ best = Nothing /\ highest = Nothing /\ history = <<>>
  /\ answer = Nothing
-----------------------------------------------------------------------------
(* The batch.  Workers take the sets in any order; the first error that is *)
(* found is the answer, without the sets that were not taken.              *)
Request == Compiled(call.settings)

Work(i) ==
  /\ Entry("batch") /\ jobs[i] = Nothing
  /\ jobs' = [jobs EXCEPT ![i] = SinglePack(call.pack, call.params[i], Request)]
  /\ UNCHANGED <<call, phase, search, answer>>

Collect ==
  /\ Entry("batch") /\ \A i \in DOMAIN jobs : jobs[i] \notin {Nothing, Fails}
  /\ phase' = "done" /\ answer' = jobs
  /\ UNCHANGED <<call, jobs, search>>

Abandon ==
  /\ Entry("batch") /\ \E i \in DOMAIN jobs : jobs[i] = Fails
  /\ phase' = "error"
  /\ UNCHANGED <<call, jobs, search, answer>>
-----------------------------------------------------------------------------
(* The optimizer.                                                          *)

MetricOf(values) == Score(call.pack, call.params[Applied(call.dims, values)])
Evaluated(drawn) == [i \in DOMAIN drawn |-> [values |-> drawn[i], metric |-> MetricOf(drawn[i])]]

(* The first round only explores; every later one also looks around what   *)
(* is best so far.                                                         *)
Exploring == IF history = <<>> THEN call.config.n
             ELSE (call.config.n * call.config.explore) \div 100
Drawn ==
  {a \o b : a \in Hypercube(call.dims, Exploring),
            b \in IF top = <<>> THEN {<<>>} ELSE Around(call.dims, call.config.n - Exploring)}

KeptCount == LET k == (call.config.n * call.config.topK) \div 100 IN IF k > 0 THEN k ELSE 1
Total == call.config.n * Len(history)

(* f64's >, which holds of no NaN.                                         *)
Exceeds(a, b) == a \notin {NaN, Nothing} /\ b # NaN /\ (b = Nothing \/ a > b)

(* No new best in so many rounds.  The variant counts one round less.      *)
StalledEarly(h, patience) ==
  Len(h) >= patience /\ ~ Exceeds(h[Len(h)].best, h[Len(h) + 1 - patience].best)
Stalled(h, patience) ==
  Len(h) > patience /\ ~ Exceeds(h[Len(h)].best, h[Len(h) - patience].best)

Stops ==
  \/ Len(history) = call.config.maxRounds
  \/ Total >= call.config.maxSamples
  \/ /\ history # <<>> /\ Total >= call.config.minSamples
     /\ Stalled(history, call.config.patience)

(* Replaced by what is better only.  The variant follows the last round.   *)
BestLatest(head) == head
BestOf(head) == IF best = Nothing \/ Exceeds(head.metric, best.metric) THEN head ELSE best
HighestOf(head) ==
  IF Exceeds(head.metric, highest) THEN head.metric ELSE highest

Round ==
  /\ Entry("optimize") /\ ~ Stops
  /\ \E drawn \in Drawn :
       /\ \A i \in DOMAIN drawn : MetricOf(drawn[i]) # Fails
       /\ \E samples \in Orders(Evaluated(drawn), TRUE) :
            /\ top' \in Merged(top, samples, KeptCount)
            /\ best' = BestOf(samples[1])
            /\ highest' = HighestOf(samples[1])
            /\ history' = Append(history, [best |-> highest', samples |-> samples])
  /\ UNCHANGED <<call, phase, jobs, answer>>

(* One sample that cannot be evaluated fails the search.                   *)
RoundFails ==
  /\ Entry("optimize") /\ ~ Stops
  /\ \E drawn \in Drawn : \E i \in DOMAIN drawn : MetricOf(drawn[i]) = Fails
  /\ phase' = "error"
  /\ UNCHANGED <<call, jobs, search, answer>>

SortMayPanic(samples) == ~ Numbers(samples) /\ Len(samples) > SortsInPlace

RoundPanics ==
  /\ Entry("optimize") /\ ~ Stops
  /\ \E drawn \in Drawn :
       /\ \A i \in DOMAIN drawn : MetricOf(drawn[i]) # Fails
       /\ SortMayPanic(top \o Evaluated(drawn))
  /\ phase' = "panic"
  /\ UNCHANGED <<call, jobs, search, answer>>

(* Without a round there is no best, and that is an error.                 *)
Optimized ==
  /\ Entry("optimize") /\ Stops
  /\ IF best = Nothing THEN phase' = "error" /\ UNCHANGED answer
     ELSE /\ phase' = "done"
          /\ answer' = [values |-> Applied(call.dims, best.values), metric |-> best.metric,
                        total |-> Total,
                        top |-> First(top, call.config.returnTopK)]
  /\ UNCHANGED <<call, jobs, search>>
-----------------------------------------------------------------------------
(* The sensitivity test.  Samples that fail are counted; what is left is   *)
(* described.  The centre is evaluated last, and must not fail.            *)

Jitters == [1..call.config.n -> Tuples(Spread(call))]

Failing(drawn) == {i \in DOMAIN drawn : MetricOf(drawn[i]) = Fails}
Good(drawn) == Picked(Evaluated(drawn), DOMAIN drawn \ Failing(drawn))
Metrics(samples) == [i \in DOMAIN samples |-> samples[i].metric]

(* f64's min and max, which pass over NaN.                                 *)
Extreme(samples, greatest) ==
  LET numbers == {samples[i].metric : i \in DOMAIN samples} \ {NaN}
  IN  IF numbers = {} THEN Nothing
      ELSE CHOOSE m \in numbers : \A v \in numbers : IF greatest THEN v <= m ELSE m <= v

Describe ==
  /\ Entry("sensitivity")
  /\ Score(call.pack, call.centre) # Fails
  /\ \E drawn \in Jitters :
       LET good == Good(drawn)
       IN  /\ good # <<>>
           /\ \E up, rising \in Orders(good, FALSE) : \E falling \in Orders(good, TRUE) :
                answer' = [samples |-> good, failed |-> Cardinality(Failing(drawn)),
                           centre |-> Score(call.pack, call.centre),
                           min |-> Extreme(good, FALSE), max |-> Extreme(good, TRUE),
                           median |-> MedianOf(Metrics(up)),
                           quantile |-> [q \in Quantiles |-> Quantile(Metrics(up), q)],
                           top |-> First(falling, 5), bottom |-> First(rising, 5)]
  /\ phase' = "done"
  /\ UNCHANGED <<call, jobs, search>>

DescribeFails ==
  /\ Entry("sensitivity")
  /\ \/ Score(call.pack, call.centre) = Fails
     \/ \E drawn \in Jitters : Good(drawn) = <<>>
  /\ phase' = "error"
  /\ UNCHANGED <<call, jobs, search, answer>>

DescribePanics ==
  /\ Entry("sensitivity")
  /\ Score(call.pack, call.centre) # Fails
  /\ \E drawn \in Jitters : SortMayPanic(Good(drawn))
  /\ phase' = "panic"
  /\ UNCHANGED <<call, jobs, search, answer>>
-----------------------------------------------------------------------------
Batch == (\E i \in DOMAIN jobs : Work(i)) \/ Collect \/ Abandon
Optimize == Round \/ RoundFails \/ RoundPanics \/ Optimized
Sensitivity == Describe \/ DescribeFails \/ DescribePanics

Next == Batch \/ Optimize \/ Sensitivity

Spec == Init /\ [][Next]_vars
-----------------------------------------------------------------------------
Answered(name) == phase = "done" /\ call.entry = name

(* A result pack that kept everything can be taken up again from its       *)
(* signals or from its backtest, as the walk forward does: its indicators  *)
(* lose their time column, the checks of the frames handed in hold, and    *)
(* the same result comes out, with the performance a search would see.     *)
Again(result, from) ==
  [from |-> from, to |-> "performance", keep |-> "all",
   given |-> [name \in UpTo("backtest") |->
                IF name = "indicators" THEN Stripped(result[name]) ELSE result[name]]]

ResumesAlike ==
  Answered("batch") /\ call.settings = [stage |-> "performance", keep |-> "all"] =>
    \A i \in DOMAIN answer :
      /\ Strippable(answer[i]["indicators"])
      /\ \A from \in {"signals", "backtest"} :
           SinglePack(call.pack, call.params[i], Again(answer[i], from)) = answer[i]
      /\ answer[i]["performance"].counted =>
           answer[i]["performance"].score = Score(call.pack, call.params[i])

(* The scan of calculate_duration_stats finds what is there: the longest   *)
(* stretches of rows with a position, in order, each with the bars and the *)
(* time it lasted, and those without one that follow the first; the        *)
(* longest drawdown is a stretch of rows below the peak that none exceeds. *)
Stretches(rows) ==
  {s \in rows \X rows : /\ s[1] <= s[2] /\ s[1]..s[2] \subseteq rows
                        /\ s[1] - 1 \notin rows /\ s[2] + 1 \notin rows}
Time(times, s) ==
  IF s[2] < Len(times) THEN times[s[2] + 1] - times[s[1]]
  ELSE times[s[2]] - times[s[1]] + Lasts(times)[s[2]]
Lists(spans, stretches, times) ==
  /\ Len(spans) = Cardinality(stretches)
  /\ \A s \in stretches :
       spans[Cardinality({r \in stretches : r[1] <= s[1]})]
         = [bars |-> s[2] - s[1] + 1, ms |-> Time(times, s)]

SpansAreStretches ==
  Answered("batch") /\ call.settings.stage = "performance" =>
    \A i \in DOMAIN answer :
      LET found == answer[i]["performance"]
          rows == ActiveRows(call.pack, call.params[i]["backtest"].rows)
          times == ActiveRows(call.pack, call.pack.times)
          held == {j \in DOMAIN rows : rows[j].held}
          free == DOMAIN rows \ held
          down == {j \in DOMAIN rows : rows[j].down}
      IN  found.counted =>
            /\ Lists(found.spans.holdings, Stretches(held), times)
            /\ Lists(found.spans.empties,
                     {s \in Stretches(free) : \E j \in held : j < s[1]},
                     times)
            /\ {found.drawdown} \cup {s[2] - s[1] + 1 : s \in Stretches(down)}
                 \subseteq 0..found.drawdown
            /\ found.drawdown > 0 =>
                 \E s \in Stretches(down) : found.drawdown = s[2] - s[1] + 1

(* The optimizer hands out the best it has seen.  Every sample of every    *)
(* round counts while all metrics are numbers; with one that is not, the   *)
(* heads of the rounds do, and a first head that is no number stays.  The  *)
(* parameters handed out score what is said of them.                       *)
Places == {p \in (DOMAIN history) \X (1..call.config.n) : p[2] \in DOMAIN history[p[1]].samples}
At(p) == history[p[1]].samples[p[2]].metric
AllNumbers == \A r \in DOMAIN history : Numbers(history[r].samples)

BestIsBest ==
  call.entry = "optimize" /\ history # <<>> =>
    /\ (best.metric = NaN) <=> (At(<<1, 1>>) = NaN)
    /\ \A r \in DOMAIN history : At(<<r, 1>>) # NaN =>
         /\ At(<<r, 1>>) <= highest
         /\ best.metric # NaN => At(<<r, 1>>) <= best.metric
    /\ best.metric # NaN => best.metric = highest
    /\ AllNumbers => \A p \in Places : At(p) <= best.metric
    /\ phase = "done" => Score(call.pack, call.params[answer.values]) = answer.metric

(* What is kept from round to round is the best of all that was evaluated, *)
(* and not only of the last round: as many samples as fit, and the j-th of *)
(* them has fewer than j above it.                                         *)
TopKAreBest ==
  call.entry = "optimize" /\ AllNumbers =>
    /\ Len(top) = IF KeptCount < Total THEN KeptCount ELSE Total
    /\ \A j \in DOMAIN top :
         /\ Cardinality({p \in Places : At(p) > top[j].metric}) < j
         /\ Cardinality({p \in Places : At(p) >= top[j].metric}) >= j

(* A search ends for one of three causes: its rounds are used up, its      *)
(* samples are, which the last round may exceed by less than a round, or,  *)
(* after min_samples, no sample of the last stop_patience rounds was       *)
(* better than every one before them.  It does not go on past the third.   *)
Fruitless(n) ==
  /\ n > call.config.patience
  /\ \A p \in Places : p[1] \in n - call.config.patience + 1..n =>
       \E q \in Places : q[1] <= n - call.config.patience /\ At(p) <= At(q)
GivesUp(n) == n > 0 /\ call.config.n * n >= call.config.minSamples /\ Fruitless(n)

StopsForCause ==
  call.entry = "optimize" /\ AllNumbers =>
    /\ phase = "done" =>
         \/ Len(history) = call.config.maxRounds \/ Total >= call.config.maxSamples
         \/ GivesUp(Len(history))
    /\ \A n \in 1..Len(history) - 1 : ~ GivesUp(n)
    /\ history # <<>> => Total < call.config.maxSamples + call.config.n

(* What the sensitivity test says of its samples: none is lost, and as     *)
(* many of them lie to either side of a quantile as its share allows, to   *)
(* the nearest sample; its best and worst samples are.                     *)
QuantilesHold ==
  Answered("sensitivity") =>
    LET n == Len(answer.samples)
        below(v) == Cardinality({i \in 1..n : answer.samples[i].metric < v})
        above(v) == Cardinality({i \in 1..n : answer.samples[i].metric > v})
        share(v, q) == /\ 100 * below(v) <= q * (n - 1) + 50
                       /\ 100 * above(v) <= (100 - q) * (n - 1) + 50
    IN  /\ n + answer.failed = call.config.n
        /\ Numbers(answer.samples) =>
             /\ share(answer.median, 50)
             /\ \A q \in Quantiles : share(answer.quantile[q], q)
             /\ answer.top[1].metric = answer.max /\ answer.bottom[1].metric = answer.min
             /\ \A j \in DOMAIN answer.top : above(answer.top[j].metric) < j
             /\ \A j \in DOMAIN answer.bottom : below(answer.bottom[j].metric) < j
=============================================================================
