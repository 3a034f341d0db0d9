------------------------------ MODULE MCEngine ------------------------------
(***************************************************************************)
(* An instance of Engine for TLC: every course of a position over five     *)
(* rows behind four warm-ups, batches with sets that fail in every stage,  *)
(* searches over every ranking of a few values, with ties, gaps and        *)
(* metrics that are no number.                                             *)
(***************************************************************************)
EXTENDS Engine

MCIdle == -100

MCPack(warmup) ==
  [base |-> "base", heights |-> "base" :> 5 @@ "half" :> 3, times |-> <<0, 1, 4, 4, 6>>,
   warmup |-> warmup]

MCFrame(width, height) == [width |-> width, height |-> height, time |-> 0]
MCIndicators == "base" :> MCFrame(2, 5) @@ "half" :> MCFrame(0, 0)
MCBoth == "base" :> MCFrame(2, 5) @@ "half" :> MCFrame(1, 3)

MCRows(held, down, pnl) == [i \in 1..5 |-> [held |-> held[i], down |-> down[i], pnl |-> pnl[i]]]
MCBacktest(rows, score) == [height |-> 5, leading |-> TRUE, rows |-> rows, score |-> score]
MCPlain == MCRows(<<FALSE, TRUE, TRUE, FALSE, FALSE>>, <<FALSE, FALSE, TRUE, TRUE, FALSE>>, <<0, 0, 0, 2, 0>>)

MCSet(indicators, signals, backtest) ==
  "indicators" :> indicators @@ "signals" :> signals @@ "backtest" :> backtest
MCSignals == [height |-> 5]
MCScored(score) == MCSet(MCIndicators, MCSignals, MCBacktest(MCPlain, score))
MCFailing == {MCSet(Fails, MCSignals, Fails), MCSet(MCBoth, Fails, Fails),
              MCSet(MCBoth, MCSignals, Fails)}

MCSettings(stage, keep) == [stage |-> stage, keep |-> keep]
MCEverything == MCSettings("performance", "all")
MCAllSettings == {MCSettings(stage, keep) : stage \in UpTo("performance"), keep \in {"all", "stage"}}

MCBatch(warmup, settings, params) ==
  [entry |-> "batch", pack |-> MCPack(warmup), settings |-> settings, params |-> params]

MCCourses ==
  {MCBatch(warmup, MCEverything,
           <<MCSet(MCBoth, MCSignals, MCBacktest(MCRows(held, down, <<0, NaN, -1, 0, 3>>), 1))>>) :
     held \in [1..5 -> BOOLEAN], warmup \in {0, 1, 3, 4},
     down \in {<<FALSE, TRUE, TRUE, FALSE, TRUE>>, <<FALSE, FALSE, FALSE, FALSE, FALSE>>}}
MCBatches ==
  {MCBatch(0, settings, <<MCScored(1), set, MCScored(2)>>) :
     settings \in MCAllSettings, set \in MCFailing \cup {MCScored(3)}}
-----------------------------------------------------------------------------
MCDim(min, max, step, dtype, value) ==
  [min |-> min, max |-> max, step |-> step, dtype |-> dtype, value |-> value]
MCLine == <<MCDim(0, 4, 2, "float", 2)>>
MCPlane == <<MCDim(0, 2, 0, "boolean", 2), MCDim(1, 3, 3, "integer", 2)>>
MCTuples(dims) == Tuples(Inside(dims))

MCOutcomes == {MCScored(1), MCScored(2)}
MCRankings(dims, sets) == [MCTuples(dims) -> sets]
MCNumbers(dims) == MCRankings(dims, MCOutcomes \cup {MCScored(3)})
MCGaps(dims) == MCRankings(dims, MCOutcomes \cup {MCScored(NaN)})
MCBroken(dims) == MCRankings(dims, {MCScored(1), CHOOSE f \in MCFailing : TRUE})
MCSame == [values \in MCTuples(MCLine) |-> MCScored(1)]

MCConfig(n, explore, topK, maxSamples, minSamples, maxRounds, patience) ==
  [n |-> n, explore |-> explore, topK |-> topK, sigma |-> 10, maxSamples |-> maxSamples,
   minSamples |-> minSamples, maxRounds |-> maxRounds, patience |-> patience, returnTopK |-> 1]

MCSearch(settings, dims, config, params) ==
  [entry |-> "optimize", pack |-> MCPack(1), settings |-> settings, dims |-> dims,
   config |-> config, params |-> params]
MCOptimize(dims, config, params) == MCSearch(ForEvaluation, dims, config, params)

MCOptimizations ==
  {MCOptimize(MCLine, config, params) :
     config \in {MCConfig(2, 50, 100, 5, 0, 3, 1), MCConfig(2, 0, 70, 99, 4, 3, 0)},
     params \in MCNumbers(MCLine)}
    \cup {MCOptimize(MCLine, config, params) :
            config \in {MCConfig(1, 100, 100, 99, 2, 4, 2), MCConfig(1, 100, 100, 0, 0, 3, 1)},
            params \in MCNumbers(MCLine) \cup MCGaps(MCLine) \cup MCBroken(MCLine)}
    \cup {MCOptimize(MCLine, MCConfig(2, 50, 100, 99, 0, 2, 1), params) : params \in MCGaps(MCLine)}
    \cup {MCOptimize(MCPlane, MCConfig(2, 50, 100, 99, 0, 2, 1), params) :
            params \in MCRankings(MCPlane, MCOutcomes)}
    \cup {MCSearch(MCEverything, MCLine, MCConfig(1, 0, 0, 9, 0, 2, 0), MCSame),
          MCOptimize(MCLine, MCConfig(0, 0, 0, 9, 0, 2, 0), MCSame),
          MCOptimize(<<>>, MCConfig(1, 0, 0, 9, 0, 2, 0), MCSame)}
-----------------------------------------------------------------------------
MCWide == <<MCDim(1, 6, 2, "float", 4)>>
MCNarrow == <<MCDim(0, 4, 2, "float", 0)>>

MCSensitivity(dims, n, distribution, ratio, params, centre) ==
  [entry |-> "sensitivity", pack |-> MCPack(1), settings |-> ForEvaluation, dims |-> dims,
   config |-> [n |-> n, distribution |-> distribution, ratio |-> ratio],
   params |-> params, centre |-> centre]

MCSensitivities ==
  {MCSensitivity(MCWide, n, "uniform", 50, params, MCScored(1)) :
     n \in {0, 1, 3, 4}, params \in MCNumbers(MCWide)}
    \cup {MCSensitivity(MCWide, n, "uniform", 50, params, MCScored(1)) :
            n \in {2, 3}, params \in MCGaps(MCWide) \cup MCBroken(MCWide)}
    \cup {MCSensitivity(dims, 2, "normal", 10, params, centre) :
            dims \in {MCLine, MCNarrow}, params \in MCRankings(MCLine, MCOutcomes),
            centre \in MCOutcomes \cup MCFailing}

MCCalls == MCCourses \cup MCBatches \cup MCOptimizations \cup MCSensitivities
=============================================================================
