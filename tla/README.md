# Verification of pyo3-quant

TLA+ models of the backtest engine and its entry points, the walk-forward driver, the data
planner, the scanner and the trading bot of pyo3-quant; the TLC configurations that check them on small instances; and
theorems about them that the TLAPS proof system checks for every value of the constants.

Paths below are relative to the repository. `engine` stands for `src/backtest_engine`.

* [1. The system](#1-the-system)
* [2. Modules and code](#2-modules-and-code)
* [3. What is checked](#3-what-is-checked)
* [4. What is proved](#4-what-is-proved)
* [5. Disagreements between code and documentation](#5-disagreements-between-code-and-documentation)
* [6. What is not modelled](#6-what-is-not-modelled)
* [7. Plan](#7-plan)

To check one run: `tlc -config Positions.cfg MCPositionMachine`. To check one module's proofs:
`tlapm DataPack_proofs.tla`. `PROJECT.json` lists the runs, the theorems, the source
lines behind each definition, and for each checked property a mutated definition under
which it fails.

## 1. The system

The repository is a quantitative trading engine: Rust for the computation, Python for
configuration, orchestration, a scanner and a trading bot. Most of it is deterministic and
sequential. What is hard is (a) one kernel step that combines a dozen rules whose order
matters, (b) index arithmetic over rows of several sources that must agree across modules,
(c) a bot and a scanner that talk to an exchange and a data source they do not control,
(d) searches that merge, rank and stop over rounds of parallel evaluations.

| Component | State | Operations | What is hard, and what makes it correct |
|---|---|---|---|
| **Backtest kernel: positions** `engine/backtester/state` | `BacktestState`: prices of both sides, thresholds, anchor, triggers, frame label | one row: clear, strategy exits, entries behind the gap check, trailing stops, risk triggers | Order of the rules; fields cleared one by one; stops in the bar and at the next open. One position at a time; nothing survives a closed position; a breached stop closes; a position leaves only for a cause; stops only tighten. |
| **Backtest kernel: account** `capital_calculator.rs` | balance, equity, fees, peak | settle exits of the row, value the position, fee | Two exits in a row in the right order, an exit paid once, the end when the account is used up. |
| **Schedule of parameters** `schedule_*.rs`, `params_selector.rs`, `output_schema.rs` | cursor into the segments; allocated columns | validate, select a row's parameters, write a row | The cursor only moves forward by one; columns are the union over segments. Every row is run under its own segment, no column is missing. |
| **Walk forward: plan** `engine/walk_forward/data_splitter.rs` | windows laid so far | lay windows, project each onto every source, join | Index arithmetic at the ends and the starts. No window trains on what it tests; every row of the joined axis is tested once; each pack starts warm. |
| **Walk forward: execution** `runner.rs`, `window_runner.rs`, `injection.rs`, `stitch/replay.rs` | position handed on; results of the windows | optimise, natural run, injected exit and entry, final run, replay | The hand-over is written into signals at fixed rows. The replay recomputes the ATR. No position outlives its parameters; the replay repeats the windows as far as its ATR does. |
| **Fetch planner** `engine/data_ops/fetch_planner` | per source: pending request, stage, rounds | ask, ingest an answer, widen the request, finish | An exchange that answers short, lists late, closes and pages. A complete plan is enough; a refusal is because data is missing. |
| **Packs, slices, projection** `engine/data_ops` | series per source, mapping, ranges | build, slice, extract the active part | Renumbering of several series at once. What a row sees does not change. |
| **Capital rebuild** `engine/data_ops/capital_rebuild.rs` | tables | rebuild the capital columns after a join | Column arithmetic. Not modelled. |
| **Signal generator** `engine/signal_generator` | columns and masks of the rows so far | evaluate comparisons and groups, suppress entries in the warm-up | Missing values, negation, crossings, a flag kept over rows, sources of another interval. A row fires on known values, and on bars that are over. |
| **Pipeline, entry points, result packs** `engine/pipeline`, `top_level_api.rs`, `result_pack_builder.rs` | artifacts | run stages up to a stop stage or from given frames, keep what the retention rule says; a batch | What is kept can be given back. A result resumes to itself. |
| **Performance** `engine/performance_analyzer` | none | count trades, spans, drawdown length | One scan with flags over the rows. The spans are the stretches there are. |
| **Optimizer** `engine/optimizer` | best sample, best k, patience | rounds of sampling and parallel evaluation, merge, stop | Metrics that are no numbers, ties, stops. The best handed out is the best seen; the search ends for a cause. |
| **Sensitivity** `engine/sensitivity` | none | jitter, evaluate, summarise | Failed samples, positions of quantiles. |
| **Indicators** `engine/indicators` | none | numeric series | Floating-point functions: not modelled. |
| **Action resolver** `engine/action_resolver` | none | turn a row's label into calls | The order of the calls. Part of `BotExecution`. |
| **Trading bot: execution** `py_entry/trading_bot/_bot_signal_execution.py`, `_bot_process.py`, `_runtime_checks_logic.py`, `_executor_actions.py`, `optimization.py` | cache of positions, last execution | orphan check, duplicate check, sizing, calls | The exchange moves between any two calls; calls fail with or without effect; restarts. One position, protected, never opened over another. |
| **Trading bot: clock** `py_entry/trading_bot/bot.py` | period of each symbol's last run | loop, window, stamp | A period is executed at most once, and not lost. |
| **Scanner** `py_entry/scanner` | last bar scanned per stream, throttle, batch, quiet time | poll, scan, batch, report | Bars come in at any moment, calls fail, reports are deferred. A bar is scanned once, none is forgotten, every signal is reported. |
| **Runner, display, strategy hub, data generator, tools** | none or files | orchestration, charts, examples | Not modelled. |

How they interact:

```
 fetch planner ──► data pack ──► indicators ──► signals ──► backtest kernel ──► performance
   (DataPack, FetchPlanner)            (SignalGenerator)    (PositionMachine,    (Performance)
                                                             Backtester, ParamSchedule)
                └──────────── one pipeline run: Pipeline ───────────────────────────┘
                                      ▲          │
 optimizer, sensitivity, batch ───────┘          ▼
   (ParamSearch, Engine)               last row's frame label ──► resolver ──► bot attempt
 walk-forward plan ──► windows                                               (BotExecution)
   (WindowPlan)        (WalkForward: signals rewritten,            bot loop       │
                        kernel run twice per window,              (BotClock)      ▼
                        then once for the joined axis)                     exchange (external)

 scanner (ScanPlan, Scanner) ◄── data source (external)
```

All of these are calls. What runs concurrently: the bot and the exchange, which share positions
and orders; the scanner and the market that brings bars; the workers that evaluate the samples of
a round, which share nothing until their results are collected in order.

## 2. Modules and code

### PositionMachine

`BacktestState::calculate_position` and `main_loop.rs`. `book` holds what the Rust struct
holds, per direction (`entry`, `exit`, thresholds by kind, anchor, PSAR presence), `frame`
is the label that `FrameState::infer` gives, `par` the parameters of the row. One
`Bar` is one iteration of the loop:

| TLA+ | Rust |
|---|---|
| `Clean`, `Rows` | `preprocess_signals`: the signals a row may carry |
| `Swept`, `StrategyExits`, `TryEnter`, `AtOpen` | first part of `calculate_position` |
| `Safe`, `EntryThreshold`, `Entered` | `init_entry_with_safety_check` and its result |
| `Tighter`, `Trailed`, `NeedsAnchor` | `update_risk_thresholds` |
| `Probe`, `Crossed`, `Worst`, `Judged`, `CheckRisk` | `check_risk_exit` |
| `WhiteListed`, `Infer` | the frame label |
| `SkippedBar` | the row of an account that is used up |
| `Panic` | the `expect()` in `threshold_updater.rs:48-50` |

Abstractions. Prices are integers and thresholds are kept in units of `1/Scale`, so that a
percentage of a price is exact (the code uses floats; ties are therefore exact here). The
PSAR recurrence is replaced by an arbitrary quote on each row (`Quotes`), a superset of what it
computes. The account is the verdict `broke`, chosen freely here and computed in `Backtester`.

### Backtester

Composes the position machine with `CapitalState` and `calculate_capital` on one column of
rows (`index`). `KernelBar` is `Bar` followed by `Accounted`; `KernelSkip` is the row after the
account is used up. Money is counted in whole units and rounded down. Fees and capital are constants
because `schedule_policy.rs:33-53` refuses a schedule that changes them. `Positions == Spec`
states that the kernel implements the position machine on its own.

### ScheduleContract, ParamSchedule

`Contiguous` is `validate_schedule_contiguity`, shared with the walk-forward modules, which
must produce such schedules. `ParamSchedule` is `run_backtest_with_schedule`: `Reject` or
`Accept` a schedule, then `Advance` and `Select` as the selector does, and `Write` a row into
the columns that `Schema` allocated. Failing or panicking are phases, so that "it cannot
happen" is a property and not a modelling decision.

### WindowPlan, Projection

`Lay` adds a window while one fits, `Project` cuts the packs of a window out of the second
source, `Stitch` joins the test parts. `Projection` holds the projection of base rows onto a
source; `DataPack` uses it too.

### WalkForward

Composes windows, signals and runs. A run of the kernel is reduced to the position it holds
(`Advanced`); what prices and stops do to a position entered on a given row is a market. The natural and
the final run of a window share one, because they share the pack, the parameters and so the ATR series
(`calculate_atr_if_needed`, over the test pack). The replay has one of its own: `build_stitched_atr_by_row` computes the ATR
again over the joined rows and a lead of one period, and since an ATR starts with a mean that is then smoothed, stops,
take-profits, trailing stops and gap refusals by ATR may come out otherwise for the same entry. Which windows' parameters have
such a stop is `atr`; about entries of the other windows the two markets agree (`OnlyAtrDiffers`), and nothing else is assumed of them.
`Execute` is one window (natural run, position handed on, injected signals, final run), `Stitch` joins the signals, `Replay` is one
row of the joined run. The account is never used up here.

### DataPack, FetchPlanner

`DataPack` defines a pack as one set of bar times per source, the mapping of rows, slices and
the extraction of the active part. `FetchPlanner` is `DataPackFetchPlanner`: `Ingest` takes the answer to
the pending request and moves the source through the stages of `FetchStage`; `Finish` builds
the pack; `CutPack` and `ExtractActive` are the later cuts. The exchange is external: it has the
bars of `Listed`, and answers with the first ones that fit in the request and in a page; `Tick`
lets time pass between request and answer.

### BotExecution

One symbol: `_bot_process.py` and what it calls. `NextBar` gives the label of the bar that opened, `Start` begins an attempt,
`OrphanCheck`, `Purge`, `DuplicateCheck`, `SizeOrder` and `ExecuteAction` are its calls in the
code's order; `CallFails` makes the call at hand fail, with or without effect; `Restart` loses what is in
memory. `Market` (external) fills limit orders, triggers stops, and may act between any two calls.

### BotClock

`bot.py`'s loop over several symbols with time in seconds: `Cycle` runs or passes over the
symbol whose turn it is, `Sleep` waits for `loop_interval_sec`. The stamp of the last run is
taken when the run ends, as in `bot.py:97`. What a run does is in `BotExecution`.

### ScanPlan, Scanner, BarFeed

`ScanPlan` is what `timeframe_resolver.py` decides before the loop: active strategies, required and watched
storage keys, the base that drives the loop. `Scanner` is `scan_forever` (and `scan_once`): `Wait` is the throttler,
`NewBar` and `NothingNew` are `_collect_updated_watch_klines` for one symbol, `Scan` and `ScanFails` are `scan_symbol`,
`Flush`, `Report`, `Post` and `PostFails` the batcher and the notifier. `Breaks` is an error that ends the process,
`Arrive` (external) a bar of the market. Time passes while the program sleeps; only the seconds of the trading window
are told apart. `BarFeed` is what the scanner owes its strategies, in three variables; `ImplementsFeed` states that
`Scanner` implements it.

### SignalCondition, SignalGenerator

`SignalCondition` holds the operands (`operand_resolver.rs`), comparisons (`comparison_eval.rs`) and their offsets, as
operators over rows, with the masks for missing values; it uses the projection of `DataPack`. `SignalGenerator` is
`generate_signals`: one step per field of the template (`Generate`, `Skip`, `Refuse`), then `Suppress`. A group is listed with
the groups nested in it, the innermost first, so that `process_signal_group`, which calls itself, is a function that is recursive over the list.
Expressions are taken as parsed; values are small integers and NaN, which stands for null too.

### Performance, Pipeline, ParamSearch, Engine

`Performance` counts trades and spans of a backtest as a fold over its rows. `Pipeline` has the requests
(`Accepts`, `Skipped`), the artifacts of each stage, what is kept, and how a result pack is made of it and stripped again.
What a stage computes belongs to the parameters: a frame, or a failure. `ParamSearch` has the values of a parameter, the draws
and the ranking that the optimizer and the sensitivity test share. `Engine` has the three entry points. Each result of a
parallel batch is a step of its own, in any order; a round of the optimizer is one step, since its samples are
collected in order before they are merged: drawn, evaluated, sorted, merged.

## 3. What is checked

Eleven passing runs and one that shows a disagreement. Each question has one run; the bounds
are chosen so that the interesting cases occur, which the mutants confirm: each property
fails under a plausible bug within the same bounds.

| Run | Properties | Instance, and why it is enough |
|---|---|---|
| `positions` | `FrameWhiteListed`, `VacantSideForgets`, `EntryBarFillTraded`, `LeavesForCause`, `EntriesFollowSignals`, `BreachLeaves`, `StopsOnlyTighten` | Prices 3 to 5, flat bars at both ends and one that touches both extremes, stops at a quarter of the price, so that each stop is missed, touched exactly, crossed in the bar and jumped over by a gap. An ATR of one tick or NaN, a PSAR quote. Three sets with brackets, two with trailing stops, and a schedule that switches between a fixed and a trailing stop at any row. The rows are not bounded: the state space is finite. |
| `ledger` | `Positions`, `PaidOnce` | Prices 1, 2 and 4, so that a short loses more than its stake; five rows are enough for a reversal that is stopped out, its settlement, and the end of the account. |
| `schedules` | `NeverFails`, `RowsFollowSchedule` | Every schedule of up to two segments over rows 0 to 4, gaps, overlaps and empty segments included; ordered schedules of three; data of 1 to 4 rows. |
| `window_plan` | `OneSchedule`, `NoPeek`, `StartsWarm` | Training parts of 0 to 3 rows, tests of 2 to 4, both warm-up modes, warm-ups on and off, data of 1, 6, 9 and 14 rows (none, one or several windows, the last cut), a second source as fine as the base, half as fine, and one that begins late. |
| `walk_forward` | `KeepsParams`, `CarryEnters`, `Replayed` | Two windows of three and four rows in both orders (a boundary is between two windows), a warm-up of two, three kinds of raw signal on every row (an entry, a reversal, a contradiction that enters nothing), any windows with a stop by ATR, and a market that refuses, stops or marks at most one position near the boundary, in the windows and in the replay alike or in one of them only. |
| `fetch` | `CompleteIsEnough`, `OnlyDataIsMissing`, `CutsKeepSight`, `OpenMarketServed` | A base and sources two and three times as coarse; a market listed late or early and closed before, at or after the start; whole answers and pages of three; open bars shown or not; warm-ups fixed and optimised; two rounds of widening; three units of time may pass. |
| `signals` | `ZoneWasEntered`, `FiresOnKnown`, `ClosedBarsOnly` | Four and five base rows, a source of twice their interval and one in step with the base, aligned and not; every course of an indicator over a few values and gaps; every comparison operator, negated and not, with scalars, parameters, other sources and offset lists; groups of one, nested and empty. |
| `engine` | `ResumesAlike`, `SpansAreStretches`, `BestIsBest`, `TopKAreBest`, `StopsForCause`, `QuantilesHold` | Every course of a position over five rows behind four warm-ups; batches whose middle set fails in each stage, under every stop stage and retention; searches with one or two samples a round over every ranking of the values of a dimension, with ties, failures and metrics that are no number; sensitivity tests with 0 to 4 samples. |
| `scanner` | `ImplementsFeed`, `TakenIsScanned`, `BarsScanned`, `SignalsReported` | One symbol with two watched timeframes, or two of the same length; two symbols; throttled and not; a full scan; setups that are refused. A bar of any stream may come in between any two steps; one call may fail; the user may stop it. Windows of five seconds for one symbol and seven for two, the smallest that leave a quiet stretch beside a buffer of one. |
| `bot` | `OnePosition`, `Protected`, `ExitFlattens`, `StopOutlivesPosition` | Market orders in any interleaving with the exchange, limit orders that fill between attempts; three failures or restarts, two attempts in each of five periods: an entry, a failed repair and an exit fit. |
| `clock` | `OncePerPeriod`, `NoPeriodLost` | Two symbols, the second may raise; periods of twelve seconds, a window of the first six, runs of up to 2 and 3 seconds, forty seconds: three full periods and the one cut off. |
| `bot_naked` | `FailureIsRepaired`, violated | One period, two attempts, one failed call; see section 5. |

The less obvious properties:

* **EntryBarFillTraded**: a position entered and stopped in one row left at a price at which
  the bar traded: the gap check is exactly as strict as the fill assumes.
* **LeavesForCause / EntriesFollowSignals**: no position ends without an exit signal or a breached
  stop; an entry that is signalled and not stood in the way of is made at the next open or reported as gap-blocked,
  and nothing else is entered.
* **BreachLeaves**: a stop breached by a bar that did not close the position closes it at the very next open, whatever
  the signals are; no position survives a bar that breached a stop of an in-bar kind.
* **PaidOnce**: the account changes by an exit exactly when the exit is made, also when a row closes the old position and the
  reversal that replaced it.
* **Replayed**: the joined replay holds on each row what the window's own run held, except in
  a window before which an entry was signalled on the last row of the window before (no window executes it), and in
  the first window when its first row signals one (the replay does not process its first two rows). A window with a stop by
  ATR may be left from the row on which its ATR and the replay's first disagree about an entry it was signalled (`Differs`); the
  next window starts afresh, and a window without such a stop is repeated to its end.
* **CompleteIsEnough**: in a complete plan every base row sees a bar of every source, up to the
  last, and before the first traded row there is the warm-up of every value an optimised parameter may
  take; when answers are not cut to pages, as many bars as were asked for follow it.
* **OnlyDataIsMissing / OpenMarketServed**: with whole answers a plan never loses an end that an
  earlier request had covered, and what is complete is built (but for a base of one bar); a market that is open throughout is served.
* **StopOutlivesPosition**: no call of the bot takes the stop away and leaves the position.

* **ImplementsFeed / TakenIsScanned**: a bar is scanned at most once and never before it came in; one that was taken up
  is given up only in a step in which a call failed or the program ended. `_scan_runtime_helpers.py:87` remembers a bar before
  its scan, so that a failed call does lose it: the property says that nothing else does.
* **BarsScanned / SignalsReported**: liveness of the loop. Activity defers a report; it is made all the same, because
  each window ends with a quiet stretch longer than the buffer.
* **ZoneWasEntered**: the flag that `x>` and `x<` keep over rows, missing values included, against its meaning without a flag.
* **FiresOnKnown**: missing values neither fire a comparison nor its negation, and nothing known is masked.
* **ClosedBarsOnly**: blanking every bar that is not over when the row's own bar is over changes no signal (see section 5 for the
  one exception).
* **ResumesAlike**: handing the frames of a result back, from the signals or from the backtest on, gives the same result.
* **BestIsBest / TopKAreBest / StopsForCause**: what is merged from round to round, against the whole history of samples.

Fairness. `FetchPlanner` assumes `WF(Ingest \/ Finish)`: the caller's loop asks until the
planner is complete or refuses, as every caller in the repository does; `Tick` is not
fair. `Scanner` assumes `WF(Step)`, the program's single thread goes on until it ends, and `WF` of each stream's arrivals,
without which nothing new comes; failures, the user and errors are not fair, and failures are bounded. The other specifications
state safety only: nothing in `bot.py` guarantees that the process, or the exchange, goes on.

Deadlock checking is off where the system stops: at the end of the data, of a call, of
a panic, or of the modelled time.

Bounds that exist only for TLC: `Length` of a ledger run, `MaxFailures`, `MaxAttempts`, `MaxPeriods` of the bot,
`MaxTime` of the clock, `Horizon` of the planner, `Faults` of the scanner, `MaxRows` of the window plan. `Buffer`, `Tries` and the
window of a scanner's setup scale down what the configuration says; `SortsInPlace` stands for the twenty elements up to which
Rust's sort is an insertion sort.

## 4. What is proved

Forty-eight theorems in eight modules, for all values of the constants that satisfy the named
assumptions.

| Module | Theorem | Property |
|---|---|---|
| `Backtester_proofs`, of `PositionMachine` | `TypesAreCorrect` | `TypeOK`; without a change of parameters no stop is NaN |
| | `FramesAreWhiteListed` | `FrameWhiteListed` |
| | `PositionsAreSingle` | long and short are never held at once |
| | `VacantSidesForget` | `VacantSideForgets` |
| | `StopsTighten` | `StopsOnlyTighten` |
| | `BreachesLeave`, `ExitsHaveACause` | `BreachLeaves`, `LeavesForCause` |
| | `EntriesAreWanted`, `EntryBarFills` | `EntriesFollowSignals`, `EntryBarFillTraded` |
| | `FixedParamsNeverPanic` | the `expect()` holds when the parameters stay |
| `Backtester_proofs`, of `Backtester` | `KernelImplementsPositions` | `Positions`: the kernel with its account implements the position machine |
| | `KernelHoldsOnePosition`, `AccountsAreSound`, `ExitsArePaidOnce`, `ExitsAreInOrder`, `FeesAdd` | `AccountOK`, `PaidOnce`, `SettledInOrder`, `FeesAddUp` |
| `ParamSchedule_proofs` | `TypesHold`, `AcceptedSchedulesRun`, `RowsUseTheirSegment`, `PurseIsShared`, `DoneTablesAreComplete` | `NeverFails`, `RowsFollowSchedule`, `DoneIsComplete` |
| `WindowPlan_proofs` | `TestPartsAreOneSchedule`, `NoWindowPeeks`, `AllRowsAreUsed`, `PacksStartWarm` | `OneSchedule`, `NoPeek`, `RowsUsed`, `StartsWarm` |
| `WalkForward_proofs` | `PositionsKeepTheirParams`, `CarriedPositionsEnter`, `ReplayRepeatsTheWindows` | `KeepsParams`, `CarryEnters`, `Replayed` |
| `TradingBot_proofs`, of `BotExecution` | `AtMostOneUnit`, `PositionsAreProtected`, `StopsOutlivePositions`, `ExitsFlatten` | `OnePosition`, `Protected`, `StopOutlivesPosition`, `ExitFlattens` |
| `TradingBot_proofs`, of `BotClock` | `PeriodsRunOnce`, `NoPeriodIsLost` | `OncePerPeriod`, `NoPeriodLost` |
| `DataPack_proofs`, of `FetchPlanner` | `CompletePlanIsEnough`, `PlannedForDataOnly`, `CutsKeepTheirSight` | `CompleteIsEnough`, `OnlyDataIsMissing`, `CutsKeepSight` |
| `DataPack_proofs`, of `SignalGenerator` | `ZonesWereEntered`, `SignalsAreKnown`, `SignalsReadClosedBars` | `ZoneWasEntered`, `FiresOnKnown`, `ClosedBarsOnly` |
| `Engine_proofs` | `BestIsBestHolds`, `StopsForCauseHolds`, `TopKAreBestHolds`, `QuantilesAlwaysHold`, `ResumesAlikeHolds`, `SpansAlwaysAreStretches` | `BestIsBest`, `StopsForCause`, `TopKAreBest`, `QuantilesHold`, `ResumesAlike`, `SpansAreStretches` |
| `Scanner_proofs` | `ScannerFeeds`, `TakenBarsAreScanned` | `ImplementsFeed`: the scanner implements `BarFeed`; `TakenIsScanned` |

The arguments.

* **PositionMachine.** The frame label is right because of the shape of the book: `IInv` joins the types
  with what combinations of entry and exit prices each stage of a row leaves. A row is followed stage by stage
  (cleared, exits, entries, trailing, triggers), and each stage has a lemma that says which
  shape it turns into which. That the label is white-listed is then a case split over shapes, not
  over histories. `FixedIInv` adds `Armed`: if a trailing stop is on, an open side has its anchor;
  the entry establishes it under the parameters that the later rows still have. That is
  precisely what a switching schedule breaks (section 5).
  `HInv` says that an open side is marked as hit exactly when a stop was triggered and that none of an in-bar kind was. That
  the one price the code tests decides for all the prices of the bar (`ProbeDecides`) turns the mark into the property's
  word, a breach; a held side then leaves at the next open exactly when it is marked or signalled out (`LeavesAtOpen`). An entry
  can be made exactly when nothing is held that stays (`CanEnterAfterExits`), on a side that forgot every older stop, so that each
  stop of the new position passed the gap check (`EntersAtOpen`): its fill on the entry bar lies between the open and the extreme.
* **Backtester.** `KInv` is `IInv`, `AccountOK`, and `Paid(book)`: the entry prices in the book are
  positive, so that a settlement never divides by zero. `PaidOnce` follows from the lemma `Traced`: a
  position in the book was held on the row before or entered on this one. The refinement: a row without a position in
  its book leaves the account as it is, so that the verdict of the account moves as the
  position machine lets `broke` move; a row that is skipped is `SkippedBar`.
* **ParamSchedule.** `IInv`: the schedule was checked, the cursor is not ahead of the row, and
  what has been written is what the row's segment wants. That segments are ordered is derived from
  the contiguity of neighbours by the least-number principle.
* **WindowPlan.** Each window starts one test length after the window before it; the invariant
  says so for the windows laid so far, and the last one is cut to the data. `PacksStartWarm` adds that the rows a range maps to
  have a least and a greatest one (`MappedBounded`, from the least-number principle), which the projection then chooses.
* **WalkForward.** The replay's invariant: on the row before the last one of each closed window the joined signals
  are the forced exit, so that a position that is open past the boundary would have to
  have been entered after it. For the other two theorems a window's run is taken apart: it is a function that is recursive over
  rows, and that it exists and obeys its equation is shown by the least-number principle (`RunExists`, `RunRows`). The rows of a
  warm-up carry no signal but the inherited entry on their last row, so that nothing is held when the window begins (`QuietRun`) and the
  inherited position meets no other. Two runs with the same signals and the same start are alike to the end (`AlikeRuns`): the natural run and the published one up to
  the forced exit. The replay starts a window as the published run does, with nothing held; what it then holds was signalled in that
  window (`Signalled`), and as long as the two markets treat such entries alike both take the same step (`NotDiffering`, `AlikeAdvance`).
  Once they differ they have differed for the rest of the window (`DiffersOn`). `AllInv` joins
  this to the replay's invariant: each executed window is a published run (`Published`), and the replay's row is that window's unless they differ (`Repeats`).
* **BotExecution.** `Inv` says where an attempt can stand (`PlanOK`: the actions left are a suffix of a resolved list, one of
  seven), what it relies on at the exchange before its next call (`Ready`: flat before an entry, no position before a
  cancellation), that one unit at most is held or on order (`ExchangeOK`), and that without a failure every exposure
  has a stop but between an entry and its stop (`Guarding`). The theorems assume `NoRacingLimits`: limit entries do not fill within an attempt (section 5
  says what happens when they do). They hold for any number of failed calls, with or without effect, restarts, attempts and periods.
* **FetchPlanner.** `Planned` says of every source, by its stage, how far its request reaches and what of the listed bars its
  last answer held: a later request starts no later and asks for no fewer bars (`Grows`), and an answer is the stretch of listed bars
  from its start on (`ReplyIsPrefix`), so that what was covered stays covered while answers are whole. The base has its
  anchor, the first bar it ever answered, in every later answer. Where pages cut the answers `Planned` claims only what
  the planner looks at again before it goes on. `Kept`, the second invariant, says that the pack fits the plan (`Fits`): its bars
  are bars of the plan, its warm-ups count to one row that is traded, and each base row sees the bar it saw in the plan. A slice
  and the cut of the warm-ups preserve it (`SliceFits`, `ActiveFits`), for each source keeps a stretch of its rows that
  starts at or before the bar its first row sees. All of it is
  counting: the row of a time is the number of bars before it, and the lemmas at the head of the module relate it to the order of the bars.
* **SignalGenerator.** `SignalInv` says that the column of each field done shows what its group says, without the warm-up once it
  is silenced; the rest is about rows. The bar a row reads of another source is the one it sees, or one further back (`PlaceFacts`), and
  one further back is over when the row is (`ReadIsOver`): bars lie at least an interval apart. So the call and the one with the open bars blanked
  show a row the same operands, up to it (`SeriesKnown`), and what looks at no later row comes out the same: comparisons
  (`ComparisonAlike`; the flag of a zone by the least row on which it would differ), conditions (`ConditionKnown`) and
  groups, by the first place in the list that would differ (`GroupKnown`). A row of comparisons is masked exactly when it lacks what it needs
  (`MaskMeans`), and every offset of every operand has its turn in one (`KnownMeans`). The flag and `Entered`
  obey the same equation row by row (`EnteredStep`, `StaysEntered`).
* **Engine.** Two invariants for the optimizer. `SearchInv`: each round recorded its leader, the highest metric so far and its sorted
  samples, none came after the search was to stop, and the budget is overdrawn by less than a round. A history has stalled
  exactly when its last rounds brought nothing (`FruitlessIsStalled`, through the recorded peaks). `KeepsInv`: among what is kept,
  as many samples reach any given metric as among all that were evaluated, as far as they fit. A position in the list says nothing
  after a merge, a count does: cutting a sorted list, merging in another and evaluating a further round each preserve
  it (`CutKeepsBest`, `MergeKeepsBest`, `ReachGrows`); that sorting only moves samples follows from the ranks (`RankedSorts`). The
  sensitivity test counts the two sides of a place in a sorted sequence (`QuantilePlace`). For a batch, `WholePack` says part by part what a
  full result pack is, and stripping it undoes the time column, so that each stage finds what it would have computed. The scan of
  the durations is followed row by row (`Walk`): after each row the stretches that are over are listed in order and the one
  that reaches the row is current (`WalkOn`, `WalkOff`, `WalkEnds`); that none is missing is counted by their first
  rows (`StretchCount`). The longest drawdown is compared with the same stretches (`DrawdownHolds`).
* **Scanner.** `Inv` ties the bars about to be scanned to those taken up and not yet covered, and the remaining symbols of a
  full scan to those that have had no scan. The refinement is then one case per step: polling takes, scanning covers,
  the rest stutters.
* **BotClock.** `OncePerPeriod` needs no assumption on load. `NoPeriodIsLost` assumes
  `CycleFits`: the runs of all symbols of a cycle and its sleep fit in the trading window, no run
  reaches from the window into the next period, and none raises; without it periods are lost
  (section 5). In the run `clock` the last symbol may raise, which skips nobody.

Assumptions on constants are named `...Assumption` in the module that declares the constant;
TLC evaluates them in each run. They say that parameters are validated ones
(`BacktestParams::validate`), bars are ordered (low ≤ open, close ≤ high), prices are positive
(`Backtester`), `Warmup` is positive (the splitter forces at least one bar), the scanner's symbols are distinct and
each of its strategies uses a timeframe, the planner's inputs are those its constructor accepts with finite histories of bars
an interval apart, metrics are whole numbers or NaN (`MetricAssumption`), the outcomes of a stage are not
taken for results (`OutcomeAssumption`), a call of `generate_signals` has a pack that was built, a value in each column for each bar of its source, and
comparisons as the parser returns them (`SignalsAssumption`), the calls of an entry point are well-formed (`CallAssumption`: frames have the columns of
their stage and as many rows as the pack has times, which never fall (`extract_time_values`), counts are unsigned, every set a search may draw has its metric), and the sentinels (`None`, `NaN`) are no numbers.

Only model-checked: liveness (`OpenMarketServed`, `BarsScanned`, `SignalsReported`), which is out of the provers' reach. Every
safety property of a passing run is a theorem.

Proved and not run on an instance of their own: `TypeOK`, `AccountOK`, `SettledInOrder`, `FeesAddUp`, `RowsUsed`, `DoneIsComplete`.

## 5. Disagreements between code and documentation

Shown by the run:

* **`bot_naked`** — the entry succeeds, the stop fails (or the bot restarts in between): the next attempt
  finds the position, takes the signal for a duplicate and drops the whole row, stop included
  (`_bot_signal_execution.py:76`), whereas `doc/bot/02_callbacks_spec.md:170` promises that what
  was given up is tried again. The run has one period of market orders, a single failed call that has no effect, and an exchange that does
  nothing between the calls, so that its trace is this one; a period whose label no longer asks for a stop is not held against the code.

Noticed while modelling, without a run of their own:

* Bot. The duplicate check reads the positions that the orphan check remembered
  (`optimization.py:152`): a limit entry that fills between the two is not seen, against
  `01_bot_design_spec.md:63`. Hence limit orders fill between attempts only in the `bot` run. A bar without
  actions returns before the orphan check (`_bot_signal_execution.py:37`), against
  `04_runtime_checks_spec.md:62`. A gap-blocked row may have closed the other side, and the
  close is not among the resolved actions (`resolver.rs:78`, `03_parser_spec.md:61`).
* Clock. One symbol that raises ends the cycle (`bot.py:107`) and one that is slow makes those
  behind it miss the window (`bot.py:130`), against `01_bot_design_spec.md:68`; a run that ends in the next
  period stamps that one (`bot.py:97`).
* Kernel. `threshold_updater.rs:48-50` expects that the entry stored the anchor. The entry stores it only if a trailing
  stop is on in *its* row's parameters, and `schedule_policy.rs` admits a schedule that switches one on later: `Panic`. Only the public
  `run_backtest_with_schedule` can reach it: in walk forward no position outlives its parameters (`PositionsKeepTheirParams`).
  A gap-blocked row shows prices (`position_calculator.rs:82`), against
  `state_machine_constraints.md:110`. The trailing extreme starts at the signal bar and not at
  the entry price (`gap_check.rs:177`), against `risk_management.md:12`.
* Ledger. The cumulative fee can fall when a short loses more than twice its stake (the tests
  accept it, `test_fee.py:276-280`). The comment at `capital_calculator.rs:93` ("balance =
  prev_balance * (1 + trade_pnl_pct)" always) does not hold once the balance is clamped at zero.
* Walk forward. An entry signalled on the last row of a window is executed by the replay only (`injection.rs:100`), in the next
  window and under its parameters, where it keeps the inherited position from being reopened; the specification of the segmented
  backtest says that the boundary is fixed in the signals. `Replayed` excepts these windows. The tests read `has_cross_boundary_position` of a window as "inherited"
  (`test_wf_signal_injection_contract.py:193-221`), the code sets it when the window itself ends
  with a position (`window_runner.rs:109`). With a stop by ATR the joined result may differ from the windows' own, because
  `replay.rs:164-180` takes the ATR over another stretch of rows than they did. The first two rows of the joined replay are not
  processed, so that an entry of the first window on its first row is missing there.
* Fetch planner. With a page limit the height that is compared (`planner.rs:497`) counts warm-up
  bars, so that fewer live bars than asked for can be accepted. A base of a single bar is complete but
  refused by `finish()`. A coarser source is asked with the base's start time; if no bar of it has opened
  since, the empty answer is refused (`planner.rs:153-163`) although earlier bars exist.
  That the base has the smallest interval is checked by `finish()` only.
* Signals. A coarser source whose rows happen to be mapped one to one is read in place, without the delay of one bar
  (`operand_resolver.rs`), so that an open bar is read, against `doc/structure/multi_timeframe_data_integrity.md:12`; `ClosedBarsOnly`
  leaves this case out. The offsets of a zone's second bound are joined with "and" also where "or" is written. In an "or" over
  offsets one masked value silences the row. Exits are not suppressed in the warm-up. An empty group never fires.
* Optimizer. A metric can be NaN (an account that is used up has a Sortino of 0/0, and a Sharpe of 0). A sort by it is in no
  particular order and may panic above twenty samples; a first head that is NaN stays the best to the end. `max_samples` may be
  exceeded by almost a round. `init_samples` is read by nothing, whereas `parameter_optimizer_design.md:201` describes the warm start.
  Rounding to the step comes after clamping and can leave the range. A group name with more than one colon is silently not applied.
* Performance. The flat rows before the first trade count as a stretch without a position; `performance_analyzer.md:90-91` does not say
  whether they should.
* Sensitivity. The jitter multiplies, so that a centre of 0 never moves. The median is the upper one.
* Scanner. The bar is remembered before it is scanned: a failed call loses it until the next bar. An answer with an error status counts as
  a report that was made (`notifier.py:73`). An error that is neither a failed call nor a failed report ends the process and
  with it the batch. The default window of thirty seconds leaves a quiet stretch for the default four symbols; in general it
  has to exceed (symbols + 1) · (buffer + 1) seconds.

## 6. What is not modelled

* **PSAR, indicators**: floating-point series. Indicators enter through the length
  of their warm-up only, PSAR as an arbitrary quote.
* **Returns, ratios, drawdown depth, per-trade percentages**: functions of the account. Performance is modelled in what it counts; its
  risk metric is given with the backtest.
* **The text of signal expressions**: lexer and parser.
* **Logarithmic dimensions** of the search, the optimizer's benchmark functions, mean and deviation of the sensitivity test.
* **Joined indicator tables, the next-switch hint and the optimizer's
  priors** of walk forward: no influence on the positions. The ATR series of the replay has one: its values are not modelled, but
  that it may move any stop or refusal by ATR is (`market.joined`).
* **Capital rebuild** after a join: planned.
* **Python's own backfill** (`py_entry/data_generator/data_generator.py:72-136`): a second
  algorithm next to the Rust planner, the one in use; planned.
* **Runner, display, export, strategy hub, scanner strategies, benchmarks**: orchestration, files, charts, examples, thresholds.
* Orders that fill in part, sizes other than one unit, and several bots on one account.

## 7. Plan

Done, in this order: `PositionMachine` → `ScheduleContract`, `ParamSchedule` → `BotExecution`,
`BotClock` → `Projection`, `WindowPlan` → `Backtester` → `WalkForward` → `DataPack`,
`FetchPlanner` → `BarFeed`, `ScanPlan`, `Scanner` → `SignalCondition`, `SignalGenerator` → `Performance`,
`Pipeline`, `ParamSearch`, `Engine`.

Next, most valuable first:

1. The bot composed with the position machine: what the exchange holds against what the
   backtest believes.
2. Capital rebuild after a join, and the Python backfill beside the planner.
3. PSAR as a recurrence, checked against its bounds, in place of the arbitrary quote.
