------------------------------ MODULE Pipeline ------------------------------
(***************************************************************************)
(* From a set of parameters to a result pack: indicators, signals, the     *)
(* backtest and its performance, one stage after the other, from scratch   *)
(* or from frames that are handed in (pipeline, result_pack_builder).      *)
(*                                                                         *)
(* What a stage computes is in the parameters: for a set of parameters it  *)
(* is a frame, or Fails.  An indicator frame is [width, height, time], the *)
(* number of its columns, its rows and its time columns; signals are       *)
(* [height]; a backtest is [height, leading, rows, score]: whether it has  *)
(* the internal column has_leading_nan, its rows as Performance has them,  *)
(* and its risk metric.                                                    *)
(*                                                                         *)
(* pack is [base, heights, times, warmup]: the heights of the sources, the *)
(* times of the base rows.                                                 *)
(***************************************************************************)
EXTENDS Performance

CONSTANTS
  Fails,   \* a stage gave an error
  Nothing  \* an artifact that was not kept

ASSUME OutcomeAssumption == Fails \notin Metric /\ Nothing \notin Metric \cup {Fails}

Stages == <<"indicators", "signals", "backtest", "performance">>
StageOf(name) == CHOOSE n \in DOMAIN Stages : Stages[n] = name
UpTo(name) == {Stages[n] : n \in 1..StageOf(name)}

(* compile_public_setting_to_request: a public call starts from scratch,   *)
(* and one for the indicators keeps them in either case.                   *)
Compiled(settings) ==
  [from |-> "scratch", to |-> settings.stage, given |-> <<>>,
   keep |-> IF settings.stage = "indicators" THEN "stage" ELSE settings.keep]
Evaluation == [from |-> "scratch", to |-> "performance", given |-> <<>>, keep |-> "stage"]

MapHeight(pack) == pack.heights[pack.base]

(* A source without indicators has no frame.                               *)
Normalized(frames) ==
  LET empty == {k \in DOMAIN frames : frames[k].width = 0 /\ frames[k].height = 0}
  IN  [k \in DOMAIN frames \ empty |-> frames[k]]

RawIndicators(pack, frames) ==
  \A k \in DOMAIN frames :
    frames[k].time = 0 /\ k \in DOMAIN pack.heights /\ frames[k].height = pack.heights[k]
FrameHeight(pack, frame) == frame.height = MapHeight(pack)

(* What is checked of the frames handed in.                                *)
Accepts(pack, request) ==
  /\ (request.from # "scratch" /\ request.keep = "all") =>
       RawIndicators(pack, request.given["indicators"])
  /\ (request.from = "signals" \/ (request.from = "backtest" /\ request.keep = "all")) =>
       FrameHeight(pack, request.given["signals"])
  /\ request.from = "backtest" => FrameHeight(pack, request.given["backtest"])

(* The artifacts up to the stage asked for, computed or as handed in.      *)
Skipped(request) == IF request.from = "scratch" THEN {} ELSE UpTo(request.from)
ComputedBacktest(param, request) ==
  IF "backtest" \in Skipped(request) THEN request.given["backtest"] ELSE param["backtest"]
Artifact(pack, param, request, name) ==
  CASE name = "performance" -> Analyzed(pack, ComputedBacktest(param, request))
    [] name \in Skipped(request) -> request.given[name]
    [] name = "indicators" -> Normalized(param[name])
    [] OTHER -> param[name]

Executes(pack, param, request) ==
  /\ Accepts(pack, request)
  /\ \A name \in (UpTo(request.to) \ Skipped(request)) \ {"performance"} : param[name] # Fails
  /\ request.to = "performance" => FrameHeight(pack, ComputedBacktest(param, request))

Keeps(request) == IF request.keep = "all" THEN UpTo(request.to) ELSE {request.to}
Output(pack, param, request) ==
  [name \in UpTo("performance") |->
     IF name \in Keeps(request) THEN Artifact(pack, param, request, name) ELSE Nothing]
-----------------------------------------------------------------------------
(* The result pack.                                                        *)

WithTime(frames) == [k \in DOMAIN frames |-> [frames[k] EXCEPT !.time = @ + 1]]
WithoutInternal(backtest) == [backtest EXCEPT !.leading = FALSE]

Packs(pack, output) ==
  /\ \A name \in {"signals", "backtest"} :
       output[name] # Nothing => FrameHeight(pack, output[name])
  /\ output["indicators"] # Nothing => RawIndicators(pack, output["indicators"])

(* The sources a result knows: the base, and those with indicators.        *)
Known(pack, frames) ==
  {pack.base} \cup (IF frames = Nothing THEN {} ELSE DOMAIN frames)

ResultPack(pack, output) ==
  [name \in UpTo("performance") \cup {"known"} |->
     IF name = "known" THEN Known(pack, output["indicators"])
     ELSE IF output[name] = Nothing THEN Nothing
     ELSE CASE name = "indicators" -> WithTime(output[name])
            [] name = "backtest" -> WithoutInternal(output[name])
            [] OTHER -> output[name]]

(* strip_indicator_time_columns: back to raw indicators.                   *)
Strippable(frames) == \A k \in DOMAIN frames : frames[k].time = 1
StrippedNothing(frames) == frames
Stripped(frames) == [k \in DOMAIN frames |-> [frames[k] EXCEPT !.time = 0]]

(* evaluate_param_set, and the metric read off it: 0 where there is none.  *)
Score(pack, param) ==
  IF ~ Executes(pack, param, Evaluation) THEN Fails
  ELSE LET found == Artifact(pack, param, Evaluation, "performance")
       IN  IF found.counted THEN found.score ELSE 0

(* run_single_backtest.                                                    *)
SinglePack(pack, param, request) ==
  IF Executes(pack, param, request) /\ Packs(pack, Output(pack, param, request))
  THEN ResultPack(pack, Output(pack, param, request)) ELSE Fails
=============================================================================
