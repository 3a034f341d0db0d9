------------------------- MODULE MCPositionMachine -------------------------
(***************************************************************************)
(* An instance of PositionMachine for TLC: prices 3 to 5, a quarter        *)
(* (1/Scale, Scale = 4) as the percentage, an ATR of one tick or none.     *)
(***************************************************************************)
EXTENDS PositionMachine

Candle(o, h, l, c) == [open |-> o, high |-> h, low |-> l, close |-> c]

(* Flat bars at both ends (gaps between rows) and one that touches both    *)
(* extremes.                                                               *)
MCBars == {Candle(3, 3, 3, 3), Candle(5, 5, 5, 5), Candle(4, 5, 3, 4)}

Levels(ks) == [k \in Kind |-> IF k \in ks THEN 1 ELSE 0]
Set(cs) == [c \in Classes |-> c \in cs]

Fixed(ks, atExtreme, inBar, tight) ==
    [level |-> Levels(ks), anchorAtExtreme |-> Set(atExtreme),
     triggerAtExtreme |-> Set(atExtreme), exitInBar |-> Set(inBar),
     tight |-> tight]

(* Stop loss and take profit, leaving in the bar or at the next open.      *)
BracketParams ==
    {Fixed({"sl_pct", "tp_atr"}, {"sl", "tp"}, {"sl", "tp"}, FALSE),
     Fixed({"sl_atr", "tp_pct"}, {"sl", "tp"}, {"sl"}, FALSE),
     Fixed({"sl_pct", "tp_pct"}, {}, {}, FALSE)}

(* A schedule that switches between a fixed and a trailing stop.           *)
SwitchParams == {Fixed({"sl_pct"}, {"sl"}, {"sl"}, FALSE),
                 Fixed({"tsl_pct"}, {"tsl"}, {}, FALSE)}

(* An ATR stop from the extreme, recomputed on every bar, and PSAR beside  *)
(* a percentage trailing stop and a stop loss.                             *)
TrailingParams ==
    {Fixed({"tsl_atr"}, {"tsl"}, {}, TRUE),
     Fixed({"tsl_psar", "tsl_pct", "sl_atr"}, {"sl"}, {"sl"}, FALSE)}

MCParams == BracketParams \cup SwitchParams \cup TrailingParams
============================================================================
