---------------------------- MODULE MCBacktester ----------------------------
(***************************************************************************)
(* Instance of Backtester for TLC: prices 1, 2 and 4, so that a short can  *)
(* lose more than its stake; a stop loss that leaves in the bar, and a      *)
(* schedule that switches between one that waits for the next open and a   *)
(* trailing stop.                                                          *)
(***************************************************************************)
EXTENDS Backtester

Candle(o, h, l, c) == [open |-> o, high |-> h, low |-> l, close |-> c]

MCBars == {Candle(p, p, p, p) : p \in {1, 4}}
          \cup {Candle(2, 4, 1, 2)}

Fixed(k, inBar) ==
    [level |-> [j \in Kind |-> IF j = k THEN 2 ELSE 0],
     anchorAtExtreme |-> [c \in Classes |-> FALSE],
     triggerAtExtreme |-> [c \in Classes |-> c = "sl"],
     exitInBar |-> [c \in Classes |-> inBar /\ c = "sl"],
     tight |-> FALSE]

MCSwitching == {Fixed("sl_pct", FALSE), Fixed("tsl_pct", FALSE)}
MCParams == MCSwitching \cup {Fixed("sl_pct", TRUE)}
=============================================================================
