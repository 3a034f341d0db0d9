----------------------------- MODULE MCScanner -----------------------------
(***************************************************************************)
(* An instance of Scanner for TLC: one symbol whose strategies watch the   *)
(* five-minute bars and the hourly ones, or two timeframes of the same     *)
(* length; two symbols with one strategy; full scans; setups that are      *)
(* refused.  The window leaves a quiet stretch after each symbol's bar.    *)
(***************************************************************************)
EXTENDS Scanner

MCFrame(level, name, seconds, index) ==
  [level |-> level, name |-> name, seconds |-> seconds, index |-> index]

MCTrigger == MCFrame("trigger", "5m", 30, FALSE)
MCWave == MCFrame("wave", "1h", 360, TRUE)
MCTwin == MCFrame("wave", "5m", 30, TRUE)

MCStrategy(name, frames, watch) ==
  [name |-> name, debug |-> name = "debug", frames |-> frames, watch |-> watch]

MCQuick == MCStrategy("quick", <<MCTrigger, MCWave>>, {"trigger"})
MCBoth == MCStrategy("both", <<MCTrigger, MCWave>>, {"trigger", "wave"})
MCIndex == MCStrategy("index", <<MCTwin>>, {"wave"})
MCDebug == MCStrategy("debug", <<MCTrigger>>, {"trigger"})
MCWrong == MCStrategy("wrong", <<MCTrigger, MCTwin>>, {"trigger"})
MCStray == MCStrategy("stray", <<MCTrigger>>, {"trend"})

MCSetup(symbols, registered, once, throttled, window) ==
  [symbols |-> symbols, registered |-> registered, enabled |-> {}, debug |-> FALSE,
   once |-> once, throttled |-> throttled, window |-> window]

MCOne == <<"MA">>
MCTwo == <<"MA", "SR">>

MCSetups ==
  {MCSetup(MCOne, {MCQuick, MCBoth, MCDebug}, FALSE, throttled, 5) : throttled \in BOOLEAN}
    \cup {MCSetup(MCOne, {MCQuick, MCIndex}, FALSE, TRUE, 5)}
    \cup {MCSetup(MCTwo, {MCQuick}, FALSE, TRUE, 7)}
    \cup {MCSetup(MCTwo, {MCQuick, MCBoth}, TRUE, TRUE, 5)}
    \cup {MCSetup(MCOne, {MCQuick}, FALSE, TRUE, 15)}
    \cup {MCSetup(MCOne, {st}, FALSE, TRUE, 7) : st \in {MCDebug, MCWrong, MCStray}}
=============================================================================
