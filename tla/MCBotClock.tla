----------------------------- MODULE MCBotClock -----------------------------
(***************************************************************************)
(* TLC instances of BotClock: two symbols, three periods of twelve  *)
(* seconds, of which the first six (0..5) are the window as in the code.   *)
(***************************************************************************)
EXTENDS BotClock

Pair == <<"a", "b">>

\* A cycle of both symbols and its sleep fit the window: 2 + 3 + 1 = 6.
ShortRuns == [s \in {"a", "b"} |-> IF s = "a" THEN 0..2 ELSE 0..3]
=============================================================================
