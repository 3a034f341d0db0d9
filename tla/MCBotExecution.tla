--------------------------- MODULE MCBotExecution ---------------------------
(***************************************************************************)
(* TLC instances of BotExecution: one symbol, a few periods.               *)
(***************************************************************************)
EXTENDS BotExecution

MarketEntry == [entry |-> "market", races |-> TRUE, lossy |-> TRUE]
LimitEntry == [entry |-> "limit", races |-> FALSE, lossy |-> TRUE]

\* Market orders in any interleaving; limit orders that fill between attempts.
SafeSetups == {MarketEntry, LimitEntry}

\* Nothing happens between the calls of an attempt, and a failed call had no
\* effect.
CalmMarket == {[entry |-> "market", races |-> FALSE, lossy |-> FALSE]}
=============================================================================
