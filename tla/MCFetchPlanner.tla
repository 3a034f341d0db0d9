--------------------------- MODULE MCFetchPlanner ---------------------------
(***************************************************************************)
(* An instance of FetchPlanner for TLC: a base of one time unit per bar,   *)
(* sources of two and three, over a market that is listed late or early    *)
(* and closes at most once; answers are whole or cut to pages of three.    *)
(***************************************************************************)
EXTENDS FetchPlanner

MCInterval == [k \in Sources |-> CASE k = "b1" -> 1 [] k = "b2" -> 2 [] k = "b3" -> 3]

MCOrder == <<"b2", "b3">>

First == -24

\* The market is open from listed on, but for the closed times; a coarser
\* source has a bar for each of its intervals in which the market was open.
MCOpen(listed, closed) == (listed..Horizon) \ closed
MCHistory(listed, closed) ==
  [k \in Sources |->
     {t \in First..Horizon :
        t % MCInterval[k] = 0 /\ t..t + MCInterval[k] - 1 \cap MCOpen(listed, closed) # {}}]

MCFixed(v) == [optimize |-> FALSE, value |-> v, max |-> v]
MCTuned(v) == [optimize |-> TRUE, value |-> 1, max |-> v]

MCHistories == {MCHistory(l, c) : l \in {First, -2}, c \in {{}, -1..0, 2..3, -4..-2}}

MCInputs ==
  {[since |-> since, limit |-> limit, exec |-> exec, min_bars |-> 1, max_rounds |-> 2,
    indicator |-> [k \in Sources |-> IF k = Base THEN MCFixed(0) ELSE need],
    history |-> history, page |-> page, closed_only |-> closed_only] :
     since \in {0, 1}, limit \in {1, 2}, exec \in {MCFixed(0), MCTuned(3)},
     need \in {MCFixed(0), MCTuned(2)}, history \in MCHistories, page \in {3, 30},
     closed_only \in BOOLEAN}
=============================================================================
