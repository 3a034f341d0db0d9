------------------------------ MODULE BotClock ------------------------------
(***************************************************************************)
(* When the trading bot runs its symbols (src/py_entry/trading_bot/bot.py).*)
(* One loop goes over the symbols in order, runs each that has reached a   *)
(* new period and sleeps.  Runs are serial and take time; a symbol is run  *)
(* only in the first seconds of a period and only if the period of its     *)
(* last successful run, stamped when that run ended, is an earlier one.    *)
(*                                                                         *)
(* Time is counted in seconds and all symbols have the same period.        *)
(* What a run does is in BotExecution.                                     *)
(***************************************************************************)
EXTENDS Integers, Sequences, FiniteSets

CONSTANTS
  Strategies,   \* get_strategy_params: the symbols, in order
  Durations,    \* Durations[s]: the seconds a run of symbol s may take
  Raising,      \* the symbols whose run may end in an exception
  Period,       \* seconds of a period
  Window,       \* the last second of a period in which a run may start
  Interval,     \* loop_interval_sec
  MaxTime       \* bound: the clock

Symbols == {Strategies[i] : i \in DOMAIN Strategies}

ASSUME ClockAssumption ==
  /\ Strategies \in Seq(Symbols)
  /\ \A i, j \in DOMAIN Strategies : Strategies[i] = Strategies[j] => i = j
  /\ Durations \in [Symbols -> SUBSET Nat] /\ Raising \subseteq Symbols
  /\ {Period, Window, Interval, MaxTime} \subseteq Nat
  /\ Window < Period /\ Interval > 0

VARIABLES
  now,      \* the clock
  turn,     \* the position in Strategies the loop is at
  last,     \* _last_run_times, -1 when there is none
  tried,    \* the periods in which a run of the symbol started
  served    \* the start periods of its successful runs, in order

clockVars == <<now, turn, last, tried, served>>
-----------------------------------------------------------------------------
Bucket(t) == t \div Period

\* The variant takes the first second only.
InFirstSecond(t) == t % Period = 0
InWindow(t) == t % Period <= Window

\* is_new_period; the variant forgets the last run.
IsNewPeriodAnyTime(s) == InWindow(now)
IsNewPeriod(s) == InWindow(now) /\ (last[s] < 0 \/ Bucket(now) > Bucket(last[s]))

ClockInit ==
  /\ now \in 0..Period - 1
  /\ turn = 1
  /\ last = [s \in Symbols |-> -1]
  /\ tried = [s \in Symbols |-> {}]
  /\ served = [s \in Symbols |-> <<>>]

Runs(s, d) ==
  /\ now' = now + d
  /\ tried' = [tried EXCEPT ![s] = @ \cup {Bucket(now)}]

\* A successful run is stamped at its end.
Succeed(s, d) ==
  /\ Runs(s, d)
  /\ last' = [last EXCEPT ![s] = now + d]
  /\ served' = [served EXCEPT ![s] = Append(@, Bucket(now))]
  /\ turn' = turn + 1

Fail(s, d) ==
  /\ Runs(s, d)
  /\ turn' = turn + 1
  /\ UNCHANGED <<last, served>>

\* An exception leaves _run_cycle: the symbols after this one are not visited.
Raise(s, d) ==
  /\ s \in Raising
  /\ Runs(s, d)
  /\ turn' = Len(Strategies) + 1
  /\ UNCHANGED <<last, served>>

PassOver ==
  /\ turn' = turn + 1
  /\ UNCHANGED <<now, last, tried, served>>

Visit(s) ==
  IF IsNewPeriod(s)
  THEN \E d \in Durations[s] : Succeed(s, d) \/ Fail(s, d) \/ Raise(s, d)
  ELSE PassOver

Cycle ==
  /\ turn \in DOMAIN Strategies /\ now <= MaxTime
  /\ Visit(Strategies[turn])

Sleep ==
  /\ turn > Len(Strategies)
  /\ now' = now + Interval
  /\ turn' = 1
  /\ UNCHANGED <<last, tried, served>>

ClockNext == Cycle \/ Sleep

ClockSpec == ClockInit /\ [][ClockNext]_clockVars
-----------------------------------------------------------------------------
\* Every variable holds a value of its kind, and no stamp lies in the future.
TypeOK ==
  /\ now \in Nat /\ turn \in 1..Len(Strategies) + 1
  /\ \A s \in Symbols : last[s] \in -1..now /\ tried[s] \subseteq Nat /\ served[s] \in Seq(Nat)

\* No period of a symbol is executed with success twice
\* (01_bot_design_spec.md:98).
OncePerPeriod ==
  \A s \in Symbols : \A i, j \in DOMAIN served[s] : served[s][i] = served[s][j] => i = j

\* Once the window of a period that began while the bot ran is over, every
\* symbol was run in it at least once.
NoPeriodLost ==
  \A s \in Symbols : \A b \in 1..Bucket(now) :
    now > b * Period + Window => b \in tried[s]
=============================================================================
