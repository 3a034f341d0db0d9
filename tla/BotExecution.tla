---------------------------- MODULE BotExecution ----------------------------
(***************************************************************************)
(* The trading bot and one symbol of an exchange                           *)
(* (src/py_entry/trading_bot, action_resolver/resolver.rs).  In every      *)
(* period the backtest labels the bar that has just opened; the resolver   *)
(* turns the label into a list of actions; an attempt checks the exchange  *)
(* for orphan orders and for a position, sizes the order and then executes *)
(* the actions one by one, stopping at the first that fails.  A failed     *)
(* attempt is made again while the period's window is open.                *)
(*                                                                         *)
(* One call to the exchange is one action; the exchange (external) fills   *)
(* and triggers orders between them.  An order has one unit of size: the   *)
(* position is the signed number of units, orders never fill in part.      *)
(* A label carries one stop loss and one take profit, both left in the bar *)
(* (with none the bot places no protective order at all).                  *)
(***************************************************************************)
EXTENDS Integers, Sequences, SequencesExt, FiniteSets

CONSTANTS
  Setups,       \* the setups to run
  MaxFailures,  \* bound: calls that fail and restarts of the bot, together
  MaxAttempts,  \* bound: attempts that fit in the window of a period
  MaxPeriods    \* bound: periods

\* entry: entry_order_type of BotConfig; races: orders may fill and trigger
\* between the calls of one attempt; lossy: a call reported as failed may have
\* taken effect.
ASSUME BotAssumption ==
  /\ Setups \subseteq [entry : {"limit", "market"}, races : BOOLEAN, lossy : BOOLEAN]
  /\ {MaxFailures, MaxAttempts, MaxPeriods} \subseteq Nat

VARIABLES
  setup,      \* the setup of this run
  pos,        \* exchange: the net position, in units
  orders,     \* exchange: the open orders
  held,       \* backtest: the side it holds after the bar so far (0: none)
  label,      \* backtest: the frame state of the open bar
  prev,       \* backtest: the final frame state of the bar before
  pc,         \* bot: the next call of the attempt, "idle" between attempts
  todo,       \* bot: the actions of the attempt still to execute
  cache,      \* bot: what the symbol-scoped proxy remembers of the position
  cancelled,  \* bot: the proxy's _cancelled_all
  done,       \* bot: the period was executed with success
  attempts, failures, period

exchange == <<pos, orders>>
book == <<held, label, prev, period>>
attempt == <<pc, todo, cache, cancelled>>
vars == <<setup, exchange, book, attempt, done, attempts, failures>>

\* A label has a kind (none, hold, enter, exit, reverse, reverse_risk, risk,
\* blocked), an order a kind (limit, stop, profit), an action a call (close,
\* cancel, entry, stop, profit); each has the side it is about.
Side == {-1, 1}
-----------------------------------------------------------------------------
\* The resolver: what a label asks of the exchange

Opening(d) == <<[call |-> "entry", side |-> d], [call |-> "stop", side |-> d],
                [call |-> "profit", side |-> d]>>
\* Variants of Leaving: the orders kept; the orders cancelled before the
\* position is closed.
LeavingCloseOnly == <<[call |-> "close", side |-> 0]>>
LeavingCancelFirst == <<[call |-> "cancel", side |-> 0], [call |-> "close", side |-> 0]>>
Leaving == <<[call |-> "close", side |-> 0], [call |-> "cancel", side |-> 0]>>

\* Frame states 2 and 4 enter, 5 and 8 leave, 11 to 14 reverse; every other
\* one, a gap-blocked row included, resolves to nothing.
Actions(l) ==
  CASE l.kind = "enter"                      -> Opening(l.side)
    [] l.kind = "exit"                       -> Leaving
    [] l.kind \in {"reverse", "reverse_risk"} -> Leaving \o Opening(l.side)
    [] OTHER                                 -> <<>>

HasExit(l) == l.kind \in {"exit", "risk", "reverse", "reverse_risk"}

Enters(acts) == \E a \in Range(acts) : a.call = "entry"
Closes(acts) == \E a \in Range(acts) : a.call = "close"

\* should_trigger_orphan_check
NeedsOrphanCheck(acts) == Enters(acts) \/ Enters(Actions(prev)) \/ HasExit(prev)

\* _filter_non_entry_actions: of a list of actions only those that leave stay.
WithoutEntry(acts) == IF Closes(acts) THEN Leaving ELSE <<>>
-----------------------------------------------------------------------------
\* The exchange (external)

Pending(k) == {o \in orders : o.kind = k}

Fill == \E o \in Pending("limit") :
  /\ pos' = pos + o.side
  /\ orders' = orders \ {o}

\* A protective order is reduce-only: with a position of its side it closes
\* it.  Its price lies beyond that of a pending limit entry, so a stop cannot
\* be reached before the entry fills.
Trigger == \E o \in orders :
  /\ o.kind \in {"stop", "profit"}
  /\ o.kind = "stop" => Pending("limit") = {}
  /\ pos' = IF pos * o.side > 0 THEN 0 ELSE pos
  /\ orders' = orders \ {o}

Market ==
  /\ setup.races \/ pc = "idle"
  /\ Fill \/ Trigger
  /\ UNCHANGED <<book, attempt, done, attempts, failures>>
-----------------------------------------------------------------------------
\* The backtest: which frame state a bar may have

\* A bar that opens while side h is held.
Opens(h) ==
  IF h = 0
  THEN {[kind |-> "none", side |-> 0], [kind |-> "blocked", side |-> 0]}
       \cup [kind : {"enter"}, side : Side]
  ELSE {[kind |-> "hold", side |-> h], [kind |-> "exit", side |-> h],
        [kind |-> "reverse", side |-> -h], [kind |-> "blocked", side |-> h]}

HeldAfter(l) == IF l.kind \in {"hold", "enter", "reverse"} THEN l.side ELSE 0

\* The bar goes on and its range reaches a stop or a profit price.
RiskExit ==
  /\ pc = "idle" /\ held # 0
  /\ held' = 0
  /\ label' = [label EXCEPT !.kind = IF @ = "reverse" THEN "reverse_risk" ELSE "risk"]
  /\ UNCHANGED <<exchange, prev, period, attempt, done, attempts, failures>>

\* The bar closes and the next one opens.
NextBar ==
  /\ pc = "idle" /\ period < MaxPeriods
  /\ done \/ attempts = MaxAttempts
  /\ period' = period + 1
  /\ prev' = label
  /\ label' \in Opens(held)
  /\ held' = HeldAfter(label')
  /\ done' = FALSE /\ attempts' = 0
  /\ UNCHANGED <<exchange, attempt, failures>>
-----------------------------------------------------------------------------
\* The bot

Init ==
  /\ setup \in Setups
  /\ pos = 0 /\ orders = {}
  /\ prev = [kind |-> "none", side |-> 0]
  /\ label \in Opens(0)
  /\ held = HeldAfter(label)
  /\ pc = "idle" /\ todo = <<>> /\ cache = "unknown" /\ cancelled = FALSE
  /\ done = FALSE /\ attempts = 0 /\ failures = 0 /\ period = 1

\* The attempt ends, with or without success.
Finish(ok) ==
  /\ pc' = "idle" /\ todo' = <<>> /\ cache' = "unknown" /\ cancelled' = FALSE
  /\ done' = ok

\* The step after the orphan check: the duplicate check for a pure entry,
\* then sizing, then the actions.  The variant has no duplicate check.
AfterOrphanCheckSizing(acts) == IF Enters(acts) THEN "size" ELSE "act"
AfterOrphanCheck(acts) ==
  IF ~Enters(acts) THEN "act" ELSE IF Closes(acts) THEN "size" ELSE "check"

\* The actions are executed, or the attempt is over when none is left.
Proceed(acts) ==
  IF acts = <<>> THEN Finish(TRUE)
  ELSE /\ pc' = "act" /\ todo' = acts
       /\ UNCHANGED <<cache, cancelled, done>>

\* process_symbol makes a fresh proxy and reads the labels; execute_signal
\* returns at once when the current one asks for nothing.
Start ==
  /\ pc = "idle" /\ ~done /\ attempts < MaxAttempts
  /\ attempts' = attempts + 1
  /\ LET acts == Actions(label) IN
       IF acts = <<>> THEN Finish(TRUE)
       ELSE /\ pc' = IF NeedsOrphanCheck(acts) THEN "orphan" ELSE AfterOrphanCheck(acts)
            /\ todo' = acts
            /\ UNCHANGED <<cache, cancelled, done>>
  /\ UNCHANGED <<exchange, book, failures>>

\* The bars, the backtest or the labels cannot be had: the attempt is over.
FetchFails ==
  /\ pc = "idle" /\ ~done /\ attempts < MaxAttempts /\ failures < MaxFailures
  /\ attempts' = attempts + 1 /\ failures' = failures + 1
  /\ Finish(FALSE)
  /\ UNCHANGED <<exchange, book>>

\* fetch_positions of the proxy: the first answer is remembered.
Seen == IF cache # "unknown" THEN cache ELSE IF pos = 0 THEN "flat" ELSE "held"

\* Without a position every order is an orphan; the variant purges always.
OrphanCheckAlways ==
  /\ pc = "orphan"
  /\ cache' = Seen
  /\ pc' = "purge"
  /\ UNCHANGED <<exchange, book, todo, cancelled, done, attempts, failures>>
OrphanCheck ==
  /\ pc = "orphan"
  /\ cache' = Seen
  /\ pc' = IF Seen = "flat" THEN "purge" ELSE AfterOrphanCheck(todo)
  /\ UNCHANGED <<exchange, book, todo, cancelled, done, attempts, failures>>

\* cancel_all_orders of the proxy: once cancelled, not asked again.
Cancel == IF cancelled THEN UNCHANGED orders ELSE orders' = {}

Purge ==
  /\ pc = "purge"
  /\ Cancel
  /\ cancelled' = TRUE
  /\ pc' = AfterOrphanCheck(todo)
  /\ UNCHANGED <<pos, book, todo, cache, done, attempts, failures>>

\* duplicate_entry_check: any position, of either side, skips the entry.
DuplicateCheck ==
  /\ pc = "check"
  /\ IF Seen = "held"
     THEN Proceed(WithoutEntry(todo))
     ELSE /\ cache' = Seen /\ pc' = "size"
          /\ UNCHANGED <<todo, cancelled, done>>
  /\ UNCHANGED <<exchange, book, attempts, failures>>

\* calculate_order_amount and min_order_check: an amount below the minimum
\* drops the entry and its protective orders.
SizeOrder ==
  /\ pc = "size"
  /\ \E acts \in {todo, WithoutEntry(todo)} : Proceed(acts)
  /\ UNCHANGED <<exchange, book, attempts, failures>>

\* What an action does to the exchange.
Effect(a) ==
  CASE a.call = "close"  -> pos' = 0 /\ UNCHANGED orders
    [] a.call = "cancel" -> Cancel /\ UNCHANGED pos
    [] a.call = "entry" /\ setup.entry = "market" -> pos' = pos + a.side /\ UNCHANGED orders
    [] OTHER ->
         /\ orders' = orders \cup
              {[kind |-> IF a.call = "entry" THEN "limit" ELSE a.call, side |-> a.side]}
         /\ UNCHANGED pos

\* What the proxy forgets before it forwards the action.
Forgets(a) == a.call \in {"stop", "profit"} \/ (a.call = "entry" /\ setup.entry = "limit")

ExecuteAction ==
  /\ pc = "act"
  /\ LET a == Head(todo) IN
       /\ Effect(a)
       /\ IF Len(todo) = 1 THEN Finish(TRUE)
          ELSE /\ pc' = pc /\ todo' = Tail(todo)
               /\ cache' = IF a.call = "cancel" THEN cache ELSE "unknown"
               /\ cancelled' = (a.call = "cancel" \/ (cancelled /\ ~Forgets(a)))
               /\ UNCHANGED done
  /\ UNCHANGED <<book, attempts, failures>>

\* The proxy answers these calls itself.
Answered == \/ pc \in {"orphan", "check"} /\ cache # "unknown"
            \/ cancelled /\ (pc = "purge" \/ (pc = "act" /\ Head(todo).call = "cancel"))

\* A call fails and with it the attempt; a request may have reached the
\* exchange although its answer did not come back.
CallFails ==
  /\ pc # "idle" /\ ~Answered /\ failures < MaxFailures
  /\ failures' = failures + 1
  /\ \/ UNCHANGED exchange
     \/ setup.lossy /\ pc = "act" /\ Effect(Head(todo))
     \/ setup.lossy /\ pc = "purge" /\ Cancel /\ UNCHANGED pos
  /\ Finish(FALSE)
  /\ UNCHANGED <<book, attempts>>

\* The process dies and is started again: nothing of the bot is persisted,
\* not even that the period was executed.
Restart ==
  /\ failures < MaxFailures
  /\ failures' = failures + 1
  /\ Finish(FALSE)
  /\ UNCHANGED <<exchange, book, attempts>>

Bot == Start \/ FetchFails \/ OrphanCheck \/ Purge \/ DuplicateCheck \/ SizeOrder \/ ExecuteAction
       \/ CallFails \/ Restart

Next == (Bot \/ Market \/ RiskExit \/ NextBar) /\ UNCHANGED setup

Spec == Init /\ [][Next]_vars
-----------------------------------------------------------------------------
Abs(n) == IF n < 0 THEN -n ELSE n

\* The account never holds more than one unit of the symbol, and never has
\* an entry pending that could make it hold more, whatever calls fail or are
\* repeated (01_bot_design_spec.md:62).
OnePosition == Abs(pos) + Cardinality(Pending("limit")) <= 1

Succeeds == ~done /\ done'

\* A period whose bar leaves at the open and that the bot finished leaves the
\* account flat and without orders.
ExitFlattens ==
  [][Succeeds /\ label.kind = "exit" => pos' = 0 /\ orders' = {}]_vars

\* A held position never loses its stop while it is held: the stop goes only
\* by closing it, or after it was closed (03_parser_spec.md:233 orders
\* close_position before cancel_all_orders for that).
Stopped == \E o \in Pending("stop") : o.side * pos > 0
StopOutlivesPosition == [][Stopped /\ pos' = pos => Stopped']_vars

\* A position the bot has finished opening has a stop of its side at the
\* exchange: the in-bar exits of the backtest are left to it alone
\* (resolver.rs:49 resolves them to no action).  A call that fails may break
\* this.
Protected == failures = 0 /\ done /\ pos # 0 => Stopped

\* 02_callbacks_spec.md:170: the actions a failed call leaves undone, stops
\* included, are tried again by the next attempt.  A period that was finished
\* and whose label still asks for a stop has it, if there is a position.
FailureIsRepaired ==
  done /\ pos # 0 /\ (\E a \in Range(Actions(label)) : a.call = "stop") => Stopped
=============================================================================
