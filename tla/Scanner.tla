------------------------------- MODULE Scanner -------------------------------
(***************************************************************************)
(* The scanner: one thread that sleeps until the base timeframe may have   *)
(* new bars, polls the symbols one after the other, scans those with a new *)
(* base bar, and reports the signals found when things have been quiet for *)
(* a while (scan_forever, Batcher, TimeWindowThrottler, Notifier).  Bars   *)
(* come in at any moment; a call to the data source may fail or answer     *)
(* nothing, the report may fail, and the user may stop the program.        *)
(*                                                                         *)
(* Time moves while the program sleeps, a second at a time.  Within a      *)
(* cycle of the base timeframe the seconds of the window are told apart;   *)
(* the rest of the cycle is one more tick, in which a throttled scanner    *)
(* sleeps.                                                                 *)
(***************************************************************************)
EXTENDS ScanPlan, FiniteSets

CONSTANTS
  Setups,   \* the configurations: [symbols, registered, enabled, debug, once,
            \*   throttled, window]
  Buffer,   \* a report waits for more than so many quiet seconds
  Tries,    \* how often a report is posted
  Faults,   \* bound: calls that fail or answer nothing
  Idle      \* the batcher is not collecting

(* A symbol is listed once, and every strategy reads some timeframe.       *)
ASSUME ScannerAssumption ==
  /\ Buffer \in Nat /\ Tries \in Nat \ {0} /\ Faults \in Nat /\ Idle \notin Nat
  /\ \A setup \in Setups :
       /\ setup.symbols \in Seq(ToSet(setup.symbols)) /\ IsInjective(setup.symbols)
       /\ \A st \in setup.registered : ToSet(st.frames) # {}

VARIABLES
  plan,     \* the setup with the strategies loaded and the key that drives it
  pc,       \* what the thread is about to do
  cur,      \* the symbol it is at
  updated,  \* the keys with a new bar, of the symbol being scanned
  held,     \* the keys whose bars it holds, of the symbol being scanned
  phase,    \* the second of the cycle; plan.window stands for all the later ones
  seen,     \* CycleTracker has seen this cycle
  quiet,    \* seconds since the last activity, Idle unless collecting
  batch,    \* the symbols with a signal since the last flush
  outbox,   \* the symbols with a signal in the report being posted
  try,      \* which attempt to post it
  fresh,    \* per symbol and key: its last bar is later than the one remembered
  taken,    \* per symbol and key: no scan has covered the bar remembered
  arrived,  \* the symbols whose base bar of this cycle has come in
  scan,     \* changes with every scan
  faults    \* how many more calls may fail

thread == <<pc, cur, updated, held>>
clock == <<phase, seen, arrived>>
report == <<batch, outbox, try>>
bars == <<fresh, taken, scan>>
vars == <<plan, thread, clock, quiet, report, bars, faults>>

Symbols == UNION {ToSet(setup.symbols) : setup \in Setups}
Keys == UNION {RequiredKeys(setup.registered) : setup \in Setups}
Each(ss, ks) == [s \in Symbols |-> [k \in Keys |-> s \in ss /\ k \in ks]]
Symbol == plan.symbols[cur]
-----------------------------------------------------------------------------
(* main(), and what scan_forever does before its loop: the last bar of     *)
(* each watched key is remembered as if it had been scanned.  A full scan  *)
(* covers every bar there is.                                              *)
Refused(setup, loaded) ==
  \/ ~ Resolvable(loaded) \/ setup.symbols = <<>>
  \/ /\ ~ setup.once
     /\ \/ WatchedKeys(loaded) = {}
        \/ setup.throttled /\ \E base \in Bases(loaded) : setup.window >= base.seconds \div 2

Init ==
  \E setup \in Setups :
    LET loaded == Active(setup.registered, setup.enabled, setup.debug)
        refused == Refused(setup, loaded)
    IN  /\ \E base \in IF refused \/ setup.once THEN {<<>>} ELSE StorageKeys(Bases(loaded)) :
             plan = [symbols |-> setup.symbols, loaded |-> loaded,
                     required |-> RequiredKeys(loaded), watched |-> WatchedKeys(loaded),
                     base |-> base, once |-> setup.once,
                     throttled |-> setup.throttled, window |-> setup.window]
        /\ pc = IF refused THEN "exited" ELSE IF setup.once THEN "scan" ELSE "wait"
        /\ cur = 1 /\ held = {}
        /\ updated = IF setup.once THEN plan.required ELSE {}
        /\ phase \in 0..plan.window /\ seen = TRUE /\ arrived = {}
        /\ quiet = Idle /\ batch = {} /\ outbox = {} /\ try = 1
        /\ fresh = Each({}, {}) /\ taken = Each(ToSet(plan.symbols), updated) /\ scan = FALSE
        /\ faults = Faults
-----------------------------------------------------------------------------
(* A bar comes in.  The base brings at most one in a cycle.                *)
Arrive(s, k) ==
  /\ pc # "exited" /\ ~ plan.once /\ s \in ToSet(plan.symbols) /\ k \in plan.watched
  /\ k = plan.base => s \notin arrived
  /\ arrived' = IF k = plan.base THEN arrived \cup {s} ELSE arrived
  /\ fresh' = [fresh EXCEPT ![s][k] = TRUE]
  /\ UNCHANGED <<plan, thread, phase, seen, quiet, report, taken, scan, faults>>

(* A second goes by, from the given one.                                   *)
Elapse(from, known) ==
  IF from = plan.window
  THEN phase' = 0 /\ arrived' = {} /\ seen' = FALSE
  ELSE phase' = from + 1 /\ seen' = known /\ UNCHANGED arrived

\* Variant: every turn of the loop pokes the batcher.
Poked(q) == 0
Later(q) == IF q = Idle \/ q > Buffer THEN q ELSE q + 1

(* Outside of the window a throttled scanner sleeps until the next one,    *)
(* and takes that for a new cycle; then wait(1.0), then the new cycle      *)
(* pokes the batcher.                                                      *)
Wait ==
  /\ pc = "wait"
  /\ IF plan.throttled /\ phase = plan.window
     THEN phase' = 1 /\ arrived' = {} /\ seen' = TRUE /\ quiet' = 0
     ELSE /\ Elapse(phase, TRUE)
          /\ quiet' = IF seen THEN Later(quiet) ELSE 0
  /\ pc' = "poll" /\ cur' = 1
  /\ UNCHANGED <<plan, updated, held, report, bars, faults>>
-----------------------------------------------------------------------------
Fail == faults > 0 /\ faults' = faults - 1

(* On to the next symbol; after the last of a full scan, its report.       *)
NextSymbol ==
  /\ updated' = IF plan.once THEN updated ELSE {}
  /\ held' = {}
  /\ cur' = cur + 1
  /\ pc' = IF ~ plan.once THEN "poll"
           ELSE IF cur < Len(plan.symbols) THEN "scan" ELSE "report"

Polling == pc = "poll" /\ cur <= Len(plan.symbols)

(* No later base bar, or no answer: the symbol is passed over.             *)
NothingNew ==
  /\ Polling
  /\ \/ ~ fresh[Symbol][plan.base] /\ UNCHANGED faults
     \/ fresh[Symbol][plan.base] /\ Fail
  /\ NextSymbol
  /\ UNCHANGED <<plan, clock, quiet, report, bars>>

(* A new base bar: it and then the later bars of the other watched keys    *)
(* that answer are remembered, and only then the symbol is scanned.  The   *)
(* variants take every answer for news, and look at the base only.         *)
EveryAnswer(answered) == answered
OnlyBase(answered) == {plan.base}
Newer(answered) == {k \in answered : fresh[Symbol][k]}

NewBar ==
  /\ Polling /\ fresh[Symbol][plan.base]
  /\ \E answered \in SUBSET (plan.watched \ {plan.base}) :
       /\ held' = answered \cup {plan.base}
       /\ IF held' = plan.watched THEN UNCHANGED faults ELSE Fail
       /\ updated' = Newer(held')
       /\ fresh' = [fresh EXCEPT ![Symbol] = [k \in Keys |-> @[k] /\ k \notin Newer(held')]]
       /\ taken' = [taken EXCEPT ![Symbol] = [k \in Keys |-> @[k] \/ k \in Newer(held')]]
  /\ quiet' = 0
  /\ pc' = "scan"
  /\ UNCHANGED <<plan, cur, clock, report, scan>>
-----------------------------------------------------------------------------
(* A key is covered when each strategy that watches it has run.            *)
Ran == IF plan.once THEN plan.loaded ELSE Dispatched(plan.loaded, updated)
Covered == {k \in updated : \A st \in plan.loaded :
                               k \in KeysOf(st, st.watch) => st \in Ran}

(* The missing bars are fetched and the strategies run.  A strategy that   *)
(* fails finds nothing.                                                    *)
Scan ==
  /\ pc = "scan"
  /\ \E found \in BOOLEAN :
       /\ batch' = IF found /\ Ran # {} THEN batch \cup {Symbol} ELSE batch
       /\ quiet' = IF found /\ Ran # {} /\ ~ plan.once THEN 0 ELSE quiet
  /\ taken' = [taken EXCEPT ![Symbol] = [k \in Keys |-> @[k] /\ k \notin Covered]]
  /\ scan' = ~ scan
  /\ NextSymbol
  /\ UNCHANGED <<plan, clock, outbox, try, fresh, faults>>

(* A network error while the missing bars are fetched ends the scan of     *)
(* the symbol, without a trace.                                            *)
ScanFails ==
  /\ pc = "scan" /\ plan.required \ held # {} /\ Fail
  /\ NextSymbol
  /\ UNCHANGED <<plan, clock, quiet, report, bars>>

(* Any other error: the loop starts over in half an hour when the source   *)
(* says that it is under maintenance, and ends the program otherwise.      *)
Breaks ==
  /\ pc \in {"wait", "poll", "scan"} /\ Fail
  /\ \/ pc' = "exited" /\ UNCHANGED <<cur, updated, held, clock, quiet>>
     \/ /\ ~ plan.once
        /\ pc' = "wait" /\ cur' = 1 /\ updated' = {} /\ held' = {}
        /\ phase' \in 0..plan.window /\ seen' \in BOOLEAN /\ arrived' \in {arrived, {}}
        /\ quiet' = IF quiet = Idle THEN Idle ELSE Buffer + 1
  /\ UNCHANGED <<plan, report, bars>>
-----------------------------------------------------------------------------
(* After the last symbol the batch is released when it was quiet for long  *)
(* enough.                                                                 *)
Released == batch

Flush ==
  /\ pc = "poll" /\ cur > Len(plan.symbols)
  /\ IF quiet # Idle /\ quiet > Buffer
     THEN /\ outbox' = Released /\ batch' = {} /\ quiet' = Idle /\ try' = 1
          /\ pc' = IF Released = {} THEN "wait" ELSE "post"
     ELSE pc' = "wait" /\ UNCHANGED <<report, quiet>>
  /\ UNCHANGED <<plan, cur, updated, held, clock, bars, faults>>

(* The report of a full scan.                                              *)
Report ==
  /\ pc = "report"
  /\ outbox' = batch /\ batch' = {} /\ try' = 1
  /\ pc' = IF batch = {} THEN "exited" ELSE "post"
  /\ UNCHANGED <<plan, cur, updated, held, clock, quiet, bars, faults>>

AfterPost == pc' = IF plan.once THEN "exited" ELSE "wait"

(* An answer of any status is taken for success.                           *)
Post ==
  /\ pc = "post"
  /\ outbox' = {} /\ AfterPost
  /\ UNCHANGED <<plan, cur, updated, held, clock, quiet, batch, try, bars, faults>>

(* No answer: it sleeps and tries again, and gives up after the last time. *)
PostFails ==
  /\ pc = "post" /\ Fail
  /\ IF try < Tries
     THEN try' = try + 1 /\ Elapse(phase, seen) /\ UNCHANGED <<pc, outbox>>
     ELSE outbox' = {} /\ AfterPost /\ UNCHANGED <<try, clock>>
  /\ UNCHANGED <<plan, cur, updated, held, quiet, batch, bars>>

(* The user stops the program.                                             *)
Interrupt ==
  /\ pc # "exited"
  /\ pc' = "exited"
  /\ UNCHANGED <<plan, cur, updated, held, clock, quiet, report, bars, faults>>
-----------------------------------------------------------------------------
Step == \/ Wait \/ NothingNew \/ NewBar \/ Scan \/ ScanFails
        \/ Flush \/ Report \/ Post \/ PostFails

Arrivals == \E s \in Symbols, k \in Keys : Arrive(s, k)

Next == Step \/ Breaks \/ Interrupt \/ Arrivals

(* The thread goes on, and the market brings bars on every watched stream. *)
Spec == /\ Init /\ [][Next]_vars
        /\ WF_vars(Step)
        /\ \A s \in Symbols, k \in Keys : WF_vars(Arrive(s, k))
-----------------------------------------------------------------------------
(* The scanner implements BarFeed: a scan is made only for bars it has     *)
(* taken up, covers at least one of them, and no bar is scanned twice      *)
(* however its arrival falls between polls, failures and restarts of the   *)
(* loop.                                                                   *)
Streams == Symbols \X Keys
Marked(table) == {x \in Streams : table[x[1]][x[2]]}
Feed == INSTANCE BarFeed WITH fresh <- Marked(fresh), taken <- Marked(taken)
ImplementsFeed == Feed!Spec

(* A bar that is remembered, and that no scan has covered or is about to:  *)
(* nothing but the next bar of its stream helps it.                        *)
Abandoned(s, k) == taken[s][k] /\ ~ (pc = "scan" /\ s = Symbol /\ k \in updated)

(* _collect_updated_watch_klines remembers bars before the scan they are   *)
(* for.  A bar is abandoned only in a step in which a call failed or the   *)
(* user stopped the program.                                               *)
TakenIsScanned ==
  [][\A s \in Symbols, k \in Keys :
       Abandoned(s, k)' /\ ~ Abandoned(s, k) => faults' < faults \/ pc' = "exited"]_vars

(* Every bar that comes in is taken up, and every bar taken up is scanned  *)
(* or a later one of its stream is, as long as the program runs and calls  *)
(* do not fail for ever.                                                   *)
BarsScanned ==
  \A s \in Symbols, k \in Keys :
    /\ fresh[s][k] ~> (pc = "exited" \/ ~ fresh[s][k])
    /\ taken[s][k] ~> (pc = "exited" \/ ~ taken[s][k])

(* A signal that was found is reported in the end: the activity that       *)
(* defers a report leaves a quiet stretch in each window.                  *)
SignalsReported == \A s \in Symbols : s \in batch ~> (pc = "exited" \/ batch = {})
=============================================================================
