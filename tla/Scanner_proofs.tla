---------------------------- MODULE Scanner_proofs ----------------------------
(***************************************************************************)
(* Proofs about Scanner, for any setups, symbols, strategies and           *)
(* timeframes, any window and buffer, and any number of faults.            *)
(***************************************************************************)
EXTENDS Scanner, TLAPS

-----------------------------------------------------------------------------
(* The plan.                                                               *)

PlanOK ==
  /\ plan.symbols \in Seq(Symbols) /\ IsInjective(plan.symbols)
  /\ plan.required = RequiredKeys(plan.loaded) /\ plan.required \subseteq Keys
  /\ plan.watched = WatchedKeys(plan.loaded) /\ plan.watched \subseteq Keys
  /\ pc # "exited" => IF plan.once THEN plan.required # {} ELSE plan.base \in plan.watched

(* Loading picks among the registered strategies, and so do the keys.      *)
LEMMA LoadedKeysAreKeys ==
  ASSUME NEW setup \in Setups, NEW enabled, NEW debug
  PROVE  LET loaded == Active(setup.registered, enabled, debug)
         IN  /\ loaded \subseteq setup.registered
             /\ RequiredKeys(loaded) \subseteq Keys
             /\ WatchedKeys(loaded) \subseteq RequiredKeys(loaded)
<1> DEFINE loaded == Active(setup.registered, enabled, debug)
<1>1. loaded \subseteq setup.registered
  BY DEF Active
<1>2. Required(loaded) \subseteq Required(setup.registered)
  BY <1>1 DEF Required
<1>3. RequiredKeys(loaded) \subseteq RequiredKeys(setup.registered)
  BY <1>2 DEF RequiredKeys, StorageKeys
<1>4. RequiredKeys(loaded) \subseteq Keys
  BY <1>3 DEF Keys
<1>5. WatchedKeys(loaded) \subseteq RequiredKeys(loaded)
  BY DEF WatchedKeys, KeysOf, StorageKeys, RequiredKeys, Required
<1> QED BY <1>1, <1>4, <1>5

(* What drives the loop is watched; a full scan has something to scan.     *)
LEMMA PlanDrives ==
  ASSUME NEW setup \in Setups, NEW loaded \in SUBSET setup.registered,
         ~ Refused(setup, loaded)
  PROVE  /\ setup.once => RequiredKeys(loaded) # {}
         /\ ~ setup.once => StorageKeys(Bases(loaded)) \subseteq WatchedKeys(loaded)
         /\ setup.symbols # <<>>
<1>1. StorageKeys(Bases(loaded)) \subseteq WatchedKeys(loaded)
  BY DEF StorageKeys, Bases
<1>2. setup.symbols # <<>> /\ loaded # {}
  BY DEF Refused, Resolvable
<1>3. PICK st \in loaded : TRUE
  BY <1>2
<1>4. ToSet(st.frames) # {}
  BY <1>3, ScannerAssumption DEF Resolvable
<1>5. RequiredKeys(loaded) # {}
  BY <1>3, <1>4 DEF RequiredKeys, StorageKeys, Required
<1> QED BY <1>1, <1>2, <1>5
-----------------------------------------------------------------------------
(* The invariant.                                                          *)

Types ==
  /\ fresh \in [Symbols -> [Keys -> BOOLEAN]]
  /\ taken \in [Symbols -> [Keys -> BOOLEAN]]
  /\ scan \in BOOLEAN /\ cur \in Nat \ {0} /\ faults \in Nat
  /\ updated \subseteq Keys /\ held \subseteq Keys

(* A full scan has its symbols before it, each with all its bars; it does  *)
(* not enter the loop.                                                     *)
FullScan ==
  plan.once =>
    /\ pc \in {"scan", "report", "post", "exited"}
    /\ updated = plan.required
    /\ pc = "scan" => \A i \in cur..Len(plan.symbols), k \in updated : taken[plan.symbols[i]][k]

(* What is about to be scanned was taken up, the base's bar in any case.   *)
Scanning ==
  pc = "scan" =>
    /\ cur \in 1..Len(plan.symbols)
    /\ \A k \in updated : taken[Symbol][k]
    /\ ~ plan.once => plan.base \in updated /\ updated \subseteq plan.watched

Inv == PlanOK /\ Types /\ FullScan /\ Scanning

LEMMA EachIsTable ==
  ASSUME NEW S, NEW K PROVE Each(S, K) \in [Symbols -> [Keys -> BOOLEAN]]
BY DEF Each

LEMMA InitHolds == Init => Inv
<1> SUFFICES ASSUME Init PROVE Inv
  OBVIOUS
<1>1. PICK setup \in Setups :
        LET loaded == Active(setup.registered, setup.enabled, setup.debug)
            refused == Refused(setup, loaded)
        IN  /\ \E base \in IF refused \/ setup.once THEN {<<>>} ELSE StorageKeys(Bases(loaded)) :
                 plan = [symbols |-> setup.symbols, loaded |-> loaded,
                         required |-> RequiredKeys(loaded), watched |-> WatchedKeys(loaded),
                         base |-> base, once |-> setup.once,
                         throttled |-> setup.throttled, window |-> setup.window]
            /\ pc = IF refused THEN "exited" ELSE IF setup.once THEN "scan" ELSE "wait"
            /\ cur = 1 /\ held = {}
            /\ updated = IF setup.once THEN plan.required ELSE {}
            /\ fresh = Each({}, {}) /\ taken = Each(ToSet(plan.symbols), updated) /\ scan = FALSE
  BY DEF Init
<1> DEFINE loaded == Active(setup.registered, setup.enabled, setup.debug)
           refused == Refused(setup, loaded)
<1>2. /\ plan.symbols = setup.symbols /\ plan.loaded = loaded
      /\ plan.required = RequiredKeys(loaded) /\ plan.watched = WatchedKeys(loaded)
      /\ plan.once = setup.once
      /\ ~ refused /\ ~ setup.once => plan.base \in StorageKeys(Bases(loaded))
  BY <1>1
<1>3. /\ loaded \subseteq setup.registered
      /\ RequiredKeys(loaded) \subseteq Keys
      /\ WatchedKeys(loaded) \subseteq RequiredKeys(loaded)
  BY LoadedKeysAreKeys
<1>4. /\ setup.symbols \in Seq(Symbols) /\ IsInjective(setup.symbols)
      /\ ToSet(setup.symbols) \subseteq Symbols
  <2>1. ToSet(setup.symbols) \subseteq Symbols
    BY DEF Symbols
  <2>2. setup.symbols \in Seq(ToSet(setup.symbols)) /\ IsInjective(setup.symbols)
    BY ScannerAssumption
  <2> QED BY <2>1, <2>2
<1>5. ~ refused =>
        /\ setup.once => RequiredKeys(loaded) # {}
        /\ ~ setup.once => StorageKeys(Bases(loaded)) \subseteq WatchedKeys(loaded)
        /\ setup.symbols # <<>>
  BY <1>3, PlanDrives
<1> HIDE DEF loaded, refused
<1>6. PlanOK
  <2>1. pc # "exited" => ~ refused
    BY <1>1 DEF refused, loaded
  <2> QED BY <2>1, <1>2, <1>3, <1>4, <1>5 DEF PlanOK
<1>7. Types
  <2>1. updated \subseteq Keys
    BY <1>1, <1>2, <1>3
  <2>2. /\ fresh = Each({}, {}) /\ taken = Each(ToSet(plan.symbols), updated)
        /\ scan = FALSE /\ cur = 1 /\ held = {}
    BY <1>1
  <2>3. /\ fresh \in [Symbols -> [Keys -> BOOLEAN]]
        /\ taken \in [Symbols -> [Keys -> BOOLEAN]]
    BY <2>2, EachIsTable
  <2>4. scan \in BOOLEAN /\ held \subseteq Keys
    BY <2>2
  <2>6. faults \in Nat
    BY ScannerAssumption DEF Init
  <2>5. cur \in Nat \ {0}
    BY <2>2
  <2> QED BY <2>1, <2>3, <2>4, <2>5, <2>6, Zenon DEF Types
<1>8. pc = "scan" => setup.once /\ ~ refused
  BY <1>1 DEF refused, loaded
<1>9. \A i \in 1..Len(plan.symbols), k \in updated : taken[plan.symbols[i]][k]
  <2> SUFFICES ASSUME NEW i \in 1..Len(plan.symbols), NEW k \in updated
               PROVE  taken[plan.symbols[i]][k]
    OBVIOUS
  <2>1. plan.symbols[i] \in ToSet(plan.symbols) /\ plan.symbols[i] \in Symbols
    BY <1>2, <1>4 DEF ToSet
  <2>2. k \in Keys
    BY <1>7 DEF Types
  <2> QED BY <2>1, <2>2, <1>1 DEF Each
<1>10. FullScan
  BY <1>1, <1>2, <1>9 DEF FullScan
<1>11. Scanning
  <2> SUFFICES ASSUME pc = "scan" PROVE Scanning
    BY DEF Scanning
  <2>1. 1 \in 1..Len(plan.symbols)
    BY <1>2, <1>4, <1>5, <1>8
  <2> QED BY <2>1, <1>1, <1>2, <1>8, <1>9 DEF Scanning, Symbol
<1> QED BY <1>6, <1>7, <1>10, <1>11 DEF Inv
-----------------------------------------------------------------------------
(* One lemma for each kind of step: the invariant is kept, and the step is *)
(* one of BarFeed or changes nothing it sees.                              *)

FeedVars == <<Marked(fresh), Marked(taken), scan>>
FeedStep == [Feed!Arrive \/ Feed!Take \/ Feed!Cover]_FeedVars

LEMMA QuietFeed == ASSUME UNCHANGED bars PROVE FeedStep
BY DEF bars, FeedStep, FeedVars, Marked

(* A change of a table at one symbol, and what it means for its streams.   *)
LEMMA TableChanges ==
  ASSUME NEW old \in [Symbols -> [Keys -> BOOLEAN]], NEW s \in Symbols,
         NEW row \in [Keys -> BOOLEAN], NEW new, new = [old EXCEPT ![s] = row]
  PROVE  /\ new \in [Symbols -> [Keys -> BOOLEAN]]
         /\ new[s] = row /\ \A r \in Symbols \ {s} : new[r] = old[r]
OBVIOUS

LEMMA SymbolIsSymbol ==
  ASSUME PlanOK, cur \in 1..Len(plan.symbols) PROVE Symbol \in Symbols
BY DEF PlanOK, Symbol

(* No step but Scan and NewBar touches what was taken up; no step of the   *)
(* thread other than those and the polls begins a scan.                    *)
LEMMA ArriveHolds ==
  ASSUME Inv, NEW s \in Symbols, NEW k \in Keys, Arrive(s, k)
  PROVE  Inv' /\ FeedStep /\ UNCHANGED <<thread, taken>>
<1>1. /\ fresh' = [fresh EXCEPT ![s][k] = TRUE]
      /\ UNCHANGED <<plan, pc, cur, updated, held, taken, scan, faults>>
      /\ fresh \in [Symbols -> [Keys -> BOOLEAN]]
  BY DEF Arrive, thread, Inv, Types
<1>2. /\ fresh' \in [Symbols -> [Keys -> BOOLEAN]]
      /\ \A r \in Symbols, j \in Keys : fresh'[r][j] = (fresh[r][j] \/ (r = s /\ j = k))
  BY <1>1
<1>3. Inv'
  <2>1. PlanOK' /\ FullScan' /\ Scanning'
    BY <1>1 DEF Inv, PlanOK, FullScan, Scanning, Symbol
  <2>2. Types'
    BY <1>1, <1>2 DEF Inv, Types
  <2> QED BY <2>1, <2>2 DEF Inv
<1>4. FeedStep
  <2>1. <<s, k>> \in Streams
    BY DEF Streams
  <2>2. Marked(fresh') = Marked(fresh) \cup {<<s, k>>}
    BY <1>2 DEF Marked, Streams
  <2>3. Marked(fresh)' = Marked(fresh) \cup {<<s, k>>} /\ UNCHANGED <<Marked(taken), scan>>
    BY <2>2, <1>1 DEF Marked
  <2> QED BY <2>1, <2>3 DEF FeedStep, Feed!Arrive
<1> QED BY <1>1, <1>3, <1>4 DEF thread

(* A step that leaves the bars alone and does not go on scanning.          *)
LEMMA IdleHolds ==
  ASSUME Inv, UNCHANGED <<plan, bars>>, pc' # "scan",
         cur' \in Nat \ {0}, faults' \in Nat, held' \subseteq Keys, updated' \subseteq Keys,
         pc = "exited" => pc' = "exited",
         plan.once => pc' \in {"report", "post", "exited"} /\ updated' = updated
  PROVE  Inv' /\ FeedStep
<1>1. PlanOK'
  BY DEF Inv, PlanOK
<1>2. Types'
  BY DEF Inv, Types, bars
<1>3. FullScan' /\ Scanning'
  BY DEF Inv, FullScan, Scanning
<1> QED BY <1>1, <1>2, <1>3, QuietFeed DEF Inv

LEMMA NewBarHolds ==
  ASSUME Inv, NewBar
  PROVE  Inv' /\ FeedStep /\ pc' = "scan" /\ ~ plan.once /\ UNCHANGED Symbol
         /\ \A s \in Symbols, k \in Keys : taken'[s][k] /\ ~ taken[s][k] => s = Symbol' /\ k \in updated'
<1>1. /\ pc = "poll" /\ cur \in 1..Len(plan.symbols) /\ fresh[Symbol][plan.base]
      /\ pc' = "scan" /\ UNCHANGED <<plan, cur, scan>>
      /\ faults' \in Nat
  BY DEF NewBar, Fail, Polling, Inv, Types, PlanOK
<1>2. PICK answered \in SUBSET (plan.watched \ {plan.base}) :
        /\ held' = answered \cup {plan.base}
        /\ updated' = Newer(held')
        /\ fresh' = [fresh EXCEPT ![Symbol] = [k \in Keys |-> @[k] /\ k \notin Newer(held')]]
        /\ taken' = [taken EXCEPT ![Symbol] = [k \in Keys |-> @[k] \/ k \in Newer(held')]]
  BY DEF NewBar
<1>3. /\ ~ plan.once /\ plan.base \in plan.watched /\ plan.watched \subseteq Keys
      /\ Symbol \in Symbols
  BY <1>1, SymbolIsSymbol DEF Inv, FullScan, PlanOK
<1> DEFINE New == Newer(held')
<1>4. /\ held' \subseteq plan.watched /\ New \subseteq held' /\ plan.base \in New
      /\ \A k \in New : fresh[Symbol][k]
  BY <1>1, <1>2, <1>3 DEF Newer
<1>5. New \subseteq Keys /\ held' \subseteq Keys
  BY <1>3, <1>4
<1> HIDE DEF New
<1>6. /\ fresh' = [fresh EXCEPT ![Symbol] = [k \in Keys |-> fresh[Symbol][k] /\ k \notin New]]
      /\ taken' = [taken EXCEPT ![Symbol] = [k \in Keys |-> taken[Symbol][k] \/ k \in New]]
  <2>1. fresh \in [Symbols -> [Keys -> BOOLEAN]] /\ taken \in [Symbols -> [Keys -> BOOLEAN]]
    BY DEF Inv, Types
  <2> QED BY <1>2, <1>3, <2>1 DEF New
<1>7. /\ fresh' \in [Symbols -> [Keys -> BOOLEAN]]
      /\ taken' \in [Symbols -> [Keys -> BOOLEAN]]
      /\ \A s \in Symbols, k \in Keys :
           /\ fresh'[s][k] <=> fresh[s][k] /\ ~ (s = Symbol /\ k \in New)
           /\ taken'[s][k] <=> taken[s][k] \/ (s = Symbol /\ k \in New)
  <2> DEFINE f == [k \in Keys |-> fresh[Symbol][k] /\ k \notin New]
             t == [k \in Keys |-> taken[Symbol][k] \/ k \in New]
  <2>1. fresh \in [Symbols -> [Keys -> BOOLEAN]] /\ taken \in [Symbols -> [Keys -> BOOLEAN]]
    BY DEF Inv, Types
  <2>2. /\ f \in [Keys -> BOOLEAN] /\ t \in [Keys -> BOOLEAN]
        /\ \A k \in Keys : /\ f[k] <=> fresh[Symbol][k] /\ k \notin New
                           /\ t[k] <=> taken[Symbol][k] \/ k \in New
    OBVIOUS
  <2>3. fresh' = [fresh EXCEPT ![Symbol] = f] /\ taken' = [taken EXCEPT ![Symbol] = t]
    BY <1>6
  <2> HIDE DEF f, t
  <2>4. /\ fresh' \in [Symbols -> [Keys -> BOOLEAN]] /\ fresh'[Symbol] = f
        /\ \A s \in Symbols \ {Symbol} : fresh'[s] = fresh[s]
    BY <1>3, <2>1, <2>2, <2>3, TableChanges
  <2>5. /\ taken' \in [Symbols -> [Keys -> BOOLEAN]] /\ taken'[Symbol] = t
        /\ \A s \in Symbols \ {Symbol} : taken'[s] = taken[s]
    BY <1>3, <2>1, <2>2, <2>3, TableChanges
  <2> QED BY <2>2, <2>4, <2>5
<1>8. updated' = New /\ Symbol' = Symbol
  BY <1>1, <1>2 DEF New, Symbol
<1>9. Inv'
  <2>1. PlanOK'
    BY <1>1 DEF Inv, PlanOK
  <2>2. Types'
    BY <1>1, <1>5, <1>7, <1>8 DEF Inv, Types
  <2>3. FullScan'
    BY <1>1, <1>3 DEF FullScan
  <2>4. Scanning'
    BY <1>1, <1>3, <1>4, <1>5, <1>7, <1>8 DEF Scanning
  <2> QED BY <2>1, <2>2, <2>3, <2>4 DEF Inv
<1>10. FeedStep
  <2> DEFINE some == {x \in Streams : x[1] = Symbol /\ x[2] \in New}
  <2>1. some \subseteq Marked(fresh)
    BY <1>4 DEF Marked
  <2>2. Marked(fresh)' = Marked(fresh) \ some /\ Marked(taken)' = Marked(taken) \cup some
    BY <1>7 DEF Marked, Streams
  <2> QED BY <1>1, <2>1, <2>2 DEF FeedStep, Feed!Take
<1> QED BY <1>1, <1>3, <1>7, <1>8, <1>9, <1>10

(* A scan covers every key it was made for.                                *)
LEMMA ScanCoversAll ==
  ASSUME Inv, pc = "scan" PROVE Covered = updated
<1>1. CASE plan.once
  BY <1>1 DEF Covered, Ran
<1>2. CASE ~ plan.once
  BY <1>2 DEF Covered, Ran, Dispatched
<1> QED BY <1>1, <1>2

(* On to the next symbol from a scan, with the symbol's bars as they were  *)
(* or covered.                                                             *)
LEMMA ScanMovesOn ==
  ASSUME Inv, pc = "scan", NextSymbol, UNCHANGED plan, scan' \in BOOLEAN, faults' \in Nat,
         fresh' \in [Symbols -> [Keys -> BOOLEAN]], taken' \in [Symbols -> [Keys -> BOOLEAN]],
         \A s \in Symbols \ {Symbol}, k \in Keys : taken'[s][k] = taken[s][k]
  PROVE  Inv'
<1>1. /\ cur \in 1..Len(plan.symbols) /\ Len(plan.symbols) \in Nat /\ cur \in Nat
      /\ cur' = cur + 1 /\ held' = {} /\ plan.symbols \in Seq(Symbols)
  BY DEF Inv, PlanOK, Types, Scanning, NextSymbol
<1>2. PlanOK'
  BY DEF Inv, PlanOK
<1>3. updated' \subseteq Keys
  BY DEF Inv, Types, NextSymbol
<1>4. Types'
  BY <1>1, <1>3 DEF Types
<1>5. CASE ~ plan.once
  BY <1>2, <1>4, <1>5 DEF Inv, FullScan, Scanning, NextSymbol
<1>6. CASE plan.once
  <2>1. updated' = updated /\ updated = plan.required /\ updated \subseteq Keys
    BY <1>6 DEF NextSymbol, Inv, FullScan, Types
  <2>2. pc' \in {"scan", "report"} /\ (pc' = "scan" => cur < Len(plan.symbols))
    BY <1>6 DEF NextSymbol
  <2>3. \A i \in cur'..Len(plan.symbols), k \in updated' : taken'[plan.symbols[i]][k]
    <3> SUFFICES ASSUME NEW i \in cur'..Len(plan.symbols), NEW k \in updated'
                 PROVE  taken'[plan.symbols[i]][k]
      OBVIOUS
    <3>1. i \in 1..Len(plan.symbols) /\ i # cur /\ i \in cur..Len(plan.symbols)
      BY <1>1
    <3>2. plan.symbols[i] \in Symbols /\ plan.symbols[i] # Symbol
      <4>1. IsInjective(plan.symbols)
        BY DEF Inv, PlanOK
      <4> QED BY <1>1, <3>1, <4>1 DEF IsInjective, Symbol
    <3>3. taken[plan.symbols[i]][k]
      BY <1>6, <2>1, <3>1 DEF Inv, FullScan
    <3> QED BY <2>1, <3>2, <3>3
  <2>4. FullScan'
    BY <2>1, <2>2, <2>3 DEF FullScan
  <2>5. Scanning'
    BY <1>1, <1>6, <2>2, <2>3 DEF Scanning, Symbol
  <2> QED BY <1>2, <1>4, <2>4, <2>5 DEF Inv
<1> QED BY <1>5, <1>6

LEMMA ScanHolds ==
  ASSUME Inv, Scan
  PROVE  Inv' /\ FeedStep
         /\ \A s \in Symbols, k \in Keys :
              taken'[s][k] => taken[s][k] /\ ~ (s = Symbol /\ k \in updated)
<1>1. /\ pc = "scan" /\ cur \in 1..Len(plan.symbols) /\ Symbol \in Symbols /\ Covered = updated
      /\ taken \in [Symbols -> [Keys -> BOOLEAN]] /\ updated \subseteq Keys
  BY ScanCoversAll, SymbolIsSymbol DEF Scan, Inv, Scanning, Types
<1>2. taken' = [taken EXCEPT ![Symbol] = [k \in Keys |-> taken[Symbol][k] /\ k \notin updated]]
  BY <1>1 DEF Scan
<1>3. /\ taken' \in [Symbols -> [Keys -> BOOLEAN]]
      /\ \A s \in Symbols, k \in Keys :
           taken'[s][k] <=> taken[s][k] /\ ~ (s = Symbol /\ k \in updated)
  <2> DEFINE t == [k \in Keys |-> taken[Symbol][k] /\ k \notin updated]
  <2>1. /\ t \in [Keys -> BOOLEAN]
        /\ \A k \in Keys : t[k] <=> taken[Symbol][k] /\ k \notin updated
    BY <1>1
  <2>2. taken' = [taken EXCEPT ![Symbol] = t]
    BY <1>2
  <2> HIDE DEF t
  <2>3. /\ taken' \in [Symbols -> [Keys -> BOOLEAN]] /\ taken'[Symbol] = t
        /\ \A s \in Symbols \ {Symbol} : taken'[s] = taken[s]
    BY <1>1, <2>1, <2>2, TableChanges
  <2> QED BY <2>1, <2>3
<1>4. /\ UNCHANGED <<plan, fresh, faults>> /\ scan' = ~ scan /\ scan \in BOOLEAN /\ NextSymbol
      /\ fresh \in [Symbols -> [Keys -> BOOLEAN]] /\ faults \in Nat
  BY DEF Scan, Inv, Types
<1>5. Inv'
  <2>1. \A s \in Symbols \ {Symbol}, k \in Keys : taken'[s][k] = taken[s][k]
    BY <1>1, <1>3
  <2>2. scan' \in BOOLEAN /\ fresh' \in [Symbols -> [Keys -> BOOLEAN]] /\ faults' \in Nat
    BY <1>4
  <2> QED BY <1>1, <1>3, <1>4, <2>1, <2>2, ScanMovesOn
<1>6. FeedStep
  <2> DEFINE some == {x \in Streams : x[1] = Symbol /\ x[2] \in updated}
  <2>1. some \subseteq Marked(taken)
    BY <1>1 DEF Inv, Scanning, Marked
  <2>2. some # {}
    <3>1. PICK k : k \in updated
      BY <1>1 DEF Inv, PlanOK, FullScan, Scanning
    <3>2. <<Symbol, k>> \in some
      BY <1>1, <3>1 DEF Streams
    <3> QED BY <3>2
  <2>3. Marked(taken)' = Marked(taken) \ some /\ Marked(fresh)' = Marked(fresh)
    BY <1>3, <1>4 DEF Marked, Streams
  <2> QED BY <1>4, <2>1, <2>2, <2>3 DEF FeedStep, Feed!Cover
<1> QED BY <1>3, <1>5, <1>6

LEMMA ScanFailsHolds == ASSUME Inv, ScanFails PROVE Inv' /\ FeedStep
<1>1. /\ pc = "scan" /\ NextSymbol /\ UNCHANGED <<plan, bars>> /\ faults' \in Nat
  BY DEF ScanFails, Fail, Inv, Types
<1>2. /\ scan' \in BOOLEAN
      /\ fresh' \in [Symbols -> [Keys -> BOOLEAN]] /\ taken' \in [Symbols -> [Keys -> BOOLEAN]]
      /\ \A s \in Symbols \ {Symbol}, k \in Keys : taken'[s][k] = taken[s][k]
  BY <1>1 DEF Inv, Types, bars
<1> QED BY <1>1, <1>2, ScanMovesOn, QuietFeed

(* The other steps of the thread.                                          *)
Others == Wait \/ NothingNew \/ Flush \/ Report \/ Post \/ PostFails

LEMMA OthersHold ==
  ASSUME Inv, Others
  PROVE  Inv' /\ FeedStep /\ pc # "scan" /\ UNCHANGED taken
<1>1. UNCHANGED <<plan, bars>> /\ pc \notin {"scan", "exited"}
  BY DEF Others, Wait, NothingNew, Flush, Report, Post, PostFails, Polling
<1>2. faults' \in Nat
  <2>1. UNCHANGED faults \/ Fail
    BY DEF Others, Wait, NothingNew, Flush, Report, Post, PostFails
  <2> QED BY <2>1 DEF Fail, Inv, Types
<1>3. cur' \in Nat \ {0} /\ held' \subseteq Keys /\ updated' \subseteq Keys
  <2>1. cur' \in {cur, 1, cur + 1} /\ held' \in {held, {}} /\ updated' \in {updated, {}}
    <3>1. CASE Wait
      BY <3>1 DEF Wait
    <3>2. CASE NothingNew
      BY <3>2 DEF NothingNew, NextSymbol
    <3>3. CASE Flush \/ Report \/ Post \/ PostFails
      BY <3>3 DEF Flush, Report, Post, PostFails
    <3> QED BY <3>1, <3>2, <3>3 DEF Others
  <2>2. cur \in Nat \ {0} /\ held \subseteq Keys /\ updated \subseteq Keys
    BY DEF Inv, Types
  <2> QED BY <2>1, <2>2
<1>4. plan.once => Report \/ Post \/ PostFails
  BY DEF Others, Wait, NothingNew, Flush, Polling, Inv, FullScan
<1>5. plan.once => pc' \in {"report", "post", "exited"} /\ updated' = updated
  BY <1>1, <1>4 DEF Report, Post, PostFails, AfterPost, Inv, FullScan
<1>6. pc' # "scan"
  <2>1. CASE plan.once
    BY <1>5, <2>1
  <2>2. CASE ~ plan.once
    BY <1>1, <2>2 DEF Others, Wait, NothingNew, Flush, Report, Post, PostFails, NextSymbol, AfterPost
  <2> QED BY <2>1, <2>2
<1>7. Inv' /\ FeedStep
  BY <1>1, <1>2, <1>3, <1>5, <1>6, IdleHolds
<1> QED BY <1>1, <1>7 DEF bars

LEMMA EndsHold == ASSUME Inv, Breaks \/ Interrupt PROVE Inv' /\ FeedStep
<1>1. /\ UNCHANGED <<plan, bars>> /\ pc # "exited" /\ pc' \in {"wait", "exited"}
      /\ plan.once => pc' = "exited" /\ updated' = updated
  BY DEF Breaks, Interrupt
<1>2. faults' \in Nat /\ cur' \in Nat \ {0} /\ held' \subseteq Keys /\ updated' \subseteq Keys
  BY DEF Breaks, Interrupt, Fail, Inv, Types
<1> QED BY <1>1, <1>2, IdleHolds

-----------------------------------------------------------------------------
(* The theorems.                                                           *)

LEMMA NextIsCovered ==
  ASSUME Next
  PROVE  \/ \E s \in Symbols, k \in Keys : Arrive(s, k)
         \/ NewBar \/ Scan \/ ScanFails \/ Others \/ Breaks \/ Interrupt
BY DEF Next, Step, Arrivals, Others

LEMMA StutterHolds == ASSUME Inv, UNCHANGED vars PROVE Inv' /\ FeedStep
<1>1. UNCHANGED <<plan, pc, cur, updated, held, fresh, taken, scan, faults>> /\ UNCHANGED bars
  BY DEF vars, thread, bars
<1>2. Inv'
  BY <1>1 DEF Inv, PlanOK, Types, FullScan, Scanning, Symbol
<1> QED BY <1>1, <1>2, QuietFeed

LEMMA StepHolds == Inv /\ [Next]_vars => Inv' /\ FeedStep
<1> SUFFICES ASSUME Inv, [Next]_vars PROVE Inv' /\ FeedStep
  OBVIOUS
<1>1. CASE UNCHANGED vars
  BY <1>1, StutterHolds
<1>2. CASE Next
  BY <1>2, NextIsCovered, ArriveHolds, NewBarHolds, ScanHolds, ScanFailsHolds, OthersHold, EndsHold
<1> QED BY <1>1, <1>2

(* What is about to be scanned has been taken up and never scanned, a full *)
(* scan has all of its symbols before it, and the tables stay tables.      *)
THEOREM InvHolds == Spec => []Inv
<1>1. Inv /\ [Next]_vars => Inv'
  BY StepHolds
<1> QED BY InitHolds, <1>1, PTL DEF Spec

(* The scanner implements BarFeed, whatever fails and whenever bars come:  *)
(* _collect_updated_watch_klines and scan_symbol together never scan a bar *)
(* twice, nor one that has not come in.                                    *)
THEOREM ScannerFeeds == Spec => ImplementsFeed
<1>1. Init => Feed!Init
  <2> SUFFICES ASSUME Init PROVE Feed!Init
    OBVIOUS
  <2>1. fresh = Each({}, {}) /\ scan = FALSE
    BY DEF Init
  <2>2. Marked(fresh) = {}
    BY <2>1 DEF Marked, Each, Streams
  <2>3. Marked(taken) \in SUBSET Streams
    BY DEF Marked
  <2> QED BY <2>1, <2>2, <2>3 DEF Feed!Init
<1>2. Inv /\ [Next]_vars => FeedStep
  BY StepHolds
<1>3. Spec => []Inv
  BY InvHolds
<1> QED BY <1>1, <1>2, <1>3, PTL DEF Spec, ImplementsFeed, Feed!Spec, FeedStep, FeedVars

(* A bar that was taken up is left without a scan only by a step in which  *)
(* a call failed or the program ended.                                     *)
THEOREM TakenBarsAreScanned == Spec => TakenIsScanned
<1> DEFINE Kept == \A s \in Symbols, k \in Keys :
             Abandoned(s, k)' /\ ~ Abandoned(s, k) => faults' < faults \/ pc' = "exited"
<1>1. Inv /\ [Next]_vars => [Kept]_vars
  <2> SUFFICES ASSUME Inv, Next PROVE Kept
    OBVIOUS
  <2>1. ASSUME NEW s \in Symbols, NEW k \in Keys, Arrive(s, k) PROVE Kept
    <3>1. UNCHANGED <<pc, cur, updated, taken, plan>>
      BY <2>1 DEF Arrive, thread
    <3> QED BY <3>1 DEF Abandoned, Symbol
  <2>2. CASE NewBar
    <3>1. /\ pc = "poll" /\ pc' = "scan"
          /\ \A s \in Symbols, k \in Keys :
               taken'[s][k] /\ ~ taken[s][k] => s = Symbol' /\ k \in updated'
      BY <2>2, NewBarHolds DEF NewBar, Polling
    <3> QED BY <3>1 DEF Abandoned
  <2>3. CASE Scan
    BY <2>3, ScanHolds DEF Abandoned
  <2>4. CASE ScanFails \/ Breaks
    BY <2>4 DEF ScanFails, Breaks, Fail, Inv, Types
  <2>5. CASE Others
    BY <2>5, OthersHold DEF Abandoned
  <2>6. CASE Interrupt
    BY <2>6 DEF Interrupt
  <2> QED BY <2>1, <2>2, <2>3, <2>4, <2>5, <2>6, NextIsCovered
<1> QED BY <1>1, InvHolds, PTL DEF Spec, TakenIsScanned
=============================================================================
