------------------------------- MODULE BarFeed -------------------------------
(***************************************************************************)
(* What the scanner owes its strategies.  A bar that comes in on a stream  *)
(* (a symbol and a storage key) is fresh until the scanner takes it up,    *)
(* and taken until a scan covers it.  A scan is only ever made for bars    *)
(* that were taken; so no bar is scanned twice, and none before it came.   *)
(* Bars of one stream that wait together are taken and covered together.   *)
(***************************************************************************)
CONSTANT Streams

VARIABLES
  fresh,  \* the streams with a bar the scanner has not taken up
  taken,  \* the streams with a bar taken up that no scan has covered
  scan    \* changes with every scan

Init == fresh = {} /\ taken \in SUBSET Streams /\ scan \in BOOLEAN

Arrive == \E x \in Streams : fresh' = fresh \cup {x} /\ UNCHANGED <<taken, scan>>

Take == /\ \E some \in SUBSET fresh : fresh' = fresh \ some /\ taken' = taken \cup some
        /\ UNCHANGED scan

Cover == /\ \E some \in SUBSET taken : some # {} /\ taken' = taken \ some
         /\ scan' = ~ scan
         /\ UNCHANGED fresh

Spec == Init /\ [][Arrive \/ Take \/ Cover]_<<fresh, taken, scan>>
=============================================================================
