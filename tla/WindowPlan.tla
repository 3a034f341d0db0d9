----------------------------- MODULE WindowPlan -----------------------------
(***************************************************************************)
(* How walk forward cuts its data into windows (data_splitter.rs) and how  *)
(* the replay joins the test parts again (stitch/replay.rs).  A window is  *)
(* two packs, train and test; a pack is a warm-up followed by an active    *)
(* part.  The windows are laid first, each one test part further on; then  *)
(* each pack is projected onto the second source through the mapping of    *)
(* base rows to its rows; at last the test parts become one schedule.      *)
(*                                                                         *)
(* A range <<a, b>> holds the rows a to b - 1, rows count from 0.          *)
(***************************************************************************)
EXTENDS ScheduleContract, Projection

CONSTANT Plans  \* what walk forward may be called with

\* train, test, min_warmup, mode: WalkForwardConfig; required, needed: the
\* warm-up of the base and of the second source (required_warmup_by_key);
\* mapping: the rows of the second source, one for each base row.
Plan == [train : Nat, test : Nat, min_warmup : Nat, mode : {"borrow", "extend"},
         required : Nat, needed : Nat, mapping : Seq(Nat \cup {None})]

ASSUME PlanAssumption == Plans \subseteq Plan /\ None \notin Nat

VARIABLES
  plan,      \* the call
  phase,     \* where it is
  shift,     \* the row the next window starts at
  windows,   \* the windows laid so far
  packs,     \* per window the projected ranges of its packs
  stitched   \* the schedule of the replay

vars == <<plan, phase, shift, windows, packs, stitched>>

Phases == {"laying", "projecting", "stitching", "done", "rejected"}
Pack == [pack : Nat \X Nat, active : Nat \X Nat]
Window == [train : Pack, test : Pack]
-----------------------------------------------------------------------------
Total(p) == Len(p.mapping)
TrainWarmup(p) == Larger(p.required, p.min_warmup)

\* At least one bar, so that the test part has a bar to carry a position on.
TestWarmup(p) == Larger(TrainWarmup(p), 1)

\* The variant lets a borrowed warm-up reach before the training part.
SoundAnyBorrow(p) == p.train >= 1 /\ p.test >= 3
Sound(p) ==
  /\ p.train >= 1 /\ p.test >= 3
  /\ p.mode = "borrow" => TestWarmup(p) <= p.train

TrainEnd(p, s) == s + TrainWarmup(p) + p.train

\* Where the test part starts and where its pack does.
TestStart(p, s) == IF p.mode = "borrow" THEN TrainEnd(p, s) ELSE TrainEnd(p, s) + TestWarmup(p)
TestPackStart(p, s) == TestStart(p, s) - TestWarmup(p)

\* The last window may be cut short, but not below three bars: one to carry,
\* one to execute, one to close.
TestEnd(p, s) == Smaller(TestStart(p, s) + p.test, Total(p))
Fits(p, s) == TrainEnd(p, s) <= Total(p) /\ TestEnd(p, s) - TestStart(p, s) >= 3

WindowAt(p, s) ==
  [train |-> [pack |-> <<s, TrainEnd(p, s)>>,
              active |-> <<s + TrainWarmup(p), TrainEnd(p, s)>>],
   test |-> [pack |-> <<TestPackStart(p, s), TestEnd(p, s)>>,
             active |-> <<TestStart(p, s), TestEnd(p, s)>>]]

\* The next window starts one test part later; the variant steps over the
\* test pack.
StepOverPack(p) == p.test + TestWarmup(p)
Step(p) == p.test
-----------------------------------------------------------------------------
Init ==
  /\ plan \in Plans
  /\ phase = "laying"
  /\ shift = 0
  /\ windows = <<>> /\ packs = <<>> /\ stitched = <<>>

\* A configuration that cannot work, or data too short for one window.
RejectPlan ==
  /\ phase = "laying" /\ windows = <<>>
  /\ ~Sound(plan) \/ ~Fits(plan, 0)
  /\ phase' = "rejected"
  /\ UNCHANGED <<plan, shift, windows, packs, stitched>>

Lay ==
  /\ phase = "laying"
  /\ Sound(plan) /\ Fits(plan, shift)
  /\ windows' = Append(windows, WindowAt(plan, shift))
  /\ shift' = shift + Step(plan)
  /\ UNCHANGED <<plan, phase, packs, stitched>>

EndLaying ==
  /\ phase = "laying" /\ windows # <<>>
  /\ ~Fits(plan, shift)
  /\ phase' = "projecting"
  /\ UNCHANGED <<plan, shift, windows, packs, stitched>>

\* Both packs of the next window, or the error that ends the call.
Project ==
  /\ phase = "projecting" /\ Len(packs) < Len(windows)
  /\ LET w == windows[Len(packs) + 1] IN
       IF Projects(plan, w.train, plan.needed) /\ Projects(plan, w.test, plan.needed)
       THEN /\ packs' = Append(packs, [train |-> Projected(plan, w.train, plan.needed),
                                       test |-> Projected(plan, w.test, plan.needed)])
            /\ phase' = IF Len(packs) + 1 = Len(windows) THEN "stitching" ELSE phase
       ELSE phase' = "rejected" /\ UNCHANGED packs
  /\ UNCHANGED <<plan, shift, windows, stitched>>

StitchedStart == windows[1].test.active[1]
StitchedEnd == windows[Len(windows)].test.active[2]
StitchedPack == [pack |-> <<StitchedStart, StitchedEnd>>, active |-> <<StitchedStart, StitchedEnd>>]

\* build_stitched_signals and build_backtest_schedule: the test parts, moved
\* to start at row 0.
Segments == [i \in 1..Len(windows) |->
               [start |-> windows[i].test.active[1] - StitchedStart,
                end |-> windows[i].test.active[2] - StitchedStart]]

Stitch ==
  /\ phase = "stitching"
  /\ IF Projects(plan, StitchedPack, 0) /\ Contiguous(Segments, StitchedEnd - StitchedStart)
     THEN phase' = "done" /\ stitched' = Segments
     ELSE phase' = "rejected" /\ UNCHANGED stitched
  /\ UNCHANGED <<plan, shift, windows, packs>>

Next == RejectPlan \/ Lay \/ EndLaying \/ Project \/ Stitch

\* The call runs alone, to its end.
Spec == Init /\ [][Next]_vars
-----------------------------------------------------------------------------
\* Properties

\* The test parts follow one another without a gap or an overlap, so the
\* replay's own checks (replay.rs) never refuse what the planner laid out.
OneSchedule == windows # <<>> => Contiguous(Segments, StitchedEnd - StitchedStart)

\* A window never trains on a row it is tested on, and the warm-up its test
\* borrows lies in that window's own training part, or after it.
NoPeek ==
  \A i \in 1..Len(windows) :
    LET w == windows[i]
    IN  /\ w.train.pack[2] <= w.test.active[1]
        /\ w.test.pack[1] >= w.train.active[1]
        /\ plan.mode = "extend" => w.test.pack[1] >= w.train.pack[2]

\* Only the last test part may be cut short, none is shorter than three bars
\* (carry, execute, close), and planning stops only when the data left would
\* not make one more.
RowsUsed ==
  /\ \A i \in 1..Len(windows) : windows[i].test.active[2] - windows[i].test.active[1] >= 3
  /\ \A i \in 1..Len(windows) - 1 :
       windows[i].test.active[2] - windows[i].test.active[1] = plan.test
  /\ phase \in {"projecting", "stitching", "done"} =>
       Total(plan) - windows[Len(windows)].test.active[2] < 3

\* What a pack is given of the second source: the bar of each of its rows, the
\* warm-up asked for before the first active bar, and no bar later than those
\* its rows map to.
Served(k, q) ==
  /\ \A n \in Mapped(plan, k.pack) : n \in q.start..q.end - 1
  /\ q.end - 1 \in Mapped(plan, k.pack)
  /\ q.warmup >= plan.needed
  /\ q.start + q.warmup = MapOf(plan, k.active[1])

\* Each pack starts warm on both sources; a test pack has a bar to carry on.
StartsWarm ==
  \A i \in 1..Len(packs) :
    /\ Served(windows[i].train, packs[i].train)
    /\ Served(windows[i].test, packs[i].test)
    /\ windows[i].train.active[1] - windows[i].train.pack[1] >= plan.required
    /\ windows[i].test.active[1] - windows[i].test.pack[1] >= Larger(plan.required, 1)
=============================================================================
