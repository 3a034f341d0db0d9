-------------------------- MODULE WindowPlan_proofs --------------------------
(***************************************************************************)
(* For every configuration and every length of the data: the test parts    *)
(* make one schedule, no window trains on a row it is tested on, no bars   *)
(* are left over that would have made one more window, and every pack      *)
(* starts warm on both sources.                                            *)
(***************************************************************************)
EXTENDS WindowPlan, WellFoundedInduction, TLAPS

\* What the loop of generate_windows keeps: each window is the one of some
\* row it fits at, each starts one test part after the one before, and shift
\* is one test part after the last.
Laid ==
  /\ plan \in Plans
  /\ phase \in Phases
  /\ shift \in Nat
  /\ windows \in Seq(Window)
  /\ windows # <<>> => Sound(plan)
  /\ windows = <<>> => shift = 0 /\ phase \in {"laying", "rejected"}
  /\ \A i \in 1..Len(windows) :
       /\ windows[i].train.pack[1] \in Nat
       /\ windows[i] = WindowAt(plan, windows[i].train.pack[1])
       /\ Fits(plan, windows[i].train.pack[1])
  /\ \A i \in 1..Len(windows) - 1 :
       windows[i + 1].train.pack[1] = windows[i].train.pack[1] + Step(plan)
  /\ windows # <<>> => shift = windows[Len(windows)].train.pack[1] + Step(plan)
  /\ phase \in {"projecting", "stitching", "done"} => ~Fits(plan, shift)

\* The numbers of a configuration.
LEMMA PlanNumbers ==
  ASSUME NEW p \in Plan
  PROVE  /\ p.train \in Nat /\ p.test \in Nat
         /\ TrainWarmup(p) \in Nat /\ TestWarmup(p) \in Nat /\ TestWarmup(p) >= 1
         /\ TestWarmup(p) >= TrainWarmup(p)
         /\ p.mode \in {"borrow", "extend"}
         /\ Total(p) \in Nat
BY DEF Plan, TrainWarmup, TestWarmup, Larger, Total

\* The ranges of a window that fits at row s of a sound configuration.
LEMMA WindowFacts ==
  ASSUME NEW p \in Plan, NEW s \in Nat, Sound(p), Fits(p, s)
  PROVE  /\ WindowAt(p, s) \in Window
         /\ TrainEnd(p, s) \in Nat /\ TestStart(p, s) \in Nat
         /\ TestPackStart(p, s) \in Nat /\ TestEnd(p, s) \in Nat
         /\ TrainEnd(p, s) <= TestStart(p, s)
         /\ TestPackStart(p, s) >= s + TrainWarmup(p)
         /\ p.mode = "extend" => TestPackStart(p, s) >= TrainEnd(p, s)
         /\ TestEnd(p, s) <= Total(p)
         /\ TestEnd(p, s) >= TestStart(p, s) + 3
<1>1. /\ p.train \in Nat /\ p.test \in Nat
      /\ TrainWarmup(p) \in Nat /\ TestWarmup(p) \in Nat /\ TestWarmup(p) >= 1
      /\ p.mode \in {"borrow", "extend"} /\ Total(p) \in Nat
  BY PlanNumbers
<1>2. /\ TrainEnd(p, s) = s + TrainWarmup(p) + p.train
      /\ TrainEnd(p, s) \in Nat
  BY <1>1 DEF TrainEnd
<1>3. /\ TestStart(p, s) \in Nat
      /\ TrainEnd(p, s) <= TestStart(p, s)
      /\ TestPackStart(p, s) \in Nat
      /\ TestPackStart(p, s) >= s + TrainWarmup(p)
      /\ p.mode = "extend" => TestPackStart(p, s) >= TrainEnd(p, s)
  <2>1. CASE p.mode = "borrow"
    BY <2>1, <1>1, <1>2 DEF TestStart, TestPackStart, Sound
  <2>2. CASE p.mode = "extend"
    BY <2>2, <1>1, <1>2 DEF TestStart, TestPackStart
  <2> QED BY <2>1, <2>2, <1>1
<1>4. TestEnd(p, s) \in Nat /\ TestEnd(p, s) <= Total(p)
  BY <1>1, <1>3 DEF TestEnd, Smaller
<1>5. TestEnd(p, s) >= TestStart(p, s) + 3
  BY <1>3, <1>4 DEF Fits
<1>6. WindowAt(p, s) \in Window
  BY <1>1, <1>2, <1>3, <1>4 DEF WindowAt, Window, Pack
<1> QED BY <1>2, <1>3, <1>4, <1>5, <1>6

\* Where windows one step apart both fit, the first is tested in full and the
\* second is tested from where the first ended.
LEMMA NextWindow ==
  ASSUME NEW p \in Plan, NEW s \in Nat, Sound(p), Fits(p, s), Fits(p, s + Step(p))
  PROVE  /\ TestEnd(p, s) = TestStart(p, s + Step(p))
         /\ TestEnd(p, s) - TestStart(p, s) = p.test
<1>1. p.train \in Nat /\ p.test \in Nat /\ TrainWarmup(p) \in Nat /\ TestWarmup(p) \in Nat
      /\ Total(p) \in Nat
  BY PlanNumbers
<1>2. s + Step(p) \in Nat
  BY <1>1 DEF Step
<1>3. TestStart(p, s + Step(p)) = TestStart(p, s) + p.test
  BY <1>1 DEF TestStart, TrainEnd, Step
<1>4. TestStart(p, s) \in Nat /\ TestStart(p, s + Step(p)) + 3 <= Total(p)
  BY <1>1, <1>2, WindowFacts
<1> QED BY <1>1, <1>3, <1>4 DEF TestEnd, Smaller

\* When no window fits one step after a window that does, fewer than three
\* bars are left after it.
LEMMA NoRoom ==
  ASSUME NEW p \in Plan, NEW s \in Nat, Sound(p), Fits(p, s), ~Fits(p, s + Step(p))
  PROVE  Total(p) - TestEnd(p, s) < 3
<1>1. /\ p.train \in Nat /\ p.test \in Nat /\ TrainWarmup(p) \in Nat
      /\ TestWarmup(p) \in Nat /\ Total(p) \in Nat /\ p.test >= 3
      /\ p.mode \in {"borrow", "extend"}
  BY PlanNumbers DEF Sound
<1>2. /\ TestStart(p, s) \in Nat /\ TrainEnd(p, s) \in Nat
      /\ TestEnd(p, s) \in Nat /\ TestEnd(p, s) <= Total(p)
  BY WindowFacts
<1> DEFINE t == s + Step(p)
<1>3. /\ TestStart(p, t) = TestStart(p, s) + p.test
      /\ TrainEnd(p, t) \in Nat
      /\ TrainEnd(p, t) <= TestStart(p, t)
  BY <1>1, <1>2 DEF TestStart, TrainEnd, Step
<1>4. SUFFICES ASSUME Total(p) - TestEnd(p, s) >= 3
               PROVE  FALSE
  BY <1>1, <1>2
<1>5. TestEnd(p, s) = TestStart(p, s) + p.test
  BY <1>1, <1>2, <1>4 DEF TestEnd, Smaller
<1>6. TestStart(p, t) + 3 <= Total(p)
  BY <1>1, <1>2, <1>3, <1>4, <1>5
<1>7. TrainEnd(p, t) <= Total(p)
  BY <1>1, <1>2, <1>3, <1>6
<1>8. TestEnd(p, t) - TestStart(p, t) >= 3
  BY <1>1, <1>2, <1>3, <1>6 DEF TestEnd, Smaller
<1> QED BY <1>7, <1>8 DEF Fits

LEMMA LaidInit == Init => Laid
BY DEF Init, Laid, Phases

LEMMA LaidStep == Laid /\ [Next]_vars => Laid'
<1> SUFFICES ASSUME Laid, [Next]_vars PROVE Laid'
  OBVIOUS
<1>0. plan \in Plan
  BY PlanAssumption DEF Laid
<1>1. CASE RejectPlan
  BY <1>1 DEF RejectPlan, Laid, Phases
<1>2. CASE Lay
  <2> DEFINE w == WindowAt(plan, shift)
             n == Len(windows)
  <2>1. /\ shift \in Nat /\ windows \in Seq(Window) /\ n \in Nat
        /\ plan' = plan /\ phase' = phase /\ phase = "laying"
        /\ windows' = Append(windows, w) /\ shift' = shift + Step(plan)
        /\ Sound(plan) /\ Fits(plan, shift)
    BY <1>2 DEF Lay, Laid
  <2>2. w \in Window /\ w.train.pack[1] = shift
    BY <1>0, <2>1, WindowFacts DEF WindowAt
  <2>3. Step(plan) \in Nat
    BY <1>0, PlanNumbers DEF Step
  <2>4. /\ windows' \in Seq(Window) /\ Len(windows') = n + 1
        /\ windows'[n + 1] = w
        /\ \A i \in 1..n : windows'[i] = windows[i]
    BY <2>1, <2>2
  <2> HIDE DEF w
  <2>5. \A i \in 1..n + 1 :
          /\ windows'[i].train.pack[1] \in Nat
          /\ windows'[i] = WindowAt(plan, windows'[i].train.pack[1])
          /\ Fits(plan, windows'[i].train.pack[1])
    <3> TAKE i \in 1..n + 1
    <3>1. CASE i = n + 1
      BY <3>1, <2>1, <2>2, <2>4 DEF w
    <3>2. CASE i \in 1..n
      BY <3>2, <2>4 DEF Laid
    <3> QED BY <3>1, <3>2, <2>1
  <2>6. \A i \in 1..(n + 1) - 1 :
          windows'[i + 1].train.pack[1] = windows'[i].train.pack[1] + Step(plan)
    <3> TAKE i \in 1..(n + 1) - 1
    <3>1. CASE i = n
      <4>1. windows # <<>>
        BY <3>1, <2>1
      <4>2. shift = windows[n].train.pack[1] + Step(plan)
        BY <4>1 DEF Laid
      <4> QED BY <3>1, <4>2, <2>1, <2>2, <2>4
    <3>2. CASE i \in 1..n - 1
      <4>1. windows[i + 1].train.pack[1] = windows[i].train.pack[1] + Step(plan)
        BY <3>2 DEF Laid
      <4> QED BY <3>2, <4>1, <2>1, <2>4
    <3> QED BY <3>1, <3>2, <2>1
  <2>7. windows' # <<>>
    BY <2>1, <2>4
  <2>8. shift' \in Nat /\ shift' = windows'[Len(windows')].train.pack[1] + Step(plan)
    BY <2>1, <2>2, <2>3, <2>4
  <2>9. Step(plan)' = Step(plan) /\ Sound(plan)'
    BY <2>1
  <2>10. phase' = "laying" /\ phase' \in Phases /\ plan' \in Plans
    BY <2>1 DEF Phases, Laid
  <2> QED BY <2>1, <2>4, <2>5, <2>6, <2>7, <2>8, <2>9, <2>10 DEF Laid
<1>3. CASE EndLaying
  BY <1>3 DEF EndLaying, Laid, Phases
<1>4. CASE Project
  <2>1. windows # <<>> /\ phase = "projecting" /\ phase' \in {"projecting", "stitching", "rejected"}
        /\ UNCHANGED <<plan, shift, windows>>
    BY <1>4 DEF Project, Laid
  <2> QED BY <2>1 DEF Laid, Phases
<1>5. CASE Stitch
  <2>1. phase = "stitching" /\ phase' \in {"done", "rejected"} /\ UNCHANGED <<plan, shift, windows>>
    BY <1>5 DEF Stitch
  <2> QED BY <2>1 DEF Laid, Phases
<1>6. CASE UNCHANGED vars
  BY <1>6 DEF vars, Laid
<1> QED BY <1>1, <1>2, <1>3, <1>4, <1>5, <1>6 DEF Next

LEMMA LaidAlways == Spec => []Laid
BY LaidInit, LaidStep, PTL DEF Spec

\* What Laid says of one window and of two neighbours.
LEMMA WindowOf ==
  ASSUME Laid, NEW i \in 1..Len(windows)
  PROVE  \E s \in Nat :
           /\ s = windows[i].train.pack[1]
           /\ windows[i] = WindowAt(plan, s) /\ Sound(plan) /\ Fits(plan, s)
           /\ windows[i].train.pack = <<s, TrainEnd(plan, s)>>
           /\ windows[i].train.active = <<s + TrainWarmup(plan), TrainEnd(plan, s)>>
           /\ windows[i].test.pack = <<TestPackStart(plan, s), TestEnd(plan, s)>>
           /\ windows[i].test.active = <<TestStart(plan, s), TestEnd(plan, s)>>
<1>1. windows # <<>>
  BY DEF Laid
<1> DEFINE s == windows[i].train.pack[1]
<1>2. s \in Nat /\ windows[i] = WindowAt(plan, s) /\ Sound(plan) /\ Fits(plan, s)
  BY <1>1 DEF Laid
<1> HIDE DEF s
<1>3. /\ windows[i].train.pack = <<s, TrainEnd(plan, s)>>
      /\ windows[i].train.active = <<s + TrainWarmup(plan), TrainEnd(plan, s)>>
      /\ windows[i].test.pack = <<TestPackStart(plan, s), TestEnd(plan, s)>>
      /\ windows[i].test.active = <<TestStart(plan, s), TestEnd(plan, s)>>
  BY <1>2 DEF WindowAt
<1> QED BY <1>2, <1>3 DEF s

LEMMA Neighbours ==
  ASSUME Laid, NEW i \in 1..Len(windows) - 1
  PROVE  /\ windows[i].test.active[2] = windows[i + 1].test.active[1]
         /\ windows[i].test.active[2] - windows[i].test.active[1] = plan.test
<1>1. i \in 1..Len(windows) /\ i + 1 \in 1..Len(windows) /\ plan \in Plan
  BY PlanAssumption DEF Laid
<1>2. PICK s \in Nat :
        /\ s = windows[i].train.pack[1] /\ Sound(plan) /\ Fits(plan, s)
        /\ windows[i].test.active = <<TestStart(plan, s), TestEnd(plan, s)>>
  BY <1>1, WindowOf
<1>3. PICK t \in Nat :
        /\ t = windows[i + 1].train.pack[1] /\ Fits(plan, t)
        /\ windows[i + 1].test.active = <<TestStart(plan, t), TestEnd(plan, t)>>
  BY <1>1, WindowOf
<1>4. t = s + Step(plan)
  BY <1>2, <1>3 DEF Laid
<1>5. /\ TestEnd(plan, s) = TestStart(plan, s + Step(plan))
      /\ TestEnd(plan, s) - TestStart(plan, s) = plan.test
  BY <1>1, <1>2, <1>3, <1>4, NextWindow
<1> QED BY <1>2, <1>3, <1>4, <1>5

\* The numbers of a test part.
LEMMA TestPart ==
  ASSUME Laid, NEW i \in 1..Len(windows)
  PROVE  /\ windows[i].test.active[1] \in Nat /\ windows[i].test.active[2] \in Nat
         /\ windows[i].test.active[2] - windows[i].test.active[1] >= 3
<1>1. plan \in Plan
  BY PlanAssumption DEF Laid
<1>2. PICK s \in Nat :
        /\ Sound(plan) /\ Fits(plan, s)
        /\ windows[i].test.active = <<TestStart(plan, s), TestEnd(plan, s)>>
  BY WindowOf
<1>3. /\ TestStart(plan, s) \in Nat /\ TestEnd(plan, s) \in Nat
      /\ TestEnd(plan, s) >= TestStart(plan, s) + 3
  BY <1>1, <1>2, WindowFacts
<1> QED BY <1>2, <1>3

\* The test parts of any plan make one schedule without a gap or an overlap
\* (generate_windows lays what build_backtest_schedule demands).
THEOREM TestPartsAreOneSchedule == Spec => []OneSchedule
<1>1. Laid => OneSchedule
  <2> SUFFICES ASSUME Laid, windows # <<>>
               PROVE  Contiguous(Segments, StitchedEnd - StitchedStart)
    BY DEF OneSchedule
  <2> DEFINE n == Len(windows)
             first == windows[1].test.active[1]
  <2>1. n \in Nat /\ n >= 1 /\ 1 \in 1..n /\ n \in 1..n
    BY DEF Laid
  <2>2. \A i \in 1..n : /\ windows[i].test.active[1] \in Nat
                        /\ windows[i].test.active[2] \in Nat
                        /\ windows[i].test.active[2] - windows[i].test.active[1] >= 3
    BY TestPart
  <2>3. \A i \in 1..n - 1 : windows[i].test.active[2] = windows[i + 1].test.active[1]
    BY Neighbours
  <2>4. /\ Len(Segments) = n
        /\ \A i \in 1..n : /\ Segments[i].start = windows[i].test.active[1] - first
                           /\ Segments[i].end = windows[i].test.active[2] - first
    BY <2>1 DEF Segments, StitchedStart
  <2>5. Segments # <<>>
    BY <2>1, <2>4
  <2>6. StitchedEnd = windows[n].test.active[2] /\ StitchedStart = first
    BY DEF StitchedEnd, StitchedStart
  <2> HIDE DEF n, first
  <2>7. first \in Nat
    BY <2>1, <2>2 DEF first
  <2>8. Segments[1].start = 0
    BY <2>1, <2>4, <2>7 DEF first
  <2>9. Segments[n].end = StitchedEnd - StitchedStart
    BY <2>1, <2>4, <2>6
  <2>10. \A i \in 1..n : Segments[i].start < Segments[i].end
    <3> TAKE i \in 1..n
    <3> DEFINE a == windows[i].test.active[1]
               b == windows[i].test.active[2]
    <3>1. a \in Nat /\ b \in Nat /\ b - a >= 3
      BY <2>2
    <3>2. Segments[i].start = a - first /\ Segments[i].end = b - first
      BY <2>4
    <3> HIDE DEF a, b
    <3> QED BY <3>1, <3>2, <2>7
  <2>11. \A i \in 1..n - 1 : Segments[i + 1].start = Segments[i].end
    <3> TAKE i \in 1..n - 1
    <3>1. i \in 1..n /\ i + 1 \in 1..n
      BY <2>1
    <3> QED BY <3>1, <2>3, <2>4
  <2> QED BY <2>4, <2>5, <2>8, <2>9, <2>10, <2>11 DEF Contiguous
<1> QED BY <1>1, LaidAlways, PTL

\* Training ends before the test begins, and a borrowed warm-up stays within
\* the window's own training part (guard at data_splitter.rs:212).
THEOREM NoWindowPeeks == Spec => []NoPeek
<1>1. Laid => NoPeek
  <2> SUFFICES ASSUME Laid, NEW i \in 1..Len(windows)
               PROVE  /\ windows[i].train.pack[2] <= windows[i].test.active[1]
                      /\ windows[i].test.pack[1] >= windows[i].train.active[1]
                      /\ plan.mode = "extend" => windows[i].test.pack[1] >= windows[i].train.pack[2]
    BY DEF NoPeek
  <2>1. plan \in Plan
    BY PlanAssumption DEF Laid
  <2>2. PICK s \in Nat :
          /\ Sound(plan) /\ Fits(plan, s)
          /\ windows[i].train.pack = <<s, TrainEnd(plan, s)>>
          /\ windows[i].train.active = <<s + TrainWarmup(plan), TrainEnd(plan, s)>>
          /\ windows[i].test.pack = <<TestPackStart(plan, s), TestEnd(plan, s)>>
          /\ windows[i].test.active = <<TestStart(plan, s), TestEnd(plan, s)>>
    BY WindowOf
  <2>3. /\ TrainEnd(plan, s) <= TestStart(plan, s)
        /\ TestPackStart(plan, s) >= s + TrainWarmup(plan)
        /\ plan.mode = "extend" => TestPackStart(plan, s) >= TrainEnd(plan, s)
    BY <2>1, <2>2, WindowFacts
  <2> QED BY <2>2, <2>3
<1> QED BY <1>1, LaidAlways, PTL

\* Every test part but the last is whole, none is shorter than three bars, and
\* the planner stops only when fewer than three bars are left.
THEOREM AllRowsAreUsed == Spec => []RowsUsed
<1>1. Laid => RowsUsed
  <2> SUFFICES ASSUME Laid PROVE RowsUsed
    OBVIOUS
  <2>1. \A i \in 1..Len(windows) : windows[i].test.active[2] - windows[i].test.active[1] >= 3
    BY TestPart
  <2>2. \A i \in 1..Len(windows) - 1 :
          windows[i].test.active[2] - windows[i].test.active[1] = plan.test
    BY Neighbours
  <2>3. ASSUME phase \in {"projecting", "stitching", "done"}
        PROVE  Total(plan) - windows[Len(windows)].test.active[2] < 3
    <3>1. /\ windows # <<>> /\ ~Fits(plan, shift) /\ plan \in Plan
          /\ shift = windows[Len(windows)].train.pack[1] + Step(plan)
          /\ Len(windows) \in 1..Len(windows)
      BY <2>3, PlanAssumption DEF Laid
    <3>2. PICK s \in Nat :
            /\ s = windows[Len(windows)].train.pack[1] /\ Sound(plan) /\ Fits(plan, s)
            /\ windows[Len(windows)].test.active = <<TestStart(plan, s), TestEnd(plan, s)>>
      BY <3>1, WindowOf
    <3>3. Total(plan) - TestEnd(plan, s) < 3
      BY <3>1, <3>2, NoRoom
    <3> QED BY <3>2, <3>3
  <2> QED BY <2>1, <2>2, <2>3 DEF RowsUsed
<1> QED BY <1>1, LaidAlways, PTL

-----------------------------------------------------------------------------
\* The projection of a pack.

\* The least-number principle.
LEMMA LeastRow ==
  ASSUME NEW T, T \subseteq Nat, T # {}
  PROVE  \E m \in T : \A k \in T : m <= k
<1>1. PICK x \in T : \A y \in T : <<y, x>> \notin OpToRel(<, Nat)
  BY WFMin, NatLessThanWellFounded, Zenon
<1>2. \A y \in T : ~ (y < x)
  BY <1>1, Zenon DEF OpToRel
<1> QED BY <1>2

\* S is empty or has a least and a greatest element.
Bounded(S) == S = {} \/ /\ \E m \in S : \A n \in S : m <= n
                        /\ \E m \in S : \A n \in S : n <= m

LEMMA BoundedExtends ==
  ASSUME NEW S, S \subseteq Int, Bounded(S), NEW x \in Int
  PROVE  Bounded(S \cup {x})
<1>1. CASE S = {}
  BY <1>1 DEF Bounded
<1>2. CASE S # {}
  <2>1. PICK a \in S : \A n \in S : a <= n
    BY <1>2 DEF Bounded
  <2>2. PICK b \in S : \A n \in S : n <= b
    BY <1>2 DEF Bounded
  <2>3. \E m \in S \cup {x} : \A n \in S \cup {x} : m <= n
    <3>1. CASE x <= a
      BY <2>1, <3>1
    <3>2. CASE ~ (x <= a)
      BY <2>1, <3>2
    <3> QED BY <3>1, <3>2
  <2>4. \E m \in S \cup {x} : \A n \in S \cup {x} : n <= m
    <3>1. CASE b <= x
      BY <2>2, <3>1
    <3>2. CASE ~ (b <= x)
      BY <2>2, <3>2
    <3> QED BY <3>1, <3>2
  <2> QED BY <2>3, <2>4 DEF Bounded
<1> QED BY <1>1, <1>2

\* The rows a range of base rows maps to, taken one base row at a time.
LEMMA MappedBounded ==
  ASSUME NEW p \in Plan, NEW a \in Nat, NEW b \in Nat, b <= Total(p)
  PROVE  /\ Mapped(p, <<a, b>>) \subseteq Nat
         /\ Bounded(Mapped(p, <<a, b>>))
<1> DEFINE M(c) == Mapped(p, <<a, c>>)
           Bad == {c \in 0..Total(p) : ~ Bounded(M(c))}
<1>1. Total(p) \in Nat /\ \A r \in 0..Total(p) - 1 : MapOf(p, r) \in Nat \cup {None}
  BY DEF Plan, Total, MapOf
<1>2. \A c \in 0..Total(p) : M(c) \subseteq Nat
  BY <1>1 DEF Mapped
<1>3. ASSUME Bad # {}
      PROVE  FALSE
  <2>1. Bad \subseteq Nat
    BY <1>1
  <2>2. PICK c \in Bad : \A k \in Bad : c <= k
    BY <1>3, <2>1, LeastRow
  <2>3. c \in Nat /\ c \in 0..Total(p) /\ ~ Bounded(M(c))
    BY <1>1, <2>2
  <2>4. CASE c <= a
    <3>1. M(c) = {}
      BY <2>3, <2>4 DEF Mapped
    <3> QED BY <2>3, <3>1 DEF Bounded
  <2>5. CASE a < c
    <3>1. c - 1 \in 0..Total(p) /\ c - 1 \notin Bad /\ Bounded(M(c - 1))
      BY <1>1, <2>2, <2>3, <2>5
    <3>2. a..c - 1 = a..(c - 1) - 1 \cup {c - 1}
      BY <2>3, <2>5
    <3>3. M(c) = M(c - 1) \cup ({MapOf(p, c - 1)} \ {None})
      BY <3>2 DEF Mapped
    <3>4. MapOf(p, c - 1) \in Nat \cup {None}
      BY <1>1, <2>3, <2>5
    <3>5. M(c - 1) \subseteq Int
      BY <1>2, <3>1
    <3> HIDE DEF M
    <3>6. CASE MapOf(p, c - 1) = None
      <4>1. M(c) = M(c - 1)
        BY <3>3, <3>6
      <4> QED BY <2>3, <3>1, <4>1
    <3>7. CASE MapOf(p, c - 1) # None
      <4>1. M(c) = M(c - 1) \cup {MapOf(p, c - 1)} /\ MapOf(p, c - 1) \in Int
        BY <3>3, <3>4, <3>7
      <4>2. Bounded(M(c - 1) \cup {MapOf(p, c - 1)})
        BY <3>1, <3>5, <4>1, BoundedExtends
      <4> QED BY <2>3, <4>1, <4>2
    <3> QED BY <3>6, <3>7
  <2> QED BY <2>3, <2>4, <2>5
<1>4. b \in 0..Total(p) /\ b \notin Bad
  BY <1>1, <1>3
<1> QED BY <1>2, <1>4

\* A pack within the data whose projection is not refused is served in full.
LEMMA ProjectedServes ==
  ASSUME Laid, NEW k \in Pack, k.pack[2] <= Total(plan),
         k.pack[1] <= k.active[1], k.active[1] < k.pack[2],
         Projects(plan, k, plan.needed),
         NEW q, q = Projected(plan, k, plan.needed)
  PROVE  Served(k, q) /\ q \in [start : Int, end : Int, warmup : Int]
<1> DEFINE S == Mapped(plan, k.pack)
           at == MapOf(plan, k.active[1])
           first == at - plan.needed
<1>1. /\ plan \in Plan /\ plan.needed \in Nat /\ Total(plan) \in Nat
      /\ k.pack[1] \in Nat /\ k.pack[2] \in Nat /\ k.active[1] \in Nat
      /\ k.pack = <<k.pack[1], k.pack[2]>>
  BY PlanAssumption, PlanNumbers DEF Laid, Plan, Pack
<1>2. S \subseteq Nat /\ Bounded(S)
  BY <1>1, MappedBounded
<1>3. at \in S /\ at >= plan.needed
  BY <1>1 DEF Mapped, Projects
<1>4. first \in Int /\ at \in Nat
  BY <1>1, <1>2, <1>3
<1>5. /\ Lowest(plan, k, plan.needed) =
           CHOOSE m \in S \cup {first} : \A n \in S \cup {first} : m <= n
      /\ Highest(plan, k) = CHOOSE m \in S : \A n \in S : n <= m
  BY DEF Lowest, Highest
<1> HIDE DEF S, first
<1>6. Bounded(S \cup {first})
  <2>1. S \subseteq Int
    BY <1>2
  <2> QED BY <1>2, <1>4, <2>1, BoundedExtends
<1>7. /\ Lowest(plan, k, plan.needed) \in S \cup {first}
      /\ \A n \in S \cup {first} : Lowest(plan, k, plan.needed) <= n
  BY <1>5, <1>6 DEF Bounded
<1>8. Highest(plan, k) \in S /\ \A n \in S : n <= Highest(plan, k)
  BY <1>2, <1>3, <1>5 DEF Bounded
<1>9. /\ q.start = Lowest(plan, k, plan.needed) /\ q.end = Highest(plan, k) + 1
      /\ q.warmup = at - Lowest(plan, k, plan.needed)
      /\ q = [start |-> q.start, end |-> q.end, warmup |-> q.warmup]
  BY DEF Projected
<1>10. q.start \in Int /\ q.end - 1 \in Int /\ q.end \in Int /\ q.warmup \in Int
  BY <1>2, <1>4, <1>7, <1>8, <1>9
<1>11. \A n \in S : n \in q.start..q.end - 1
  BY <1>2, <1>7, <1>8, <1>9, <1>10
<1>12. q.end - 1 \in S
  BY <1>2, <1>8, <1>9
<1>13. q.warmup >= plan.needed
  BY <1>1, <1>4, <1>7, <1>9, <1>10 DEF first
<1>14. q.start + q.warmup = at
  BY <1>4, <1>9, <1>10
<1> HIDE DEF at
<1>15. Served(k, q)
  BY <1>11, <1>12, <1>13, <1>14 DEF Served, S, at
<1> QED BY <1>9, <1>10, <1>15

\* The packs of a laid window lie in the data and hold their active part.
LEMMA PacksInData ==
  ASSUME Laid, NEW i \in 1..Len(windows)
  PROVE  /\ \A k \in {windows[i].train, windows[i].test} :
              /\ k \in Pack /\ k.pack[2] <= Total(plan)
              /\ k.pack[1] <= k.active[1] /\ k.active[1] < k.pack[2]
         /\ windows[i].train.active[1] - windows[i].train.pack[1] >= plan.required
         /\ windows[i].test.active[1] - windows[i].test.pack[1] >= Larger(plan.required, 1)
<1>1. plan \in Plan /\ windows[i] \in Window
  BY PlanAssumption DEF Laid
<1>2. PICK s \in Nat :
        /\ Sound(plan) /\ Fits(plan, s)
        /\ windows[i].train.pack = <<s, TrainEnd(plan, s)>>
        /\ windows[i].train.active = <<s + TrainWarmup(plan), TrainEnd(plan, s)>>
        /\ windows[i].test.pack = <<TestPackStart(plan, s), TestEnd(plan, s)>>
        /\ windows[i].test.active = <<TestStart(plan, s), TestEnd(plan, s)>>
  BY WindowOf
<1>3. /\ plan.train \in Nat /\ TrainWarmup(plan) \in Nat /\ TestWarmup(plan) \in Nat
      /\ plan.required \in Nat /\ plan.min_warmup \in Nat /\ plan.train >= 1
  BY <1>1, <1>2, PlanNumbers DEF Plan, Sound
<1>4. /\ TrainWarmup(plan) >= plan.required /\ TestWarmup(plan) >= Larger(plan.required, 1)
      /\ TestWarmup(plan) >= 1
  BY <1>3 DEF TrainWarmup, TestWarmup, Larger
<1>5. /\ TrainEnd(plan, s) \in Nat /\ TestStart(plan, s) \in Nat
      /\ TestEnd(plan, s) \in Nat /\ TestEnd(plan, s) <= Total(plan)
      /\ TestEnd(plan, s) >= TestStart(plan, s) + 3
  BY <1>1, <1>2, WindowFacts
<1>6. TrainEnd(plan, s) = s + TrainWarmup(plan) + plan.train /\ TrainEnd(plan, s) <= Total(plan)
  BY <1>2 DEF TrainEnd, Fits
<1>7. TestPackStart(plan, s) = TestStart(plan, s) - TestWarmup(plan)
  BY DEF TestPackStart
<1>8. windows[i].train \in Pack /\ windows[i].test \in Pack
  BY <1>1 DEF Window
<1>9. Larger(plan.required, 1) \in Nat
  BY <1>3 DEF Larger
<1>10. /\ windows[i].train.pack[2] <= Total(plan)
       /\ windows[i].train.pack[1] <= windows[i].train.active[1]
       /\ windows[i].train.active[1] < windows[i].train.pack[2]
       /\ windows[i].train.active[1] - windows[i].train.pack[1] >= plan.required
  BY <1>2, <1>3, <1>4, <1>6
<1>11. /\ windows[i].test.pack[2] <= Total(plan)
       /\ windows[i].test.pack[1] <= windows[i].test.active[1]
       /\ windows[i].test.active[1] < windows[i].test.pack[2]
       /\ windows[i].test.active[1] - windows[i].test.pack[1] >= Larger(plan.required, 1)
  BY <1>2, <1>3, <1>4, <1>5, <1>7, <1>9
<1> QED BY <1>8, <1>10, <1>11

\* A projected range of the second source.
Extent == [start : Int, end : Int, warmup : Int]

\* Each pack projected so far is what its window's packs are served.
Warm ==
  /\ packs \in Seq([train : Extent, test : Extent]) /\ Len(packs) <= Len(windows)
  /\ phase = "laying" => packs = <<>>
  /\ \A i \in 1..Len(packs) : /\ Served(windows[i].train, packs[i].train)
                              /\ Served(windows[i].test, packs[i].test)

LEMMA WarmStep == Laid /\ Warm /\ [Next]_vars => Warm'
<1> SUFFICES ASSUME Laid, Warm, [Next]_vars PROVE Warm'
  OBVIOUS
<1>1. CASE RejectPlan \/ EndLaying \/ Stitch \/ UNCHANGED vars
  <2>1. /\ UNCHANGED <<plan, windows, packs>>
        /\ phase' = "laying" => phase = "laying"
    BY <1>1 DEF RejectPlan, EndLaying, Stitch, vars
  <2> QED BY <2>1 DEF Warm, Served
<1>2. CASE Lay
  <2>1. packs' = <<>> /\ Len(windows') \in Nat
    BY <1>2 DEF Lay, Warm, Laid
  <2> QED BY <2>1 DEF Warm
<1>3. CASE Project
  <2> DEFINE n == Len(packs)
             w == windows[n + 1]
             tr == Projected(plan, w.train, plan.needed)
             te == Projected(plan, w.test, plan.needed)
  <2>1. /\ UNCHANGED <<plan, windows>> /\ phase' # "laying"
        /\ n \in Nat /\ n + 1 \in 1..Len(windows)
    BY <1>3 DEF Project, Warm, Laid
  <2>2. CASE packs' = packs
    BY <2>1, <2>2 DEF Warm, Served
  <2>3. CASE packs' # packs
    <3>1. /\ Projects(plan, w.train, plan.needed) /\ Projects(plan, w.test, plan.needed)
          /\ packs' = Append(packs, [train |-> tr, test |-> te])
      BY <1>3, <2>3 DEF Project
    <3>2. /\ Served(w.train, tr) /\ tr \in Extent
          /\ Served(w.test, te) /\ te \in Extent
      BY <2>1, <3>1, PacksInData, ProjectedServes DEF Extent
    <3> HIDE DEF tr, te
    <3>3. /\ packs' \in Seq([train : Extent, test : Extent]) /\ Len(packs') = n + 1
          /\ packs'[n + 1] = [train |-> tr, test |-> te]
          /\ \A i \in 1..n : packs'[i] = packs[i]
      BY <3>1, <3>2 DEF Warm
    <3>4. ASSUME NEW i \in 1..n + 1
          PROVE  Served(windows[i].train, packs'[i].train) /\ Served(windows[i].test, packs'[i].test)
      <4>1. CASE i = n + 1
        BY <3>2, <3>3, <4>1
      <4>2. CASE i \in 1..n
        BY <3>3, <4>2 DEF Warm
      <4> QED BY <2>1, <4>1, <4>2
    <3> QED BY <2>1, <3>3, <3>4 DEF Warm, Served
  <2> QED BY <2>2, <2>3
<1> QED BY <1>1, <1>2, <1>3 DEF Next

\* Every pack of every plan has the warm-up its indicators need, on the base
\* and on the second source, and all rows of that source its base rows see.
THEOREM PacksStartWarm == Spec => []StartsWarm
<1>1. Init => Warm
  BY DEF Init, Warm
<1>2. Laid /\ Warm => StartsWarm
  <2> SUFFICES ASSUME Laid, Warm, NEW i \in 1..Len(packs)
               PROVE  /\ Served(windows[i].train, packs[i].train)
                      /\ Served(windows[i].test, packs[i].test)
                      /\ windows[i].train.active[1] - windows[i].train.pack[1] >= plan.required
                      /\ windows[i].test.active[1] - windows[i].test.pack[1] >= Larger(plan.required, 1)
    BY DEF StartsWarm
  <2>1. i \in 1..Len(windows)
    BY DEF Warm, Laid
  <2> QED BY <2>1, PacksInData DEF Warm
<1> QED BY <1>1, <1>2, WarmStep, LaidAlways, PTL DEF Spec
=============================================================================
