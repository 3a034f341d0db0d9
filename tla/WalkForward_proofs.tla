------------------------- MODULE WalkForward_proofs -------------------------
(***************************************************************************)
(* The theorems of WalkForward, for any plan, any signals and any market of *)
(* the windows and of the replay:                                          *)
(* the joined replay holds no position under parameters other than those it *)
(* was entered with (IInv); what the end of a window closes is entered in   *)
(* the next (Published); the replay repeats the windows as long as their    *)
(* ATR and its own agree about what they entered (Repeats).  A run          *)
(* of the kernel is a recursive function; that it is what its equation says *)
(* comes first (RunRows).                                                   *)
(***************************************************************************)
EXTENDS WalkForward, SequenceTheorems, FiniteSetTheorems, TLAPS

(* own is a sequence, of whatever the windows returned.                    *)
IsSeq(s) == s \in Seq({s[i] : i \in 1..Len(s)})

(* Every executed window is closed before its last row.                    *)
Closed == \A k \in 1..Len(own) : own[k].signals[Last(k) - 1] = Flat

InReplay ==
  /\ Len(own) = Len(plan)
  /\ row \in First(seg)..Last(seg)
  /\ pos.open \in Dir \cup {None}
  /\ pos.open # None => pos.since \in First(seg)..row /\ row < Last(seg)

IInv ==
  /\ plan \in Plans
  /\ IsSeq(own)
  /\ Len(own) <= Len(plan)
  /\ Closed
  /\ seg \in 1..Len(plan)
  /\ IF stage = "replay" THEN InReplay ELSE pos = Idle /\ seg = 1

-----------------------------------------------------------------------------
(* What a plan gives: test parts of at least three rows, each where the one *)
(* before ended.                                                           *)
LEMMA PlanRows ==
  ASSUME NEW p \in Plans
  PROVE  /\ Len(p) \in Nat \ {0}
         /\ p[1].start = 0
         /\ \A i \in 1..Len(p) : /\ p[i].start \in Nat /\ p[i].end \in Nat
                                 /\ p[i].end - p[i].start >= 3
         /\ \A i \in 1..Len(p) - 1 : p[i + 1].start = p[i].end
<1>1. Laid(p)
  BY PlansAssumption
<1>2. p \in Seq([start : Nat, end : Nat]) /\ p # <<>>
  BY <1>1 DEF Laid
<1>3. Len(p) \in Nat \ {0} /\ \A i \in 1..Len(p) : p[i] \in [start : Nat, end : Nat]
  BY <1>2, EmptySeq, ElementOfSeq
<1> QED
  BY <1>1, <1>3 DEF Laid, Contiguous

(* Appending to a sequence of anything.                                    *)
LEMMA Appended ==
  ASSUME NEW s, IsSeq(s), NEW w
  PROVE  /\ IsSeq(Append(s, w))
         /\ Len(s) \in Nat
         /\ Len(Append(s, w)) = Len(s) + 1
         /\ \A i \in 1..Len(s) : Append(s, w)[i] = s[i]
         /\ Append(s, w)[Len(s) + 1] = w
<1> DEFINE X == {s[i] : i \in 1..Len(s)} \cup {w}
           t == Append(s, w)
<1>1. s \in Seq(X) /\ w \in X
  <2>1. s \in Seq({s[i] : i \in 1..Len(s)})
    BY DEF IsSeq
  <2> QED
    BY <2>1
<1> HIDE DEF X
<1>2. /\ t \in Seq(X) /\ Len(s) \in Nat /\ Len(t) = Len(s) + 1
      /\ \A i \in 1..Len(s) : t[i] = s[i]
      /\ t[Len(s) + 1] = w
  BY <1>1
<1>3. t \in Seq({t[i] : i \in 1..Len(t)})
  <2> DEFINE Y == {t[i] : i \in 1..Len(t)}
  <2>1. t \in [1..Len(t) -> X] /\ Len(t) \in Nat
    BY <1>2, LenProperties
  <2>2. t \in [1..Len(t) -> Y]
    BY <2>1
  <2>3. t \in Seq(Y)
    BY <2>1, <2>2, SeqDef
  <2> QED
    BY <2>3
<1> QED
  BY <1>2, <1>3 DEF IsSeq

(* The signals a window publishes close it, whatever it was signalled.     *)
LEMMA ExecutedIsClosed ==
  ASSUME plan \in Plans, NEW k \in 1..Len(plan), NEW f, DOMAIN f = PackFirst(k)..Last(k)
  PROVE  Executed(f, k).signals[Last(k) - 1] = Flat
<1> DEFINE carried == CarryOnly(f, k, carry)
           final == Final(carried, k)
<1>1. /\ First(k) \in Nat /\ Last(k) \in Nat /\ Last(k) - 1 \in First(k)..Last(k)
      /\ PackFirst(k) \in Int /\ PackFirst(k) <= First(k)
  BY PlanRows, WarmupAssumption DEF First, Last, PackFirst
<1>2. DOMAIN carried = PackFirst(k)..Last(k)
  BY DEF CarryOnly
<1>3. final[Last(k) - 1] = Flat
  BY <1>1, <1>2 DEF Final
<1>4. Executed(f, k).signals = Active(final, k)
  BY DEF Executed
<1> HIDE DEF final
<1> QED
  BY <1>1, <1>3, <1>4 DEF Active

(* A row that leaves on both sides and enters on none is followed by a row  *)
(* without a position.                                                     *)
LEMMA FlatLeaves ==
  ASSUME NEW mk, NEW x, x.open \in Dir \cup {None}, NEW r
  PROVE  Advanced(mk, x, Flat, r).open = None
<1>1. \A d \in Dir : ~Asked(Flat, d)
  BY DEF Asked, Flat
<1>2. {d \in Dir : Enters(mk, x, Flat, d, r)} = {}
  BY <1>1 DEF Enters
<1>3. x.open # None => Leaves(x, Flat)
  BY DEF Leaves, Flat
<1>4. CASE x.open = None
  BY <1>2, <1>4 DEF Advanced, Leaves, Idle
<1>5. CASE x.open # None
  BY <1>2, <1>3, <1>5 DEF Advanced, Idle
<1> QED
  BY <1>4, <1>5

(* A row holds what the row before held, or what it entered itself.        *)
LEMMA AdvancedHolds ==
  ASSUME NEW mk, NEW x, x.open \in Dir \cup {None}, NEW s, NEW r,
         Advanced(mk, x, s, r).open # None
  PROVE  /\ Advanced(mk, x, s, r).open \in Dir
         /\ \/ Advanced(mk, x, s, r).since = r /\ Asked(s, Advanced(mk, x, s, r).open)
            \/ /\ x.open # None /\ Advanced(mk, x, s, r).since = x.since
               /\ Advanced(mk, x, s, r).open = x.open
<1> DEFINE out == IF Leaves(x, s) THEN {x.open} ELSE {}
           entered == {d \in Dir : Enters(mk, x, s, d, r)}
           c == CHOOSE d \in entered : TRUE
<1>1. \A d, e, o : Held(mk, d, e, r, o).open # None
                     => Held(mk, d, e, r, o).open = d /\ Held(mk, d, e, r, o).since = e
  BY DEF Held, Idle
<1>2. Advanced(mk, x, s, r) = IF entered # {} THEN Held(mk, c, r, r, out)
                          ELSE IF x.open # None /\ out = {} THEN Held(mk, x.open, x.since, r, out)
                          ELSE [Idle EXCEPT !.out = out]
  BY DEF Advanced
<1>3. entered # {} => c \in Dir /\ Asked(s, c)
  <2>1. entered # {} => c \in entered
    OBVIOUS
  <2> QED
    BY <2>1 DEF Enters
<1> HIDE DEF out, entered, c
<1>4. CASE entered # {}
  BY <1>1, <1>2, <1>3, <1>4
<1>5. CASE entered = {} /\ x.open # None /\ out = {}
  BY <1>1, <1>2, <1>5
<1>6. CASE entered = {} /\ ~(x.open # None /\ out = {})
  <2>1. Advanced(mk, x, s, r).open = None
    BY <1>2, <1>6 DEF Idle
  <2> QED
    BY <2>1
<1> QED
  BY <1>4, <1>5, <1>6

-----------------------------------------------------------------------------
(* One row of the replay.                                                  *)
LEMMA ReplayStep ==
  ASSUME IInv, Replay
  PROVE  IInv'
<1>1. stage = "replay" /\ InReplay
  BY DEF Replay, IInv
<1>2. /\ Len(plan) \in Nat \ {0} /\ plan' = plan /\ own' = own /\ stage' = "replay"
      /\ \A i \in 1..Len(plan) : /\ plan[i].start \in Nat /\ plan[i].end \in Nat
                                 /\ plan[i].end - plan[i].start >= 3
      /\ \A i \in 1..Len(plan) - 1 : plan[i + 1].start = plan[i].end
  BY PlanRows DEF IInv, Replay
<1> DEFINE t == Advanced(market.joined, pos, own[seg].signals[row], row + 1)
<1>3. /\ seg \in 1..Len(plan) /\ row \in First(seg)..Last(seg) /\ row \in Int
      /\ row' = row + 1 /\ pos' = t
      /\ seg' = IF row < Last(seg) THEN seg ELSE seg + 1
      /\ row < Last(seg) \/ seg < Len(plan)
  BY <1>1, <1>2 DEF IInv, InReplay, Replay, StitchedSignals, First, Last
<1>4. /\ seg' \in 1..Len(plan)
      /\ row' \in First(seg')..Last(seg')
      /\ seg' # seg => row = Last(seg) /\ row' = First(seg') /\ row' < Last(seg')
  <2>1. CASE row < Last(seg)
    BY <1>2, <1>3, <2>1 DEF First, Last
  <2>2. CASE ~(row < Last(seg))
    <3>1. seg' = seg + 1 /\ seg \in 1..Len(plan) - 1 /\ row = Last(seg)
      BY <1>2, <1>3, <2>2 DEF First, Last
    <3>2. plan[seg + 1].start = plan[seg].end /\ seg + 1 \in 1..Len(plan)
      BY <1>2, <3>1
    <3>3. /\ plan[seg].end \in Nat /\ plan[seg + 1].start \in Nat
          /\ plan[seg + 1].end \in Nat /\ plan[seg + 1].end - plan[seg + 1].start >= 3
      BY <1>2, <3>1, <3>2
    <3>4. First(seg') = plan[seg].end /\ Last(seg') = plan[seg + 1].end - 1
          /\ row' = plan[seg].end
      BY <1>3, <3>1, <3>2, <3>3 DEF First, Last
    <3> QED
      BY <3>1, <3>2, <3>3, <3>4
  <2> QED
    BY <2>1, <2>2
<1>5. t.open # None => /\ t.open \in Dir
                       /\ t.since = row + 1 \/ (pos.open # None /\ t.since = pos.since)
  <2>1. pos.open \in Dir \cup {None}
    BY <1>1 DEF InReplay
  <2> QED
    BY <2>1, AdvancedHolds
<1>6. t.open \in Dir \cup {None}
  BY <1>5
<1>7. t.open # None => t.since \in First(seg')..row'
  <2>1. CASE t.since = row + 1
    BY <1>3, <1>4, <2>1 DEF First, Last
  <2>2. CASE pos.open # None /\ t.since = pos.since
    <3>1. pos.since \in First(seg)..row /\ row < Last(seg)
      BY <1>1, <2>2 DEF InReplay
    <3>2. seg' = seg
      BY <1>3, <3>1
    <3> QED
      BY <1>2, <1>3, <2>2, <3>1, <3>2 DEF First, Last
  <2> QED
    BY <1>5, <2>1, <2>2
<1>8. t.open # None => row' < Last(seg')
  <2>1. CASE seg' # seg
    BY <1>4, <2>1
  <2>2. CASE seg' = seg /\ row = Last(seg) - 1
    <3>1. own[seg].signals[row] = Flat
      BY <1>1, <1>3, <2>2 DEF IInv, InReplay, Closed
    <3>2. t.open = None
      BY <1>1, <3>1, FlatLeaves DEF InReplay
    <3> QED
      BY <3>2
  <2>3. CASE seg' = seg /\ row # Last(seg) - 1
    BY <1>2, <1>3, <2>3 DEF First, Last
  <2> QED
    BY <2>1, <2>2, <2>3
<1>9. InReplay'
  <2>1. Len(own') = Len(plan')
    BY <1>1, <1>2 DEF InReplay
  <2>2. First(seg)' = First(seg') /\ Last(seg)' = Last(seg')
    BY <1>2 DEF First, Last
  <2> HIDE DEF t
  <2> QED
    BY <1>3, <1>4, <1>6, <1>7, <1>8, <2>1, <2>2 DEF InReplay
<1>10. IsSeq(own)' /\ Closed'
  BY <1>2 DEF IInv, IsSeq, Closed, Last
<1> QED
  BY <1>2, <1>4, <1>9, <1>10 DEF IInv

LEMMA InitHolds == Init => IInv
<1> SUFFICES ASSUME Init PROVE IInv
  OBVIOUS
<1>1. plan \in Plans /\ own = <<>> /\ stage = "windows" /\ seg = 1 /\ pos = Idle
  BY DEF Init
<1>2. Len(plan) \in Nat \ {0}
  BY <1>1, PlanRows
<1>3. IsSeq(<<>>) /\ Len(<<>>) = 0
  BY DEF IsSeq
<1> QED
  BY <1>1, <1>2, <1>3 DEF IInv, Closed

LEMMA ExecuteStep ==
  ASSUME IInv, Execute
  PROVE  IInv'
<1> DEFINE k == Len(own) + 1
<1>1. /\ plan \in Plans /\ IsSeq(own) /\ Closed /\ seg = 1 /\ pos = Idle
      /\ stage = "windows" /\ Len(own) < Len(plan)
      /\ UNCHANGED <<plan, stage, row, seg, pos>>
  BY DEF IInv, Execute
<1>2. PICK f : /\ DOMAIN f = PackFirst(k)..Last(k)
               /\ own' = Append(own, Executed(f, k))
  <2>1. PICK warm \in [PackFirst(k)..First(k) - 1 -> WarmRaws],
             raw \in [First(k)..Last(k) -> Raws] :
               own' = Append(own, Executed(Evaluated(warm, raw, k), k))
    BY DEF Execute
  <2> QED
    BY <2>1 DEF Evaluated
<1>3. Len(own) \in Nat /\ Len(plan) \in Nat \ {0}
  BY <1>1, Appended, PlanRows
<1>4. Executed(f, k).signals[Last(k) - 1] = Flat
  <2>1. k \in 1..Len(plan)
    BY <1>1, <1>3
  <2> QED
    BY <1>1, <1>2, <2>1, ExecutedIsClosed
<1>5. /\ IsSeq(own') /\ Len(own') = Len(own) + 1
      /\ \A i \in 1..Len(own) : own'[i] = own[i]
      /\ own'[Len(own) + 1] = Executed(f, k)
  BY <1>1, <1>2, Appended
<1>6. Closed'
  <2> SUFFICES ASSUME NEW i \in 1..Len(own')
               PROVE  own'[i].signals[Last(i)' - 1] = Flat
    BY DEF Closed
  <2>1. Last(i)' = Last(i)
    BY <1>1 DEF Last
  <2>2. CASE i \in 1..Len(own)
    BY <1>1, <1>5, <2>1, <2>2 DEF Closed
  <2>3. CASE i = k
    BY <1>4, <1>5, <2>1, <2>3
  <2> QED
    BY <1>3, <1>5, <2>2, <2>3
<1>7. IsSeq(own)'
  BY <1>5
<1> QED
  BY <1>1, <1>3, <1>5, <1>6, <1>7 DEF IInv

LEMMA StitchStep ==
  ASSUME IInv, Stitch
  PROVE  IInv'
<1>1. /\ plan' = plan /\ own' = own /\ seg' = 1 /\ stage' = "replay"
      /\ row' = 1 /\ pos' = Idle /\ Len(own) = Len(plan) /\ plan \in Plans
      /\ IsSeq(own) /\ Closed
  BY DEF IInv, Stitch
<1>2. /\ Len(plan) \in Nat \ {0} /\ First(1) = 0 /\ Last(1) \in Nat /\ Last(1) >= 2
  BY <1>1, PlanRows DEF First, Last
<1>3. First(seg)' = First(1) /\ Last(seg)' = Last(1)
  BY <1>1 DEF First, Last
<1>4. InReplay'
  BY <1>1, <1>2, <1>3 DEF InReplay, Idle
<1>5. IsSeq(own)' /\ Closed'
  BY <1>1 DEF IsSeq, Closed, Last
<1> QED
  BY <1>1, <1>2, <1>4, <1>5 DEF IInv

(* An error, or no step at all.                                            *)
LEMMA OtherStep ==
  ASSUME IInv, Fail \/ UNCHANGED vars
  PROVE  IInv'
<1>1. UNCHANGED <<plan, own, row, seg, pos>>
  BY DEF Fail, vars
<1>2. (stage' = stage) \/ (stage = "windows" /\ stage' = "failed")
  BY DEF Fail, vars
<1>3. IsSeq(own)' /\ Closed' /\ (InReplay => InReplay')
  BY <1>1 DEF IInv, IsSeq, Closed, InReplay, First, Last
<1> QED
  BY <1>1, <1>2, <1>3 DEF IInv

-----------------------------------------------------------------------------
(* In the joined replay a position is held only under the parameters of the *)
(* window it was entered in, and every window ends flat.  The argument: the *)
(* row before a window's last is Flat in the published signals, so nothing  *)
(* is held on the last row, and the next row can only hold what it enters.  *)
THEOREM PositionsKeepTheirParams == Spec => []KeepsParams
<1>1. IInv /\ [Next]_vars => IInv'
  BY ReplayStep, ExecuteStep, StitchStep, OtherStep DEF Next
<1>2. IInv => KeepsParams
  <2> SUFFICES ASSUME IInv, pos.open # None
               PROVE  First(seg) <= pos.since /\ row < Last(seg)
    BY DEF KeepsParams
  <2>1. stage = "replay" /\ InReplay
    BY DEF IInv, Idle
  <2>2. First(seg) \in Nat /\ Last(seg) \in Nat
    BY PlanRows DEF IInv, First, Last
  <2> QED
    BY <2>1, <2>2 DEF InReplay
<1> QED
  BY InitHolds, <1>1, <1>2, PTL DEF Spec

-----------------------------------------------------------------------------
(* Runs                                                                    *)

LEMMA LeastOf ==
  ASSUME NEW T, T \subseteq Nat, T # {}
  PROVE  \E m \in T : \A k \in T : m <= k
<1>1. PICK x \in T : \A y \in T : <<y, x>> \notin OpToRel(<, Nat)
  BY WFMin, NatLessThanWellFounded, Zenon
<1>2. \A y \in T : ~ (y < x)
  BY <1>1, Zenon DEF OpToRel
<1> QED BY <1>2

RunRow(mk, x, f, a, r) == IF r < a + 2 THEN Idle ELSE Advanced(mk, x[r - 1], f[r - 1], r)
IsRun(mk, x, f, a, b) == x = [r \in a..b |-> RunRow(mk, x, f, a, r)]

(* A run of one more row.                                                  *)
LEMMA RunGrows ==
  ASSUME NEW mk, NEW f, NEW a \in Int, NEW b \in Int, a <= b, NEW x, IsRun(mk, x, f, a, b)
  PROVE  \E y : IsRun(mk, y, f, a, b + 1)
<1>0. PICK y : y = [r \in a..b + 1 |-> IF r <= b THEN x[r] ELSE RunRow(mk, x, f, a, r)]
  OBVIOUS
<1>1. \A r \in a..b : x[r] = RunRow(mk, x, f, a, r) /\ y[r] = x[r]
  BY <1>0 DEF IsRun
<1>2. \A r \in a..b + 1 : RunRow(mk, y, f, a, r) = RunRow(mk, x, f, a, r)
  <2> SUFFICES ASSUME NEW r \in a..b + 1, ~ (r < a + 2)
               PROVE  y[r - 1] = x[r - 1]
    BY DEF RunRow
  <2> QED BY <1>1
<1>3. \A r \in a..b + 1 : y[r] = RunRow(mk, y, f, a, r)
  <2> TAKE r \in a..b + 1
  <2>1. CASE r <= b
    BY <1>1, <1>2, <2>1
  <2>2. CASE ~ (r <= b)
    BY <1>0, <1>2, <2>2
  <2> QED BY <2>1, <2>2
<1>4. y = [r \in a..b + 1 |-> y[r]]
  BY <1>0
<1> QED BY <1>3, <1>4 DEF IsRun

LEMMA RunExists ==
  ASSUME NEW mk, NEW f, NEW a \in Int, NEW n \in Nat
  PROVE  \E x : IsRun(mk, x, f, a, a + n)
<1> DEFINE Bad == {m \in Nat : ~ \E x : IsRun(mk, x, f, a, a + m)}
<1> SUFFICES ASSUME Bad # {}
             PROVE  FALSE
  OBVIOUS
<1>1. PICK m \in Bad : \A k \in Bad : m <= k
  BY LeastOf
<1>2. m \in Nat /\ ~ \E x : IsRun(mk, x, f, a, a + m)
  OBVIOUS
<1>3. m # 0
  <2> DEFINE x == [r \in a..a |-> Idle]
  <2>1. \A r \in a..a : r < a + 2
    OBVIOUS
  <2>2. IsRun(mk, x, f, a, a)
    BY <2>1 DEF IsRun, RunRow
  <2>3. a + 0 = a
    OBVIOUS
  <2> QED BY <1>2, <2>2, <2>3
<1>4. m - 1 \in Nat /\ m - 1 \notin Bad
  BY <1>1, <1>2, <1>3
<1>5. PICK x : IsRun(mk, x, f, a, a + (m - 1))
  BY <1>4
<1>6. a + (m - 1) \in Int /\ a <= a + (m - 1) /\ (a + (m - 1)) + 1 = a + m
  BY <1>4
<1> QED BY <1>2, <1>5, <1>6, RunGrows

(* What a run is, row by row.                                              *)
LEMMA RunRows ==
  ASSUME NEW mk, NEW f, NEW a \in Int, NEW b \in Int, a <= b
  PROVE  /\ DOMAIN Run(mk, f, a, b) = a..b
         /\ \A r \in a..b : r < a + 2 => Run(mk, f, a, b)[r] = Idle
         /\ \A r \in a..b : r >= a + 2 =>
              Run(mk, f, a, b)[r] = Advanced(mk, Run(mk, f, a, b)[r - 1], f[r - 1], r)
<1>1. PICK n \in Nat : b = a + n
  BY b - a \in Nat
<1>2. \E x : IsRun(mk, x, f, a, b)
  BY <1>1, RunExists
<1>3. Run(mk, f, a, b) = CHOOSE x : IsRun(mk, x, f, a, b)
  BY DEF Run, IsRun, RunRow
<1>4. PICK x : x = Run(mk, f, a, b) /\ IsRun(mk, x, f, a, b)
  BY <1>2, <1>3
<1>5. DOMAIN x = a..b /\ \A r \in a..b : x[r] = RunRow(mk, x, f, a, r)
  BY <1>4 DEF IsRun
<1> QED BY <1>4, <1>5 DEF RunRow

(* Runs that are signalled alike until a row are alike on that row.        *)
LEMMA AlikeRuns ==
  ASSUME NEW mk, NEW f, NEW g, NEW a \in Int, NEW b \in Int, NEW c \in a..b,
         \A r \in a..c - 1 : f[r] = g[r]
  PROVE  \A r \in a..c : Run(mk, f, a, b)[r] = Run(mk, g, a, b)[r]
<1>1. PICK x, y : x = Run(mk, f, a, b) /\ y = Run(mk, g, a, b)
  OBVIOUS
<1> DEFINE Bad == {n \in Nat : a + n \in a..c /\ x[a + n] # y[a + n]}
<1>2. \A r \in a..c : /\ r < a + 2 => x[r] = Idle /\ y[r] = Idle
                      /\ r >= a + 2 => /\ x[r] = Advanced(mk, x[r - 1], f[r - 1], r)
                                       /\ y[r] = Advanced(mk, y[r - 1], g[r - 1], r)
  BY <1>1, RunRows
<1>3. Bad = {}
  <2> SUFFICES ASSUME Bad # {}
               PROVE  FALSE
    OBVIOUS
  <2>1. PICK m \in Bad : \A k \in Bad : m <= k
    BY LeastOf
  <2>2. m \in Nat /\ a + m \in a..c /\ x[a + m] # y[a + m]
    OBVIOUS
  <2>3. m >= 2
    BY <1>2, <2>2
  <2>4. m - 1 \in Nat /\ a + (m - 1) \in a..c - 1 /\ m - 1 \notin Bad /\ a + (m - 1) = (a + m) - 1
    BY <2>1, <2>2, <2>3
  <2>5. x[(a + m) - 1] = y[(a + m) - 1] /\ f[(a + m) - 1] = g[(a + m) - 1]
    BY <2>4
  <2> QED BY <1>2, <2>2, <2>3, <2>5
<1>4. ASSUME NEW r \in a..c
      PROVE  x[r] = y[r]
  <2>1. PICK n \in Nat : a + n = r
    BY r - a \in Nat
  <2>2. n \notin Bad
    BY <1>3
  <2> QED BY <2>1, <2>2
<1> QED BY <1>1, <1>4

(* Nothing held and nothing asked for leaves nothing.                      *)
LEMMA QuietAdvance ==
  ASSUME NEW mk, NEW x, x.open = None, NEW s, \A d \in Dir : ~ Asked(s, d), NEW r
  PROVE  Advanced(mk, x, s, r) = Idle
<1>1. {d \in Dir : Enters(mk, x, s, d, r)} = {} /\ ~ Leaves(x, s)
  BY DEF Enters, Leaves
<1>2. Advanced(mk, x, s, r) = [Idle EXCEPT !.out = {}]
  BY <1>1 DEF Advanced
<1> QED BY <1>2 DEF Idle

LEMMA QuietRun ==
  ASSUME NEW mk, NEW f, NEW a \in Int, NEW b \in Int, NEW c \in a..b,
         \A r \in a..c - 1 : \A d \in Dir : ~ Asked(f[r], d)
  PROVE  \A r \in a..c : Run(mk, f, a, b)[r] = Idle
<1>1. PICK x : x = Run(mk, f, a, b)
  OBVIOUS
<1> DEFINE Bad == {n \in Nat : a + n \in a..c /\ x[a + n] # Idle}
<1>2. \A r \in a..c : /\ r < a + 2 => x[r] = Idle
                      /\ r >= a + 2 => x[r] = Advanced(mk, x[r - 1], f[r - 1], r)
  BY <1>1, RunRows
<1>3. Bad = {}
  <2> SUFFICES ASSUME Bad # {}
               PROVE  FALSE
    OBVIOUS
  <2>1. PICK m \in Bad : \A k \in Bad : m <= k
    BY LeastOf
  <2>2. m \in Nat /\ a + m \in a..c /\ x[a + m] # Idle
    OBVIOUS
  <2>3. m >= 2
    BY <1>2, <2>2
  <2>4. m - 1 \in Nat /\ a + (m - 1) \in a..c - 1 /\ m - 1 \notin Bad /\ a + (m - 1) = (a + m) - 1
    BY <2>1, <2>2, <2>3
  <2>5. x[(a + m) - 1].open = None /\ \A d \in Dir : ~ Asked(f[(a + m) - 1], d)
    BY <2>4 DEF Idle
  <2>6. x[a + m] = Advanced(mk, x[(a + m) - 1], f[(a + m) - 1], a + m)
    BY <1>2, <2>2, <2>3
  <2> QED BY <2>2, <2>5, <2>6, QuietAdvance
<1>4. ASSUME NEW r \in a..c
      PROVE  x[r] = Idle
  <2>1. PICK n \in Nat : a + n = r
    BY r - a \in Nat
  <2>2. n \notin Bad
    BY <1>3
  <2> QED BY <2>1, <2>2
<1> QED BY <1>1, <1>4

-----------------------------------------------------------------------------
(* What a window returns: its rows from the first one on are a run of what *)
(* it publishes, from nothing; what it hands on and what it inherited show *)
(* in them.                                                                *)
Sides == Dir \cup {None}

WindowOK(w, k) ==
  /\ w.inherited \in Sides /\ w.leaves \in Sides
  /\ w.rows[First(k)] = Idle
  /\ \A r \in First(k) + 1..Last(k) : w.rows[r] = Advanced(market.windows, w.rows[r - 1], w.signals[r - 1], r)
  /\ HandedOn(w, k)
  /\ Entered(w, First(k) + 1)

(* The last row of the run that is not closed, from the row both runs      *)
(* share.                                                                  *)
LEMMA TailAdvance ==
  ASSUME NEW mk, NEW x, x.open \in Sides, NEW s, NEW r
  PROVE  /\ x.open # None /\ ~ Leaves(x, s) /\ ~ Does(mk, "in_bar", x.open, x.since, r)
              => Advanced(mk, x, s, r).open = x.open
         /\ Advanced(mk, x, s, r).open # None
              => Advanced(mk, x, s, r).open = x.open \/ Asked(s, Advanced(mk, x, s, r).open)
         /\ Advanced(mk, x, s, r).open \in Sides
<1> DEFINE out == IF Leaves(x, s) THEN {x.open} ELSE {}
           entered == {d \in Dir : Enters(mk, x, s, d, r)}
           c == CHOOSE d \in entered : TRUE
<1>1. \A d, e, o : /\ Held(mk, d, e, r, o).open \in {None, d}
                   /\ ~ Does(mk, "in_bar", d, e, r) => Held(mk, d, e, r, o).open = d
  BY DEF Held, Idle
<1>2. Advanced(mk, x, s, r) = IF entered # {} THEN Held(mk, c, r, r, out)
                          ELSE IF x.open # None /\ out = {} THEN Held(mk, x.open, x.since, r, out)
                          ELSE [Idle EXCEPT !.out = out]
  BY DEF Advanced
<1>3. entered # {} => c \in Dir /\ Enters(mk, x, s, c, r)
  <2>1. entered # {} => c \in entered
    OBVIOUS
  <2> QED BY <2>1
<1>4. x.open # None /\ ~ Leaves(x, s) => entered = {} /\ out = {}
  BY DEF Enters
<1>5. [Idle EXCEPT !.out = out].open = None
  BY DEF Idle
<1> HIDE DEF out, entered, c
<1>6. CASE entered # {}
  <2>1. Asked(s, c) /\ c \in Dir
    BY <1>3, <1>6 DEF Enters
  <2> QED BY <1>1, <1>2, <1>4, <1>6, <2>1 DEF Sides
<1>7. CASE entered = {} /\ x.open # None /\ out = {}
  BY <1>1, <1>2, <1>7 DEF Sides
<1>8. CASE entered = {} /\ ~ (x.open # None /\ out = {})
  BY <1>2, <1>4, <1>5, <1>8 DEF Sides
<1> QED BY <1>6, <1>7, <1>8

(* A carried entry, out of nothing.                                        *)
LEMMA CarriedEnters ==
  ASSUME NEW mk, NEW d \in Dir, NEW r
  PROVE  LET x == Advanced(mk, Idle, Enter(d), r)
         IN  \/ x.open = d /\ x.since = r
             \/ d \in x.out
             \/ Does(mk, "refused", d, r, r)
<1> SUFFICES ASSUME ~ Does(mk, "refused", d, r, r)
             PROVE  LET x == Advanced(mk, Idle, Enter(d), r)
                    IN  \/ x.open = d /\ x.since = r
                        \/ d \in x.out
  OBVIOUS
<1>1. \A e \in Dir : Asked(Enter(d), e) <=> e = d
  BY DEF Asked, Enter, Opp, Dir
<1>2. Idle.open = None /\ ~ Leaves(Idle, Enter(d))
  BY DEF Idle, Leaves
<1>3. {e \in Dir : Enters(mk, Idle, Enter(d), e, r)} = {d}
  BY <1>1, <1>2 DEF Enters
<1>4. (CHOOSE e \in {d} : TRUE) = d
  OBVIOUS
<1>5. Advanced(mk, Idle, Enter(d), r) = Held(mk, d, r, r, {})
  BY <1>2, <1>3, <1>4 DEF Advanced
<1>6. \/ Held(mk, d, r, r, {}).open = d /\ Held(mk, d, r, r, {}).since = r
      \/ d \in Held(mk, d, r, r, {}).out
  BY DEF Held, Idle
<1> QED BY <1>5, <1>6

(* Every row holds nothing, or a position.                                 *)
LEMMA RunSides ==
  ASSUME NEW mk, NEW f, NEW a \in Int, NEW b \in Int, a <= b
  PROVE  \A r \in a..b : Run(mk, f, a, b)[r].open \in Sides
<1>1. PICK x : x = Run(mk, f, a, b)
  OBVIOUS
<1> DEFINE Bad == {n \in Nat : a + n \in a..b /\ x[a + n].open \notin Sides}
<1>2. \A r \in a..b : /\ r < a + 2 => x[r] = Idle
                      /\ r >= a + 2 => x[r] = Advanced(mk, x[r - 1], f[r - 1], r)
  BY <1>1, RunRows
<1>3. Bad = {}
  <2> SUFFICES ASSUME Bad # {}
               PROVE  FALSE
    OBVIOUS
  <2>1. PICK m \in Bad : \A k \in Bad : m <= k
    BY LeastOf
  <2>2. m \in Nat /\ a + m \in a..b /\ x[a + m].open \notin Sides
    OBVIOUS
  <2>3. m >= 2
    BY <1>2, <2>2 DEF Idle, Sides
  <2>4. m - 1 \in Nat /\ a + (m - 1) \in a..b /\ m - 1 \notin Bad /\ a + (m - 1) = (a + m) - 1
    BY <2>1, <2>2, <2>3
  <2>5. x[(a + m) - 1].open \in Sides
    BY <2>4
  <2>6. x[a + m] = Advanced(mk, x[(a + m) - 1], f[(a + m) - 1], a + m)
    BY <1>2, <2>2, <2>3
  <2> QED BY <2>2, <2>5, <2>6, TailAdvance
<1>4. ASSUME NEW r \in a..b
      PROVE  x[r].open \in Sides
  <2>1. PICK n \in Nat : a + n = r
    BY r - a \in Nat
  <2>2. n \notin Bad
    BY <1>3
  <2> QED BY <2>1, <2>2
<1> QED BY <1>1, <1>4

LEMMA ExecutedIsOK ==
  ASSUME plan \in Plans, NEW k \in 1..Len(plan), carry \in Sides,
         NEW f, DOMAIN f = PackFirst(k)..Last(k),
         \A r \in PackFirst(k)..First(k) - 1 : \A d \in Dir : ~ Asked(f[r], d)
  PROVE  WindowOK(Executed(f, k), k) /\ Executed(f, k).inherited = carry
<1> DEFINE carried == CarryOnly(f, k, carry)
           final == Final(carried, k)
<1>0. PackFirst(k) \in Int /\ Last(k) \in Int /\ First(k) \in Int
  BY PlanRows, WarmupAssumption DEF First, Last, PackFirst
<1>1. PICK a \in Int, b \in Int, c \in Int : a = PackFirst(k) /\ b = Last(k) /\ c = First(k)
  BY <1>0
<1>2. a \in Int /\ c > a /\ b >= c + 2
  BY <1>1, PlanRows, WarmupAssumption DEF First, Last, PackFirst
<1>3. PICK g, h : g = carried /\ h = final
  OBVIOUS
<1>4. PICK natural, result : natural = Run(market.windows, g, a, b) /\ result = Run(market.windows, h, a, b)
  OBVIOUS
<1>5. DOMAIN g = a..b /\ DOMAIN h = a..b
  BY <1>1, <1>3 DEF CarryOnly, Final
<1>6. /\ \A r \in a..b : r # c => g[r] = f[r]
      /\ carry # None => g[c] = Enter(carry)
  BY <1>1, <1>2, <1>3 DEF CarryOnly
<1>7. /\ \A r \in a..b : r # b - 1 => h[r] = g[r]
      /\ h[b - 1] = Flat
  BY <1>1, <1>2, <1>3, <1>5 DEF Final
<1>8. PICK w : w = Executed(f, k)
  OBVIOUS
<1>9. /\ w.signals = [r \in c..b |-> h[r]] /\ w.rows = [r \in c..b |-> result[r]]
      /\ w.tail = g[b - 1] /\ w.inherited = carry /\ w.leaves = natural[b].open
  BY <1>1, <1>3, <1>4, <1>8 DEF Executed, Active, Carried
<1>10. \A r \in a..b : r >= a + 2 => /\ natural[r] = Advanced(market.windows, natural[r - 1], g[r - 1], r)
                                     /\ result[r] = Advanced(market.windows, result[r - 1], h[r - 1], r)
  BY <1>2, <1>4, RunRows
<1>11. result[c] = Idle
  <2>1. \A r \in a..c - 1 : h[r] = f[r]
    BY <1>2, <1>6, <1>7
  <2>2. \A r \in a..c - 1 : \A d \in Dir : ~ Asked(h[r], d)
    BY <1>1, <2>1
  <2>3. c \in a..b /\ c \in a..c
    BY <1>2
  <2>4. \A r \in a..c : Run(market.windows, h, a, b)[r] = Idle
    BY <2>2, <2>3, QuietRun
  <2> QED BY <1>4, <2>3, <2>4
<1>12. natural[b - 1] = result[b - 1]
  <2>1. PICK m \in Int : m = b - 1
    BY <1>2
  <2>2. m \in a..b /\ m \in a..m /\ \A r \in a..m - 1 : g[r] = h[r]
    BY <1>2, <1>7, <2>1
  <2>3. \A r \in a..m : Run(market.windows, g, a, b)[r] = Run(market.windows, h, a, b)[r]
    BY <1>2, <2>2, AlikeRuns
  <2> QED BY <1>4, <2>1, <2>2, <2>3
<1>13. result[b - 1].open \in Sides /\ natural[b].open \in Sides
  BY <1>2, <1>4, RunSides
<1>14. natural[b] = Advanced(market.windows, result[b - 1], g[b - 1], b)
  BY <1>2, <1>10, <1>12
<1>15. HandedOn(w, k)
  <2>1. w.rows[b - 1] = result[b - 1]
    BY <1>2, <1>9
  <2> QED BY <1>1, <1>9, <1>13, <1>14, <2>1, TailAdvance DEF HandedOn
<1>16. Entered(w, c + 1)
  <2> SUFFICES ASSUME carry # None
               PROVE  LET x == w.rows[c + 1]
                      IN  \/ x.open = carry /\ x.since = c + 1
                          \/ carry \in x.out
                          \/ Does(market.windows, "refused", carry, c + 1, c + 1)
    BY <1>9 DEF Entered
  <2>1. h[c] = Enter(carry) /\ carry \in Dir
    BY <1>2, <1>6, <1>7 DEF Sides
  <2>2. w.rows[c + 1] = Advanced(market.windows, Idle, Enter(carry), c + 1)
    BY <1>2, <1>9, <1>10, <1>11, <2>1
  <2> QED BY <2>1, <2>2, CarriedEnters
<1>17. w.rows[c] = Idle
  BY <1>2, <1>9, <1>11
<1>18. \A r \in c + 1..b : w.rows[r] = Advanced(market.windows, w.rows[r - 1], w.signals[r - 1], r)
  BY <1>2, <1>9, <1>10
<1> QED BY <1>1, <1>8, <1>9, <1>13, <1>15, <1>16, <1>17, <1>18 DEF WindowOK

-----------------------------------------------------------------------------
(* What the windows published, and that the replay repeats it.             *)
Published ==
  /\ \A k \in 1..Len(own) : WindowOK(own[k], k)
  /\ \A k \in 2..Len(own) : own[k].inherited = own[k - 1].leaves
  /\ carry = IF Len(own) = 0 THEN None ELSE own[Len(own)].leaves

Signalled(x, k, r) ==
  x.open # None => x.since \in First(k) + 1..r /\ Asked(own[k].signals[x.since - 1], x.open)

Repeats ==
  stage = "replay" =>
    /\ row >= 1
    /\ ~ Stray(seg) => /\ Signalled(pos, seg, row)
                       /\ pos = own[seg].rows[row] \/ Differs(seg, row)

(* The plan and the markets stay, and so does what is said of a window.    *)
LEMMA SameAdvance ==
  ASSUME market' = market, NEW x, NEW s, NEW r
  PROVE  Advanced(market.windows, x, s, r)' = Advanced(market.windows, x, s, r)
BY SMT DEF Advanced, Held, Enters, Does

LEMMA SameWindow ==
  ASSUME market' = market, plan' = plan, NEW w, NEW k, WindowOK(w, k)
  PROVE  WindowOK(w, k)'
<1>1. First(k)' = First(k) /\ Last(k)' = Last(k)
  BY DEF First, Last
<1>2. HandedOn(w, k)' <=> HandedOn(w, k)
  BY <1>1 DEF HandedOn, Does, Leaves, Asked
<1>3. Entered(w, First(k) + 1)' <=> Entered(w, First(k) + 1)
  BY <1>1 DEF Entered, Does
<1>4. \A r : Advanced(market.windows, w.rows[r - 1], w.signals[r - 1], r)' = Advanced(market.windows, w.rows[r - 1], w.signals[r - 1], r)
  BY SameAdvance
<1> QED BY <1>1, <1>2, <1>3, <1>4 DEF WindowOK, Sides, Idle

LEMMA SamePublished ==
  ASSUME Published, UNCHANGED <<plan, market, atr, own, carry>>
  PROVE  Published'
<1>1. ASSUME NEW k \in 1..Len(own)
      PROVE  WindowOK(own[k], k)'
  <2>1. PICK w : w = own[k]
    OBVIOUS
  <2>2. WindowOK(w, k)'
    BY <2>1, SameWindow DEF Published
  <2>3. own[k]' = w
    BY <2>1
  <2> QED BY <2>2, <2>3
<1> QED BY <1>1 DEF Published

LEMMA ExecutePublishes ==
  ASSUME IInv, Published, Execute
  PROVE  Published'
<1>1. PICK k : k = Len(own) + 1
  OBVIOUS
<1>2. /\ plan \in Plans /\ IsSeq(own) /\ Len(own) < Len(plan)
      /\ market' = market /\ plan' = plan
  BY DEF IInv, Execute
<1>3. PICK warm \in [PackFirst(k)..First(k) - 1 -> WarmRaws], raw \in [First(k)..Last(k) -> Raws] :
        LET w == Executed(Evaluated(warm, raw, k), k)
        IN  own' = Append(own, w) /\ carry' = w.leaves
  BY <1>1 DEF Execute
<1>4. PICK f, w : f = Evaluated(warm, raw, k) /\ w = Executed(f, k)
  OBVIOUS
<1>5. own' = Append(own, w) /\ carry' = w.leaves
  BY <1>3, <1>4
<1>6. /\ Len(own) \in Nat /\ Len(own') = Len(own) + 1
      /\ \A i \in 1..Len(own) : own'[i] = own[i]
      /\ own'[k] = w
  BY <1>1, <1>2, <1>5, Appended
<1>7. k \in 1..Len(plan)
  BY <1>1, <1>2, <1>6, PlanRows
<1>8. carry \in Sides
  <2>1. Len(own) = 0 \/ Len(own) \in 1..Len(own)
    BY <1>6
  <2> QED BY <2>1 DEF Published, WindowOK, Sides
<1>9. DOMAIN f = PackFirst(k)..Last(k)
  BY <1>4 DEF Evaluated
<1>10. ASSUME NEW r \in PackFirst(k)..First(k) - 1, NEW d \in Dir
       PROVE  ~ Asked(f[r], d)
  <2>1. r \in PackFirst(k)..Last(k) /\ r < First(k)
    BY <1>2, <1>7, PlanRows, WarmupAssumption DEF PackFirst, First, Last
  <2>2. f[r] = warm[r]
    BY <1>4, <2>1 DEF Evaluated
  <2>3. warm[r] \in WarmRaws
    BY <1>3
  <2>4. PICK s \in Raws : warm[r] = [s EXCEPT !.entry = [side \in Dir |-> FALSE]]
    BY <2>3 DEF WarmRaws
  <2>5. s \in [entry : [Dir -> BOOLEAN], exit : [Dir -> BOOLEAN]]
    BY RawsAssumption DEF Signals
  <2>6. warm[r].entry = [side \in Dir |-> FALSE]
    BY <2>4, <2>5
  <2> QED BY <2>2, <2>6 DEF Asked
<1>11. WindowOK(w, k) /\ w.inherited = carry
  BY <1>2, <1>4, <1>7, <1>8, <1>9, <1>10, ExecutedIsOK
<1>12. ASSUME NEW i \in 1..Len(own')
       PROVE  WindowOK(own[i], i)'
  <2>1. PICK v : v = own'[i]
    OBVIOUS
  <2>2. WindowOK(v, i)
    <3>1. CASE i \in 1..Len(own)
      BY <1>6, <2>1, <3>1 DEF Published
    <3>2. CASE i = k
      BY <1>6, <1>11, <2>1, <3>2
    <3> QED BY <1>1, <1>6, <3>1, <3>2
  <2>3. WindowOK(v, i)'
    BY <1>2, <2>2, SameWindow
  <2> QED BY <2>1, <2>3
<1>13. ASSUME NEW i \in 2..Len(own')
       PROVE  own'[i].inherited = own'[i - 1].leaves
  <2>1. CASE i \in 2..Len(own)
    <3>1. i \in 1..Len(own) /\ i - 1 \in 1..Len(own)
      BY <1>6, <2>1
    <3> QED BY <1>6, <2>1, <3>1 DEF Published
  <2>2. CASE i = k
    <3>1. i - 1 = Len(own) /\ Len(own) \in 1..Len(own)
      BY <1>1, <1>6, <2>2
    <3> QED BY <1>6, <1>11, <2>2, <3>1 DEF Published
  <2> QED BY <1>1, <1>6, <2>1, <2>2
<1>14. carry' = IF Len(own') = 0 THEN None ELSE own'[Len(own')].leaves
  BY <1>1, <1>5, <1>6
<1> QED BY <1>12, <1>13, <1>14 DEF Published

(* The windows hand their positions on, and what is handed on is entered.  *)
LEMMA PublishedCarries ==
  ASSUME IInv, Published
  PROVE  CarryEnters
<1>1. Len(own) \in Nat
  BY Appended DEF IInv
<1>2. \A k \in 1..Len(own) : k > 1 => k \in 2..Len(own)
  BY <1>1
<1> QED BY <1>2 DEF Published, WindowOK, CarryEnters

-----------------------------------------------------------------------------
(* Two markets                                                             *)

Alike(mk, nk, d, e, r) ==
  /\ Does(mk, "refused", d, e, r) <=> Does(nk, "refused", d, e, r)
  /\ Does(mk, "in_bar", d, e, r) <=> Does(nk, "in_bar", d, e, r)
  /\ Does(mk, "due", d, e, r) <=> Does(nk, "due", d, e, r)

(* A row is the same in two markets that treat alike what it holds and what *)
(* it is signalled to enter.                                               *)
LEMMA AlikeAdvance ==
  ASSUME NEW mk, NEW nk, NEW x, x.open \in Sides, NEW s, NEW r,
         \A d \in Dir : Asked(s, d) => Alike(mk, nk, d, r, r),
         x.open # None => Alike(mk, nk, x.open, x.since, r)
  PROVE  Advanced(mk, x, s, r) = Advanced(nk, x, s, r)
<1> DEFINE out == IF Leaves(x, s) THEN {x.open} ELSE {}
           entered == {d \in Dir : Enters(mk, x, s, d, r)}
           c == CHOOSE d \in entered : TRUE
<1>1. entered = {d \in Dir : Enters(nk, x, s, d, r)}
  BY DEF Enters, Alike
<1>2. ASSUME NEW d, NEW e, NEW o, Alike(mk, nk, d, e, r)
      PROVE  Held(mk, d, e, r, o) = Held(nk, d, e, r, o)
  <2>1. Does(mk, "in_bar", d, e, r) <=> Does(nk, "in_bar", d, e, r)
    BY <1>2 DEF Alike
  <2>2. Does(mk, "due", d, e, r) = Does(nk, "due", d, e, r)
    BY <1>2 DEF Alike, Does
  <2> QED BY <2>1, <2>2 DEF Held
<1>3. Advanced(mk, x, s, r) = IF entered # {} THEN Held(mk, c, r, r, out)
                             ELSE IF x.open # None /\ out = {} THEN Held(mk, x.open, x.since, r, out)
                             ELSE [Idle EXCEPT !.out = out]
  BY DEF Advanced
<1>4. Advanced(nk, x, s, r) = IF entered # {} THEN Held(nk, c, r, r, out)
                             ELSE IF x.open # None /\ out = {} THEN Held(nk, x.open, x.since, r, out)
                             ELSE [Idle EXCEPT !.out = out]
  <2> DEFINE same == {d \in Dir : Enters(nk, x, s, d, r)}
             e == CHOOSE d \in same : TRUE
  <2>1. Advanced(nk, x, s, r) = IF same # {} THEN Held(nk, e, r, r, out)
                               ELSE IF x.open # None /\ out = {} THEN Held(nk, x.open, x.since, r, out)
                               ELSE [Idle EXCEPT !.out = out]
    BY DEF Advanced
  <2> HIDE DEF entered, same, out
  <2>2. entered = same
    BY <1>1 DEF same
  <2> QED BY <2>1, <2>2
<1>5. entered # {} => Alike(mk, nk, c, r, r)
  <2>1. entered # {} => c \in entered
    OBVIOUS
  <2> QED BY <2>1 DEF Enters
<1> HIDE DEF out, entered, c
<1>6. CASE entered # {}
  BY <1>2, <1>3, <1>4, <1>5, <1>6
<1>7. CASE entered = {} /\ x.open # None /\ out = {}
  BY <1>2, <1>3, <1>4, <1>7
<1>8. CASE entered = {} /\ ~ (x.open # None /\ out = {})
  BY <1>3, <1>4, <1>8
<1> QED BY <1>6, <1>7, <1>8

(* As long as they do not differ about an entry of the window, the windows' *)
(* market and the replay's treat each of them alike.                       *)
LEMMA NotDiffering ==
  ASSUME NEW k, First(k) \in Int, NEW r \in Int, ~ Differs(k, r),
         NEW e \in First(k) + 1..r, NEW d, Asked(own[k].signals[e - 1], d)
  PROVE  Alike(market.joined, market.windows, d, e, r)
<1>1. ASSUME NEW what
      PROVE  Does(market.joined, what, d, e, r) <=> Does(market.windows, what, d, e, r)
  <2>1. PICK x : x = [side |-> d, entry |-> e, row |-> r, what |-> what]
    OBVIOUS
  <2>2. x.entry = e /\ x.row = r /\ x.side = d
    BY <2>1
  <2>3. r \in e..r
    OBVIOUS
  <2>4. x \notin Unlike
    BY <2>2, <2>3 DEF Differs
  <2> QED BY <2>1, <2>4 DEF Unlike, Does
<1> QED BY <1>1 DEF Alike

(* Once they differ they have differed for the rest of the window.         *)
LEMMA DiffersOn ==
  ASSUME NEW k, First(k) \in Int, NEW r \in Int, Differs(k, r)
  PROVE  Differs(k, r + 1)
<1>1. PICK x \in Unlike : /\ x.entry \in First(k) + 1..r /\ x.row \in x.entry..r
                         /\ Asked(own[k].signals[x.entry - 1], x.side)
  BY DEF Differs
<1>2. x.entry \in First(k) + 1..r + 1 /\ x.row \in x.entry..r + 1
  BY <1>1
<1> QED BY <1>1, <1>2 DEF Differs

LEMMA SameOnlyAtr ==
  ASSUME UNCHANGED <<plan, market, atr>>, OnlyAtrDiffers
  PROVE  OnlyAtrDiffers'
BY DEF OnlyAtrDiffers, Unlike, First, Last

-----------------------------------------------------------------------------
(* The replay: inside a window it takes the window's own step; on the first *)
(* row of a window nothing is held, on both sides, unless an entry strays. *)
LEMMA StitchRepeats ==
  ASSUME IInv, Published, Stitch
  PROVE  Repeats'
<1>1. /\ plan' = plan /\ own' = own /\ seg' = 1 /\ stage' = "replay" /\ row' = 1 /\ pos' = Idle
      /\ Len(own) = Len(plan) /\ plan \in Plans
  BY DEF IInv, Stitch
<1>2. Len(plan) \in Nat \ {0} /\ First(1) = 0 /\ Last(1) \in Nat /\ Last(1) >= 2
  BY <1>1, PlanRows DEF First, Last
<1>3. PICK w : w = own[1]
  OBVIOUS
<1>4. WindowOK(w, 1)
  BY <1>1, <1>2, <1>3 DEF Published
<1>5. w.rows[0] = Idle /\ w.rows[1] = Advanced(market.windows, Idle, w.signals[0], 1)
  <2>1. 1 \in First(1) + 1..Last(1) /\ 1 - 1 = 0
    BY <1>2
  <2> QED BY <1>2, <1>4, <2>1 DEF WindowOK
<1>6. ASSUME ~ Stray(1)
      PROVE  w.rows[1] = Idle
  <2>1. \A d \in Dir : ~ Asked(w.signals[0], d)
    BY <1>3, <1>6 DEF Stray
  <2>2. Idle.open = None
    BY DEF Idle
  <2> QED BY <1>5, <2>1, <2>2, QuietAdvance
<1>7. Stray(1)' <=> Stray(1)
  BY <1>1 DEF Stray, Asked
<1>8. Stray(seg)' <=> Stray(1)'
  BY <1>1 DEF Stray, Last
<1>9. Signalled(pos, seg, row)'
  BY <1>1 DEF Signalled, Idle
<1> QED BY <1>1, <1>3, <1>6, <1>7, <1>8, <1>9 DEF Repeats

LEMMA ReplayRepeats ==
  ASSUME IInv, IInv', Published, Repeats, Replay
  PROVE  Repeats'
<1>1. /\ stage = "replay" /\ InReplay /\ plan \in Plans /\ seg \in 1..Len(plan)
      /\ plan' = plan /\ own' = own /\ stage' = "replay" /\ row' = row + 1
      /\ seg' = (IF row < Last(seg) THEN seg ELSE seg + 1)
      /\ pos' = Advanced(market.joined, pos, own[seg].signals[row], row + 1)
      /\ row < Last(seg) \/ seg < Len(plan)
  BY DEF IInv, Replay, StitchedSignals
<1>2. /\ Len(own) = Len(plan) /\ Len(plan) \in Nat
      /\ First(seg) \in Nat /\ Last(seg) \in Nat /\ row \in First(seg)..Last(seg) /\ row >= 1
  BY <1>1, PlanRows DEF InReplay, First, Last, Repeats
<1>3. PICK k : k = seg'
  OBVIOUS
<1>4. Stray(seg)' <=> Stray(k)
  BY <1>1, <1>3 DEF Stray, Asked, Last
<1>5. PICK x : x = pos'
  OBVIOUS
<1>6. /\ Signalled(pos, seg, row)' <=> Signalled(x, k, row + 1)
      /\ Differs(seg, row)' <=> Differs(k, row + 1)
  <2>1. UNCHANGED <<plan, market, own>>
    BY DEF Replay
  <2>2. Differs(seg, row)' <=> Differs(k, row + 1)
    BY <1>1, <1>3, <2>1 DEF Differs, Unlike, First, Asked
  <2>3. Signalled(pos, seg, row)' <=> Signalled(x, k, row + 1)
    BY <1>1, <1>3, <1>5, <2>1 DEF Signalled, First, Asked
  <2> QED BY <2>2, <2>3
<1> SUFFICES ASSUME ~ Stray(k)
             PROVE  /\ Signalled(x, k, row + 1)
                    /\ x = own[k].rows[row + 1] \/ Differs(k, row + 1)
  BY <1>1, <1>2, <1>3, <1>4, <1>5, <1>6 DEF Repeats
<1>7. CASE row < Last(seg)
  <2>1. k = seg /\ WindowOK(own[k], k)
    BY <1>1, <1>2, <1>3, <1>7 DEF Published
  <2>2. row + 1 \in First(k) + 1..Last(k) /\ (row + 1) - 1 = row
    BY <1>2, <1>7, <2>1
  <2>3. PICK s : s = own[k].signals[row]
    OBVIOUS
  <2>4. /\ x = Advanced(market.joined, pos, s, row + 1)
        /\ own[k].rows[row + 1] = Advanced(market.windows, own[k].rows[row], s, row + 1)
    BY <1>1, <1>5, <2>1, <2>2, <2>3 DEF WindowOK
  <2>5. /\ pos.open \in Sides /\ Signalled(pos, k, row)
        /\ pos = own[k].rows[row] \/ Differs(k, row)
    BY <1>1, <2>1 DEF Repeats, InReplay, Sides
  <2>6. Signalled(x, k, row + 1)
    <3> SUFFICES ASSUME x.open # None
                 PROVE  x.since \in First(k) + 1..row + 1 /\ Asked(own[k].signals[x.since - 1], x.open)
      BY DEF Signalled
    <3>1. \/ x.since = row + 1 /\ Asked(s, x.open)
          \/ pos.open # None /\ x.since = pos.since /\ x.open = pos.open
      BY <2>4, <2>5, AdvancedHolds DEF Sides
    <3>2. CASE x.since = row + 1 /\ Asked(s, x.open)
      BY <2>2, <2>3, <3>2
    <3>3. CASE pos.open # None /\ x.since = pos.since /\ x.open = pos.open
      BY <1>2, <2>1, <2>5, <3>3 DEF Signalled
    <3> QED BY <3>1, <3>2, <3>3
  <2>7. ASSUME ~ Differs(k, row + 1)
        PROVE  x = own[k].rows[row + 1]
    <3>1. pos = own[k].rows[row]
      BY <1>2, <2>1, <2>5, <2>7, DiffersOn
    <3>2. ASSUME NEW d \in Dir, Asked(s, d)
          PROVE  Alike(market.joined, market.windows, d, row + 1, row + 1)
      <4>1. row + 1 \in First(k) + 1..row + 1
        BY <2>2, <1>2, <2>1
      <4> QED BY <1>2, <2>1, <2>2, <2>3, <2>7, <3>2, <4>1, NotDiffering
    <3>3. ASSUME pos.open # None
          PROVE  Alike(market.joined, market.windows, pos.open, pos.since, row + 1)
      <4>1. pos.since \in First(k) + 1..row + 1 /\ Asked(own[k].signals[pos.since - 1], pos.open)
        BY <1>2, <2>1, <2>5, <3>3 DEF Signalled
      <4> QED BY <1>2, <2>1, <2>7, <4>1, NotDiffering
    <3> QED BY <2>4, <2>5, <3>1, <3>2, <3>3, AlikeAdvance
  <2> QED BY <2>6, <2>7
<1>8. CASE ~ (row < Last(seg))
  <2>1. k = seg + 1 /\ row = Last(seg) /\ seg \in 1..Len(plan) - 1 /\ k \in 2..Len(plan)
    BY <1>1, <1>2, <1>3, <1>8
  <2>2. pos.open = None
    BY <1>1, <2>1, <1>8 DEF InReplay
  <2>3. k # 1 /\ k - 1 = seg
    BY <2>1
  <2>4. \A d \in Dir : ~ Asked(own[seg].signals[row], d)
    BY <2>1, <2>3 DEF Stray
  <2>5. x = Idle
    BY <1>1, <1>5, <2>2, <2>4, QuietAdvance
  <2>6. First(k) = row + 1
    <3>1. plan[seg + 1].start = plan[seg].end /\ plan[seg].end \in Nat
      BY <1>1, <2>1, PlanRows
    <3> QED BY <2>1, <3>1 DEF First, Last
  <2>7. WindowOK(own[k], k)
    BY <1>2, <2>1 DEF Published
  <2>8. Signalled(x, k, row + 1)
    BY <2>5 DEF Signalled, Idle
  <2> QED BY <2>5, <2>6, <2>7, <2>8 DEF WindowOK
<1> QED BY <1>7, <1>8

AllInv == IInv /\ Published /\ Repeats /\ OnlyAtrDiffers

LEMMA AllInvInit == Init => AllInv
<1> SUFFICES ASSUME Init PROVE AllInv
  OBVIOUS
<1>1. own = <<>> /\ carry = None /\ stage = "windows" /\ OnlyAtrDiffers
  BY DEF Init
<1>2. Len(own) = 0 /\ 1..0 = {} /\ 2..0 = {}
  BY <1>1
<1>3. Published /\ Repeats
  BY <1>1, <1>2 DEF Published, Repeats
<1> QED BY <1>1, <1>3, InitHolds DEF AllInv

LEMMA AllInvStep == AllInv /\ [Next]_vars => AllInv'
<1> SUFFICES ASSUME AllInv, [Next]_vars PROVE AllInv'
  OBVIOUS
<1>1. IInv /\ Published /\ Repeats /\ OnlyAtrDiffers
  BY DEF AllInv
<1>0. OnlyAtrDiffers'
  <2>1. UNCHANGED <<plan, market, atr>>
    BY DEF Next, Execute, Fail, Stitch, Replay, vars
  <2> QED BY <1>1, <2>1, SameOnlyAtr
<1>2. CASE Execute
  <2>1. IInv'
    BY <1>1, <1>2, ExecuteStep
  <2>2. Published'
    BY <1>1, <1>2, ExecutePublishes
  <2>3. Repeats'
    BY <1>2 DEF Repeats, Execute
  <2> QED BY <1>0, <2>1, <2>2, <2>3 DEF AllInv
<1>3. CASE Stitch
  <2>1. IInv' /\ Repeats'
    BY <1>1, <1>3, StitchStep, StitchRepeats
  <2>2. UNCHANGED <<plan, market, atr, own, carry>>
    BY <1>3 DEF Stitch
  <2>3. Published'
    BY <1>1, <2>2, SamePublished
  <2> QED BY <1>0, <2>1, <2>3 DEF AllInv
<1>4. CASE Replay
  <2>1. IInv'
    BY <1>1, <1>4, ReplayStep
  <2>2. UNCHANGED <<plan, market, atr, own, carry>>
    BY <1>4 DEF Replay
  <2>3. Published'
    BY <1>1, <2>2, SamePublished
  <2>4. Repeats'
    BY <1>1, <1>4, <2>1, ReplayRepeats
  <2> QED BY <1>0, <2>1, <2>3, <2>4 DEF AllInv
<1>5. CASE Fail \/ UNCHANGED vars
  <2>1. IInv'
    BY <1>1, <1>5, OtherStep
  <2>2. UNCHANGED <<plan, market, atr, own, carry, row, seg, pos>>
    BY <1>5 DEF Fail, vars
  <2>3. Published'
    BY <1>1, <2>2, SamePublished
  <2>4. stage' = "replay" => stage = "replay"
    BY <1>5 DEF Fail, vars
  <2>5. Repeats'
    <3>1. Differs(seg, row)' <=> Differs(seg, row)
      BY <2>2 DEF Differs, Unlike, First, Asked
    <3>2. Signalled(pos, seg, row)' <=> Signalled(pos, seg, row)
      BY <2>2 DEF Signalled, First, Asked
    <3>3. Stray(seg)' <=> Stray(seg)
      BY <2>2 DEF Stray, Asked, Last
    <3> QED BY <1>1, <2>2, <2>4, <3>1, <3>2, <3>3 DEF Repeats
  <2> QED BY <1>0, <2>1, <2>3, <2>5 DEF AllInv
<1> QED BY <1>2, <1>3, <1>4, <1>5 DEF Next

(* A position that only the end of its window closes is handed on to the   *)
(* next window, which enters it on its second row.  The argument: the run  *)
(* that is closed and the one that is not are signalled alike up to the    *)
(* forced exit, and the warm-up of a window leaves nothing in the way.     *)
THEOREM CarriedPositionsEnter == Spec => []CarryEnters
<1>1. AllInv => CarryEnters
  BY PublishedCarries DEF AllInv
<1> QED BY AllInvInit, AllInvStep, <1>1, PTL DEF Spec

(* The joined replay shows on every row what the row's window published,   *)
(* in every window before which no entry strays.  A window with a stop by   *)
(* ATR is repeated until its own ATR and the replay's disagree about an     *)
(* entry it was signalled; any other is repeated to its end.  The argument: *)
(* what the replay holds was signalled in the window, so that as long as    *)
(* they agree about such entries both take the same step.                  *)
THEOREM ReplayRepeatsTheWindows == Spec => []Replayed
<1>1. AllInv => Replayed
  <2> SUFFICES ASSUME AllInv, stage = "replay", Differs(seg, row)
               PROVE  seg \in atr
    BY DEF AllInv, Repeats, Replayed
  <2>1. /\ row \in First(seg)..Last(seg) /\ seg \in 1..Len(plan)
        /\ First(seg) \in Nat /\ Last(seg) \in Nat
    BY PlanRows DEF AllInv, IInv, InReplay, First, Last
  <2>2. PICK x \in Unlike : x.entry \in First(seg) + 1..row
    BY DEF Differs
  <2>3. x.entry \in First(seg)..Last(seg)
    BY <2>1, <2>2
  <2> QED BY <2>1, <2>2, <2>3 DEF AllInv, OnlyAtrDiffers
<1> QED BY AllInvInit, AllInvStep, <1>1, PTL DEF Spec
=============================================================================
