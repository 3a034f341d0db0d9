------------------------ MODULE ParamSchedule_proofs ------------------------
(***************************************************************************)
(* Proofs about ParamSchedule, for every schedule, every length of the     *)
(* data and every set of risk parameters.                                  *)
(***************************************************************************)
EXTENDS ParamSchedule, WellFoundedInduction, TLAPS

(* The least-number principle.                                             *)
LEMMA Least ==
    ASSUME NEW T, T \subseteq Nat, T # {}
    PROVE  \E m \in T : \A k \in T : m <= k
<1>1. PICK x \in T : \A y \in T : <<y, x>> \notin OpToRel(<, Nat)
  BY WFMin, NatLessThanWellFounded, Zenon
<1>2. \A y \in T : ~ (y < x)
  BY <1>1, Zenon DEF OpToRel
<1>. QED  BY <1>2

(* Segments of a contiguous schedule lie one after the other.              *)
LEMMA SegmentsOrdered ==
    ASSUME NEW s \in Seq(Segment), NEW n \in Nat, Contiguous(s, n),
           NEW i \in 1..Len(s), NEW j \in 1..Len(s), i < j
    PROVE  s[i].end <= s[j].start
<1>. DEFINE T == {k \in 1..Len(s) : i < k /\ s[k].start < s[i].end}
<1>0. \A k \in 1..Len(s) : s[k] \in Segment
  OBVIOUS
<1>1. \A k \in 1..Len(s) : s[k].start \in Nat /\ s[k].end \in Nat
  BY <1>0 DEF Segment
<1>2. ASSUME T # {}  PROVE FALSE
  <2>1. T \subseteq Nat
    OBVIOUS
  <2>2. PICK m \in T : \A k \in T : m <= k
    BY <1>2, <2>1, Least
  <2>3. m \in 1..Len(s) /\ i < m /\ s[m].start < s[i].end
    BY <2>2
  <2>0. Len(s) \in Nat
    OBVIOUS
  <2>4. m \in Nat /\ m - 1 \in 1..(Len(s) - 1) /\ m - 1 \in 1..Len(s)
    BY <2>0, <2>3
  <2>9. m - 1 \notin T
    <3>1. m - 1 \in T => m <= m - 1
      BY <2>2, Zenon
    <3>. QED  BY <2>4, <3>1
  <2>5. s[m].start = s[m - 1].end
    BY <2>3, <2>4 DEF Contiguous
  <2>6. s[m - 1].start < s[m - 1].end
    BY <2>3, <2>4 DEF Contiguous
  <2>7. m - 1 # i
    BY <2>3, <2>4, <2>5, <1>1
  <2>8. s[i].end <= s[m - 1].start
    BY <2>3, <2>4, <2>7, <2>9, <1>1
  <2>. QED  BY <2>3, <2>4, <2>5, <2>6, <2>8, <1>1
<1>. QED  BY <1>1, <1>2

-----------------------------------------------------------------------------
(* The inductive invariant.                                                *)

(* An accepted schedule was checked and its columns are allocated.         *)
Checked ==
    phase \notin {"given", "rejected"} =>
        Accepted(schedule, length, atr) /\ columns = Schema(schedule)

(* The cursor stands on the segment of the row asked for, or before it.    *)
CursorBehindRow ==
    /\ phase = "given" => segment = 1 /\ row = 0
    /\ phase = "selecting" =>
          /\ row < length
          /\ segment \in 1..Len(schedule)
          /\ schedule[segment].start <= row
    /\ phase = "writing" =>
          /\ row < length
          /\ segment \in 1..Len(schedule)
          /\ schedule[segment].start <= row
          /\ row < schedule[segment].end

(* A written row carries the params of a segment, its own from row 2 on.   *)
WrittenBySegment ==
    \A r \in DOMAIN table : table[r] # None =>
        \E i \in 1..Len(schedule) :
            /\ table[r] = schedule[i].params
            /\ r >= 2 => schedule[i].start <= r /\ r < schedule[i].end

(* Rows are written in order and none is skipped.                          *)
WrittenUpToRow ==
    /\ phase \in {"given", "rejected"} => \A r \in DOMAIN table : table[r] = None
    /\ phase \in {"selecting", "writing"} =>
          \A r \in DOMAIN table : r < row => table[r] # None
    /\ phase = "done" => \A r \in DOMAIN table : table[r] # None

IInv == TypeOK /\ NeverFails /\ Checked /\ CursorBehindRow
        /\ WrittenBySegment /\ WrittenUpToRow

THEOREM InitHolds == Init => IInv
<1>. SUFFICES ASSUME Init PROVE IInv
  OBVIOUS
<1>0. schedule \in Seq(Segment) /\ Len(schedule) \in Nat /\ length \in Nat
  BY ScheduleAssumption, LengthAssumption DEF Init
<1>1. table = [r \in 0..(length - 1) |-> None] /\ phase = "given"
  BY DEF Init, Blank
<1>2. TypeOK
  BY <1>0, <1>1 DEF Init, TypeOK, Phases
<1>. QED
  <2>1. segment = 1 /\ row = 0
    BY DEF Init
  <2>2. \A r \in DOMAIN table : table[r] = None
    BY <1>1
  <2>. QED
    BY <1>1, <1>2, <2>1, <2>2 DEF IInv, NeverFails, Checked, CursorBehindRow,
       WrittenBySegment, WrittenUpToRow

(* A contiguous schedule has a first row to start from.                    *)
LEMMA HasRows ==
    ASSUME NEW s \in Seq(Segment), NEW n \in Nat, Contiguous(s, n)
    PROVE  n > 0 /\ Len(s) \in Nat /\ Len(s) >= 1
<1>1. Len(s) \in Nat /\ Len(s) >= 1
  BY DEF Contiguous
<1>2. s[Len(s)] \in Segment
  BY <1>1
<1>3. s[Len(s)].start \in Nat /\ s[Len(s)].end \in Nat
  BY <1>2 DEF Segment
<1>. QED  BY <1>1, <1>3 DEF Contiguous

THEOREM StepHolds == IInv /\ [Next]_vars => IInv'
<1>. SUFFICES ASSUME IInv, [Next]_vars PROVE IInv'
  OBVIOUS
<1>0. /\ schedule \in Seq(Segment) /\ Len(schedule) \in Nat /\ length \in Nat
      /\ TypeOK /\ NeverFails /\ Checked /\ CursorBehindRow
      /\ WrittenBySegment /\ WrittenUpToRow
  BY ScheduleAssumption, LengthAssumption DEF IInv, TypeOK
<1>t. /\ segment \in Nat /\ row \in Nat
      /\ table \in [0..(length - 1) -> Param \cup {None}]
  BY <1>0 DEF TypeOK
<1>s. \A k \in 1..Len(schedule) :
        /\ schedule[k] \in Segment
        /\ schedule[k].start \in Nat /\ schedule[k].end \in Nat
        /\ schedule[k].params \in Param
  <2>1. \A k \in 1..Len(schedule) : schedule[k] \in Segment
    BY <1>0
  <2>. QED  BY <2>1 DEF Segment
<1>1. CASE Reject
  <2>1. TypeOK'
    BY <1>0, <1>1 DEF Reject, TypeOK, Phases, input
  <2>. QED
    BY <1>0, <1>1, <2>1 DEF Reject, IInv, NeverFails, Checked, CursorBehindRow,
       WrittenBySegment, WrittenUpToRow, input
<1>2. CASE Accept
  <2>1. Contiguous(schedule, length)
    BY <1>2 DEF Accept, Accepted
  <2>2. length > 0 /\ Len(schedule) >= 1
    BY <1>0, <2>1, HasRows
  <2>3. \A i \in 1..Len(schedule) : schedule[i].params.on \subseteq Kinds
    BY <1>s DEF Param
  <2>4. Schema(schedule) \subseteq Kinds
    BY <2>3 DEF Schema
  <2>5. TypeOK'
    BY <1>0, <1>2, <2>4 DEF Accept, TypeOK, Phases, input
  <2>6. CursorBehindRow'
    <3>1. segment = 1 /\ row = 0
      BY <1>0, <1>2 DEF Accept, CursorBehindRow
    <3>. QED
      BY <1>0, <1>2, <2>1, <2>2, <3>1 DEF Accept, CursorBehindRow, Contiguous, input
  <2>7. WrittenUpToRow'
    <3>1. row = 0
      BY <1>0, <1>2 DEF Accept, CursorBehindRow
    <3>2. DOMAIN table = 0..(length - 1)
      BY <1>t
    <3>. QED
      BY <1>2, <3>1, <3>2 DEF Accept, WrittenUpToRow
  <2>. QED
    BY <1>0, <1>2, <2>5, <2>6, <2>7 DEF Accept, IInv, NeverFails, Checked,
       WrittenBySegment, input
<1>a. phase \notin {"given", "rejected"} =>
        /\ Contiguous(schedule, length)
        /\ columns = Schema(schedule)
  BY <1>0 DEF Checked, Accepted
<1>3. CASE Advance
  <2>1. /\ row < length /\ segment \in 1..Len(schedule)
        /\ row >= schedule[segment].end /\ phase = "selecting"
    BY <1>0, <1>3 DEF Advance, Behind, CursorBehindRow
  <2>2. segment # Len(schedule)
    BY <1>0, <1>t, <1>s, <1>a, <2>1 DEF Contiguous
  <2>3. segment + 1 \in 1..Len(schedule) /\ segment \in 1..(Len(schedule) - 1)
    BY <1>0, <1>t, <2>1, <2>2
  <2>4. schedule[segment + 1].start = schedule[segment].end
    BY <1>a, <2>1, <2>3 DEF Contiguous
  <2>5. TypeOK'
    BY <1>0, <1>3, <2>3 DEF Advance, TypeOK, input
  <2>6. CursorBehindRow'
    BY <1>3, <2>1, <2>3, <2>4 DEF Advance, CursorBehindRow, input
  <2>. QED
    BY <1>0, <1>3, <2>5, <2>6 DEF Advance, IInv, NeverFails, Checked,
       WrittenBySegment, WrittenUpToRow, input
<1>4. CASE Select
  <2>1. /\ row < length /\ segment \in 1..Len(schedule)
        /\ schedule[segment].start <= row /\ phase = "selecting"
    BY <1>0, <1>4 DEF Select, CursorBehindRow
  <2>2. row < schedule[segment].end
    BY <1>0, <1>t, <1>s, <1>4, <2>1 DEF Select, Behind
  <2>3. phase' = "writing"
    BY <1>0, <1>t, <1>4, <2>1, <2>2 DEF Select
  <2>4. TypeOK'
    BY <1>0, <1>4, <2>3 DEF Select, TypeOK, Phases, input
  <2>. QED
    BY <1>0, <1>4, <2>1, <2>2, <2>3, <2>4 DEF Select, IInv, NeverFails, Checked,
       CursorBehindRow, WrittenBySegment, WrittenUpToRow, input
<1>5. CASE Write
  <2>. DEFINE p == schedule[segment].params
  <2>. DEFINE next == IF row = 0 THEN 2 ELSE row + 1
  <2>1. /\ row < length /\ segment \in 1..Len(schedule)
        /\ schedule[segment].start <= row /\ row < schedule[segment].end
        /\ phase = "writing"
    BY <1>0, <1>5 DEF Write, CursorBehindRow
  <2>2. p.on \subseteq columns
    BY <1>a, <2>1 DEF Schema
  <2>3. /\ table' = [r \in DOMAIN table |-> IF r \in row..(next - 1) THEN p ELSE table[r]]
        /\ row' = next
        /\ phase' = IF next >= length THEN "done" ELSE "selecting"
        /\ UNCHANGED <<input, segment, columns>>
    BY <1>5, <2>2 DEF Write
  <2>4. p \in Param /\ next \in Nat /\ next > row
    BY <1>t, <1>s, <2>1
  <2>5. p # None
    BY <2>4, NoneAssumption
  <2>. HIDE DEF p, next
  <2>6. table' \in [0..(length - 1) -> Param \cup {None}]
    BY <1>t, <2>3, <2>4
  <2>7. TypeOK'
    BY <1>0, <2>3, <2>4, <2>6 DEF TypeOK, Phases, input
  <2>8. CursorBehindRow'
    BY <1>0, <1>t, <1>s, <2>1, <2>3, <2>4 DEF CursorBehindRow, input
  <2>9. WrittenBySegment'
    <3>1. SUFFICES ASSUME NEW r \in DOMAIN table, table'[r] # None
          PROVE  \E i \in 1..Len(schedule) :
                    /\ table'[r] = schedule[i].params
                    /\ r >= 2 => schedule[i].start <= r /\ r < schedule[i].end
      BY <1>t, <2>3, <2>6 DEF WrittenBySegment, input
    <3>2. CASE r \in row..(next - 1)
      <4>1. table'[r] = schedule[segment].params
        BY <2>3, <3>2 DEF p
      <4>2. r >= 2 => r = row
        BY <1>t, <3>2 DEF next
      <4>. QED  BY <2>1, <4>1, <4>2
    <3>3. CASE r \notin row..(next - 1)
      BY <1>0, <2>3, <3>1, <3>3 DEF WrittenBySegment
    <3>. QED  BY <3>2, <3>3
  <2>10. WrittenUpToRow'
    <3>1. DOMAIN table' = 0..(length - 1) /\ DOMAIN table = 0..(length - 1)
      BY <1>t, <2>6
    <3>2. \A r \in DOMAIN table : r < row => table[r] # None
      BY <1>0, <2>1 DEF WrittenUpToRow
    <3>3. \A r \in DOMAIN table' : r < next => table'[r] # None
      BY <1>t, <2>3, <2>4, <2>5, <3>1, <3>2
    <3>. QED
      BY <1>0, <2>3, <2>4, <3>1, <3>3 DEF WrittenUpToRow
  <2>. QED
    BY <1>0, <2>1, <2>3, <2>7, <2>8, <2>9, <2>10 DEF IInv, NeverFails, Checked, input
<1>6. CASE UNCHANGED vars
  BY <1>0, <1>6 DEF vars, input, IInv, TypeOK, NeverFails, Checked, CursorBehindRow,
     WrittenBySegment, WrittenUpToRow
<1>. QED  BY <1>1, <1>2, <1>3, <1>4, <1>5, <1>6 DEF Next

(* Types hold for every schedule, accepted or not.                         *)
THEOREM TypesHold == Spec => []TypeOK
<1>1. Spec => []IInv
  BY InitHolds, StepHolds, PTL DEF Spec
<1>2. IInv => TypeOK
  BY DEF IInv
<1>. QED  BY <1>1, <1>2, PTL

(* No accepted schedule makes the selector report a missing segment or a   *)
(* row write a column that is not there.                                   *)
THEOREM AcceptedSchedulesRun == Spec => []NeverFails
<1>1. Spec => []IInv
  BY InitHolds, StepHolds, PTL DEF Spec
<1>2. IInv => NeverFails
  BY DEF IInv
<1>. QED  BY <1>1, <1>2, PTL

(* A row is run with the params of the one segment that holds it.          *)
THEOREM RowsUseTheirSegment == Spec => []RowsFollowSchedule
<1>1. Spec => []IInv
  BY InitHolds, StepHolds, PTL DEF Spec
<1>2. IInv => RowsFollowSchedule
  <2>. SUFFICES ASSUME IInv, NEW r \in DOMAIN table, r >= 2, table[r] # None,
                       NEW i \in 1..Len(schedule),
                       schedule[i].start <= r, r < schedule[i].end
                PROVE  table[r] = schedule[i].params
    BY DEF RowsFollowSchedule
  <2>1. /\ schedule \in Seq(Segment) /\ Len(schedule) \in Nat /\ length \in Nat
        /\ DOMAIN table = 0..(length - 1) /\ TypeOK
    BY ScheduleAssumption, LengthAssumption DEF IInv, TypeOK
  <2>2. phase \notin {"given", "rejected"}
    BY DEF IInv, WrittenUpToRow
  <2>3. Contiguous(schedule, length)
    BY <2>2 DEF IInv, Checked, Accepted
  <2>4. PICK k \in 1..Len(schedule) :
            /\ table[r] = schedule[k].params
            /\ schedule[k].start <= r /\ r < schedule[k].end
    BY DEF IInv, WrittenBySegment
  <2>5. r \in Nat
    BY <2>1
  <2>6. schedule[i] \in Segment /\ schedule[k] \in Segment
    BY <2>1
  <2>7. /\ schedule[i].start \in Nat /\ schedule[i].end \in Nat
        /\ schedule[k].start \in Nat /\ schedule[k].end \in Nat
    BY <2>6 DEF Segment
  <2>8. ~ (i < k)
    <3>1. i < k => schedule[i].end <= schedule[k].start
      BY <2>1, <2>3, SegmentsOrdered
    <3>. QED  BY <2>4, <2>5, <2>7, <3>1
  <2>9. ~ (k < i)
    <3>1. k < i => schedule[k].end <= schedule[i].start
      BY <2>1, <2>3, SegmentsOrdered
    <3>. QED  BY <2>4, <2>5, <2>7, <3>1
  <2>10. i = k
    BY <2>1, <2>8, <2>9
  <2>. QED  BY <2>4, <2>10
<1>. QED  BY <1>1, <1>2, PTL

(* All rows of a run are charged under one capital and one fee.            *)
THEOREM PurseIsShared == Spec => []OnePurse
<1>1. Spec => []IInv
  BY InitHolds, StepHolds, PTL DEF Spec
<1>2. IInv => OnePurse
  <2>. SUFFICES ASSUME IInv, NEW q \in DOMAIN table, NEW r \in DOMAIN table,
                       table[q] # None, table[r] # None
                PROVE  table[q].funds = table[r].funds
    BY DEF OnePurse
  <2>1. phase \notin {"given", "rejected"}
    BY DEF IInv, WrittenUpToRow
  <2>2. SamePurse(schedule)
    BY <2>1 DEF IInv, Checked, Accepted
  <2>3. \A x \in DOMAIN table : table[x] # None =>
            \E i \in 1..Len(schedule) : table[x] = schedule[i].params
    BY DEF IInv, WrittenBySegment
  <2>. QED  BY <2>2, <2>3 DEF SamePurse
<1>. QED  BY <1>1, <1>2, PTL

(* A finished table has no hole, and every column its rows need.           *)
THEOREM DoneTablesAreComplete == Spec => []DoneIsComplete
<1>1. Spec => []IInv
  BY InitHolds, StepHolds, PTL DEF Spec
<1>2. IInv => DoneIsComplete
  <2>. SUFFICES ASSUME IInv, phase = "done", NEW r \in DOMAIN table
                PROVE  /\ table[r] # None
                       /\ table[r].on \subseteq columns
                       /\ UsesAtr(table[r]) => atr = length
    BY DEF DoneIsComplete
  <2>1. table[r] # None
    BY DEF IInv, WrittenUpToRow
  <2>2. columns = Schema(schedule) /\ AtrFits(schedule, length, atr)
    BY DEF IInv, Checked, Accepted
  <2>3. PICK i \in 1..Len(schedule) : table[r] = schedule[i].params
    BY <2>1 DEF IInv, WrittenBySegment
  <2>4. table[r].on \subseteq columns
    BY <2>2, <2>3 DEF Schema
  <2>5. UsesAtr(table[r]) => atr = length
    BY <2>2, <2>3 DEF AtrFits
  <2>. QED  BY <2>1, <2>4, <2>5
<1>. QED  BY <1>1, <1>2, PTL
=============================================================================
