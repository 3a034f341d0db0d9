-------------------------- MODULE ScheduleContract --------------------------
(***************************************************************************)
(* The shape a schedule of backtest segments must have: the kernel checks  *)
(* it (ParamSchedule), the walk-forward planner produces it (WindowPlan).  *)
(* A segment is a record with the row it starts at and the row after its   *)
(* last; rows count from 0, segments from 1.                               *)
(***************************************************************************)
EXTENDS Integers, Sequences

(* Variant: the start of the next segment is not compared.                 *)
ContiguousLoose(s, n) ==
    /\ s # <<>> /\ s[1].start = 0 /\ s[Len(s)].end = n
    /\ \A i \in 1..Len(s) : s[i].start < s[i].end

(* Variant: the last segment may stop short of the data.                   *)
ContiguousShort(s, n) ==
    /\ s # <<>> /\ s[1].start = 0
    /\ \A i \in 1..Len(s) : s[i].start < s[i].end
    /\ \A i \in 1..(Len(s) - 1) : s[i + 1].start = s[i].end

(* From row 0 to row n, without a gap or an overlap.                       *)
Contiguous(s, n) ==
    /\ s # <<>>
    /\ s[1].start = 0
    /\ \A i \in 1..Len(s) : s[i].start < s[i].end
    /\ \A i \in 1..(Len(s) - 1) : s[i + 1].start = s[i].end
    /\ s[Len(s)].end = n
============================================================================
