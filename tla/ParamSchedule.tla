--------------------------- MODULE ParamSchedule ---------------------------
(***************************************************************************)
(* A backtest under a schedule of parameters: run_backtest_with_schedule   *)
(* checks the schedule, allocates the output columns its segments need,    *)
(* and the kernel then walks the rows with a cursor that only moves        *)
(* forward over the segments.  What one row does to the position is module *)
(* PositionMachine; here a row leaves the params it was run with.          *)
(*                                                                         *)
(* Rows count from 0 as in the code, segments from 1: segment_idx is       *)
(* segment - 1.                                                            *)
(***************************************************************************)
EXTENDS ScheduleContract

CONSTANTS
    Schedules,  \* the schedules a caller may pass
    Lengths,    \* the possible numbers of rows of the data
    Kinds,      \* the risk parameters that have output columns
    AtrKinds,   \* those among them that need an ATR
    Funds,      \* values of the locked fields (capital and fees)
    None        \* Option::None

(* on: the enabled risk parameters; sound: what validate() and             *)
(* validate_atr_consistency() say of them.                                 *)
Param == [on : SUBSET Kinds, funds : Funds, sound : BOOLEAN]
Segment == [start : Nat, end : Nat, params : Param]

ASSUME ScheduleAssumption == Schedules \subseteq Seq(Segment)
ASSUME LengthAssumption == Lengths \subseteq Nat
ASSUME KindAssumption == AtrKinds \subseteq Kinds
ASSUME NoneAssumption == None \notin Nat \cup Param

VARIABLES
    schedule,   \* the segments, as passed
    length,     \* data_length
    atr,        \* the length of atr_by_row, or None
    phase,      \* where run_backtest_with_schedule is
    segment,    \* the selector's cursor
    row,        \* the row the selector is asked for
    columns,    \* the kinds whose columns are allocated
    table       \* per row the params it was written with, or None

input == <<schedule, length, atr>>
vars == <<schedule, length, atr, phase, segment, row, columns, table>>

Phases == {"given", "rejected", "selecting", "writing", "done", "failed", "panicked"}

-----------------------------------------------------------------------------
(* The contract of a schedule.                                             *)

(* Capital and fees are those of the first segment throughout.             *)
SamePurse(s) == \A i \in 1..Len(s) : s[i].params.funds = s[1].params.funds

UsesAtr(p) == p.on \cap AtrKinds # {}

(* An ATR column is passed exactly when a segment uses one, at full length. *)
AtrFits(s, n, a) ==
    IF \E i \in 1..Len(s) : UsesAtr(s[i].params) THEN a = n ELSE a = None

Accepted(s, n, a) ==
    /\ Contiguous(s, n)
    /\ \A i \in 1..Len(s) : s[i].params.sound
    /\ SamePurse(s)
    /\ AtrFits(s, n, a)

(* The union of the columns of all segments.                               *)
Schema(s) == UNION {s[i].params.on : i \in 1..Len(s)}

(* A table of n rows in which nothing is written.                          *)
Blank(n) == [r \in 0..(n - 1) |-> None]

-----------------------------------------------------------------------------
Init ==
    /\ schedule \in Schedules
    /\ length \in Lengths
    /\ atr \in {None} \cup Lengths
    /\ phase = "given"
    /\ segment = 1
    /\ row = 0
    /\ columns = {}
    /\ table = Blank(length)

Reject ==
    /\ phase = "given"
    /\ ~ Accepted(schedule, length, atr)
    /\ phase' = "rejected"
    /\ UNCHANGED <<input, segment, row, columns, table>>

Accept ==
    /\ phase = "given"
    /\ Accepted(schedule, length, atr)
    /\ phase' = "selecting"
    /\ columns' = Schema(schedule)
    /\ UNCHANGED <<input, segment, row, table>>

(* The while loop of the selector: segment i ends at or before row r.      *)
Behind(s, i, r) == i <= Len(s) /\ r >= s[i].end

Advance ==
    /\ phase = "selecting"
    /\ Behind(schedule, segment, row)
    /\ segment' = segment + 1
    /\ UNCHANGED <<input, phase, row, columns, table>>

Select ==
    /\ phase = "selecting"
    /\ ~ Behind(schedule, segment, row)
    /\ phase' = IF /\ segment <= Len(schedule)
                   /\ schedule[segment].start <= row
                   /\ row < schedule[segment].end
                THEN "writing" ELSE "failed"
    /\ UNCHANGED <<input, segment, row, columns, table>>

(* A row writes the columns its own params enable; outside the allocated   *)
(* ones the unwrap() of row.rs fails.  The first step initialises rows 0   *)
(* and 1 with the params of row 0, and goes on at row 2.                   *)
Write ==
    LET p == schedule[segment].params
        next == IF row = 0 THEN 2 ELSE row + 1
    IN  /\ phase = "writing"
        /\ IF row > 0 /\ ~ (p.on \subseteq columns)
           THEN phase' = "panicked" /\ UNCHANGED <<row, table>>
           ELSE /\ table' = [r \in DOMAIN table |->
                                IF r \in row..(next - 1) THEN p ELSE table[r]]
                /\ row' = next
                /\ phase' = IF next >= length THEN "done" ELSE "selecting"
        /\ UNCHANGED <<input, segment, columns>>

Next == Reject \/ Accept \/ Advance \/ Select \/ Write

(* The call runs alone, to its end.                                        *)
Spec == Init /\ [][Next]_vars

-----------------------------------------------------------------------------
(* Properties.                                                             *)

TypeOK ==
    /\ schedule \in Schedules
    /\ length \in Lengths
    /\ atr \in {None} \cup Lengths
    /\ phase \in Phases
    /\ segment \in 1..(Len(schedule) + 1)
    /\ row \in Nat
    /\ columns \subseteq Kinds
    /\ table \in [0..(length - 1) -> Param \cup {None}]

(* An accepted schedule runs: select_params_for_row never reports a row    *)
(* without a segment, and no row writes a column that was not allocated.   *)
NeverFails == phase \notin {"failed", "panicked"}

(* Every row from 2 on is run with the params of the segment that holds    *)
(* the row, and of no other: the cursor is never behind or ahead.          *)
RowsFollowSchedule ==
    \A r \in DOMAIN table : r >= 2 /\ table[r] # None =>
        \A i \in 1..Len(schedule) :
            schedule[i].start <= r /\ r < schedule[i].end =>
                table[r] = schedule[i].params

(* No two rows of a run are charged under different capital or fees.       *)
OnePurse ==
    \A q, r \in DOMAIN table :
        table[q] # None /\ table[r] # None => table[q].funds = table[r].funds

(* A finished run has written every row, in the allocated columns only,    *)
(* and a row with an ATR stop has an ATR column as long as the data.       *)
DoneIsComplete ==
    phase = "done" => \A r \in DOMAIN table :
        /\ table[r] # None
        /\ table[r].on \subseteq columns
        /\ UsesAtr(table[r]) => atr = length
============================================================================
