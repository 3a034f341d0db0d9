-------------------------- MODULE MCParamSchedule --------------------------
(***************************************************************************)
(* Every schedule of up to two segments over rows 0 to 4, gaps, overlaps   *)
(* and empty segments included, and of three segments that start in order. *)
(***************************************************************************)
EXTENDS ParamSchedule

MCParams ==
    {[on |-> {"sl_pct"}, funds |-> 1, sound |-> TRUE],
     [on |-> {"tsl_atr"}, funds |-> 1, sound |-> TRUE],
     [on |-> {"sl_pct"}, funds |-> 2, sound |-> TRUE]}

Unsound == [on |-> {"tsl_atr"}, funds |-> 1, sound |-> FALSE]

Segments(ps) == [start : 0..4, end : 0..4, params : ps]

MCSchedules ==
    {<<>>}
    \cup [1..1 -> Segments(MCParams \cup {Unsound})]
    \cup [1..2 -> Segments(MCParams)]
    \cup {s \in [1..3 -> {g \in Segments(MCParams) : g.end > 0}] :
             s[1].start = 0 /\ s[2].start \in 1..3 /\ s[3].start = s[2].end}
============================================================================
