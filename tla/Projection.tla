----------------------------- MODULE Projection -----------------------------
(***************************************************************************)
(* The rows of a second source that belong to a range of base rows         *)
(* (collect_projected_source_range in data_splitter.rs): the windows of    *)
(* walk forward (WindowPlan) and the slices of a data pack (DataPack) are  *)
(* cut with it.                                                            *)
(*                                                                         *)
(* p.mapping holds, for each base row, the row of the second source it     *)
(* sees; k is a pack: its range of base rows, <<a, b>> for a to b - 1, and *)
(* the active part of that range.  Rows count from 0.                      *)
(***************************************************************************)
EXTENDS Integers, Sequences, FiniteSets

CONSTANT None  \* a base row without a row of the second source

Larger(a, b) == IF a >= b THEN a ELSE b
Smaller(a, b) == IF a <= b THEN a ELSE b

MapOf(p, row) == p.mapping[row + 1]
Mapped(p, range) == {MapOf(p, r) : r \in range[1]..range[2] - 1} \ {None}

\* The first active row must have a bar there, and before that bar there must
\* be the warm-up the source needs.
Projects(p, k, need) ==
  /\ MapOf(p, k.active[1]) # None
  /\ MapOf(p, k.active[1]) >= need

\* The variant starts at the warm-up alone.
LowestWarmup(p, k, need) == MapOf(p, k.active[1]) - need
Lowest(p, k, need) ==
  LET first == MapOf(p, k.active[1]) - need
  IN  CHOOSE m \in Mapped(p, k.pack) \cup {first} :
        \A n \in Mapped(p, k.pack) \cup {first} : m <= n

Highest(p, k) == CHOOSE m \in Mapped(p, k.pack) : \A n \in Mapped(p, k.pack) : n <= m

Projected(p, k, need) ==
  [start |-> Lowest(p, k, need), end |-> Highest(p, k) + 1,
   warmup |-> MapOf(p, k.active[1]) - Lowest(p, k, need)]
=============================================================================
