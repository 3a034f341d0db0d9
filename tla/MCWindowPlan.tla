---------------------------- MODULE MCWindowPlan ----------------------------
(* Instances of WindowPlan: small configurations over data of up to MaxRows *)
(* rows, with a second source as fine as the base, half as fine, and one    *)
(* that begins later.                                                       *)
EXTENDS WindowPlan

CONSTANT MaxRows

MCFine(n) == [r \in 1..n |-> r - 1]
MCCoarse(n) == [r \in 1..n |-> (r - 1) \div 2]
MCLate(n) == [r \in 1..n |-> IF r <= 2 THEN None ELSE (r - 3) \div 2]

MCMappings(n) == {MCFine(n), MCCoarse(n), MCLate(n)}

MCPlans ==
  UNION {[train : {0, 1, 2, 3}, test : {2, 3, 4}, min_warmup : {0, 2},
          mode : {"borrow", "extend"}, required : {0, 1, 3}, needed : {0, 1, 2},
          mapping : MCMappings(n)] : n \in {1, 6, 9, MaxRows}}
=============================================================================
