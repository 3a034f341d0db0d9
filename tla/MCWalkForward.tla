--------------------------- MODULE MCWalkForward ---------------------------
(* Instances of WalkForward: two windows of three or four rows; a strategy   *)
(* that enters, reverses or contradicts itself, which enters nothing, on     *)
(* each row; a market that does at most one thing to one position, in the    *)
(* windows and in the replay alike or in one of them only.                   *)
EXTENDS WalkForward

Sig(in, out) == [entry |-> [d \in Dir |-> d \in in], exit |-> [d \in Dir |-> d \in out]]

MCRaws == {Sig({"long"}, {}), Sig({"short"}, {"long"}), Sig(Dir, {})}

Parts(a, b) == <<[start |-> 0, end |-> a], [start |-> a, end |-> a + b]>>
MCPlans == {Parts(3, 4), Parts(4, 3)}

Events ==
  [side : {"long"}, entry : {2, 4}, row : 2..5, what : {"in_bar", "due", "refused"}]
Chosen == {x \in Events : x.row = x.entry \/ (x.row = x.entry + 1 /\ x.what # "refused")}
MCMarkets ==
  {[windows |-> {}, joined |-> {}]} \cup
  UNION {[windows : {{}, {x}}, joined : {{}, {x}}] : x \in Chosen}
=============================================================================
