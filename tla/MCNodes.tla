------------------------------- MODULE MCNodes -------------------------------
(***************************************************************************)
(* A node that is restarted beside another node; three instances of one    *)
(* node.                                                                   *)
(***************************************************************************)
EXTENDS Nodes

OneHost == [i \in Instances |-> "h"]

RestartOfA == [a1 |-> "a", a2 |-> "a", b1 |-> "b"]
ThreeOfA == [a1 |-> "a", a2 |-> "a", a3 |-> "a"]
=============================================================================
