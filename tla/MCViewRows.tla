----------------------------- MODULE MCViewRows -----------------------------
(***************************************************************************)
(* One who keeps a list, and two who remove rows, one of them with a count *)
(***************************************************************************)
EXTENDS ViewRows

MCUsers ==
  {[edits |-> {"move"}, counted |-> FALSE],
   [edits |-> {"remove"}, counted |-> FALSE],
   [edits |-> {"remove"}, counted |-> TRUE]}

Mover == {[edits |-> {"move"}, counted |-> FALSE]}
MoverAndRemover == {[edits |-> {"move", "remove"}, counted |-> FALSE]}
Counter == {[edits |-> {}, counted |-> TRUE]}
=============================================================================
