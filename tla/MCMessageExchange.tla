-------------------------- MODULE MCMessageExchange --------------------------
(***************************************************************************)
(* Two instances of one node and one of another; a request and a query of  *)
(* the first instance, which may overlap.                                  *)
(***************************************************************************)
EXTENDS MessageExchange

MCNodeOf == [a1 |-> "a", a2 |-> "a", b1 |-> "b"]
MCSender == [q1 |-> "a1", q2 |-> "a1"]

\* The query worker of the sender answers, that of its namesake may not.
MCSkips == [a1 |-> {}, a2 |-> {"q2"}, b1 |-> {"q2"}]

Given(targets, skip, patient) ==
  [targets |-> targets, detect |-> targets = {}, skipLocal |-> skip, wait |-> patient]

\* What callers pass: no targets, answered by this node first; this node alone, which
\* is answered and waits for more; another node.  A query names the nodes that have a
\* query worker and is not answered before it is sent.
MCOptions ==
  [q1 |-> {Given({}, FALSE, FALSE), Given({"a"}, FALSE, TRUE), Given({"b"}, FALSE, FALSE)},
   q2 |-> {Given({"a", "b"}, TRUE, FALSE)}]
=============================================================================
