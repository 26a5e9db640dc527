------------------------------- MODULE Gather -------------------------------
(***************************************************************************)
(* What sending a request to many nodes promises: a question is opened for *)
(* some nodes, each of them answers or passes once, and the question is    *)
(* closed once, either because every node asked has done so or because the *)
(* asker gave up.  The answers of a closed question do not change.         *)
(***************************************************************************)
CONSTANTS Questions, Nodes

VARIABLES
  asked,    \* the nodes a question is for
  pending,  \* those of them that are still waited for
  answers,  \* the nodes whose answer counts
  status    \* "new", "open", "complete", "partial"

vars == <<asked, pending, answers, status>>

Init ==
  /\ asked = [q \in Questions |-> {}]
  /\ pending = [q \in Questions |-> {}]
  /\ answers = [q \in Questions |-> {}]
  /\ status = [q \in Questions |-> "new"]

\* Goes on, or is complete when nobody is left to be waited for.
Proceeds(q) ==
  \/ status' = [status EXCEPT ![q] = "open"]
  \/ pending'[q] = {} /\ status' = [status EXCEPT ![q] = "complete"]

Open(q, nodes) ==
  /\ status[q] = "new"
  /\ asked' = [asked EXCEPT ![q] = nodes]
  /\ pending' = [pending EXCEPT ![q] = nodes]
  /\ Proceeds(q)
  /\ UNCHANGED answers

\* A node that is waited for, or the asker itself, which need not be asked.
Answer(q, n) ==
  /\ status[q] = "open"
  /\ n \in pending[q] \/ n \notin asked[q] \cup answers[q]
  /\ pending' = [pending EXCEPT ![q] = @ \ {n}]
  /\ answers' = [answers EXCEPT ![q] = @ \cup {n}]
  /\ Proceeds(q)
  /\ UNCHANGED asked

\* A node that is waited for has nothing to say: its answer does not count.
Pass(q, n) ==
  /\ status[q] = "open" /\ n \in pending[q]
  /\ pending' = [pending EXCEPT ![q] = @ \ {n}]
  /\ Proceeds(q)
  /\ UNCHANGED <<asked, answers>>

GiveUp(q) ==
  /\ status[q] = "open"
  /\ status' = [status EXCEPT ![q] = "partial"]
  /\ pending' = [pending EXCEPT ![q] = {}]
  /\ UNCHANGED <<asked, answers>>

Next ==
  \E q \in Questions :
    \/ \E nodes \in SUBSET Nodes : Open(q, nodes)
    \/ \E n \in Nodes : Answer(q, n) \/ Pass(q, n)
    \/ GiveUp(q)

Spec == Init /\ [][Next]_vars
=============================================================================
