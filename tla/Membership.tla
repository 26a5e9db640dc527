----------------------------- MODULE Membership -----------------------------
(***************************************************************************)
(* What a system of nodes promises about who is in it.                     *)
(*                                                                         *)
(* A member is new, in, out (it has said that it leaves) or down (it       *)
(* failed and said nothing).  Every member keeps a view of the others: it  *)
(* learns of those that have come in, and forgets nobody who is still in.  *)
(***************************************************************************)
EXTENDS FiniteSets

CONSTANT Members

VARIABLES
  life,  \* per member: new, in, out or down
  view   \* per member, those it knows

vars == <<life, view>>

Init ==
  /\ life = [i \in Members |-> "new"]
  /\ view = [i \in Members |-> {}]

Become(i, from, to) ==
  /\ life[i] \in from
  /\ life' = [life EXCEPT ![i] = to]

Join(i) == Become(i, {"new"}, "in") /\ UNCHANGED view
Leave(i) == Become(i, {"in"}, "out") /\ UNCHANGED view

\* What a member knew ends with it.
Fail(i) == Become(i, {"new", "in", "out"}, "down") /\ view' = [view EXCEPT ![i] = {}]
End(i) == Become(i, {"out"}, "out") /\ view' = [view EXCEPT ![i] = {}]

Learn(i, j) ==
  /\ j # i /\ life[j] # "new"
  /\ view' = [view EXCEPT ![i] = @ \cup {j}]
  /\ UNCHANGED life

Forget(i, others) ==
  /\ \A j \in others : life[j] \in {"out", "down"}
  /\ view' = [view EXCEPT ![i] = @ \ others]
  /\ UNCHANGED life

Next ==
  \E i \in Members :
     \/ Join(i) \/ Leave(i) \/ Fail(i) \/ End(i)
     \/ \E j \in Members : Learn(i, j)
     \/ \E others \in SUBSET view[i] : Forget(i, others)

Spec == Init /\ [][Next]_vars
=============================================================================
