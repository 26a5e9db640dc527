---------------------------- MODULE TaskSchedule ----------------------------
(***************************************************************************)
(* What a TaskRunner promises, without its lists, handlers and exceptions: *)
(* jobs are executed at most once, after the jobs they need, on a limited  *)
(* number of slots; jobs can be appended at any time; and the whole is     *)
(* settled when every job has ended.                                       *)
(***************************************************************************)
EXTENDS Naturals, FiniteSets

CONSTANT Slots

VARIABLES
  needs,   \* for each job the jobs it needs, a function on 1 .. n
  active,  \* jobs that hold a slot
  ended,   \* jobs that have been executed
  settled  \* whether the caller has been told

vars == <<needs, active, ended, settled>>

Jobs == DOMAIN needs

\* Jobs are numbered, and need jobs of higher number only.
Acyclic(g) == \A i \in DOMAIN g : \A j \in g[i] : j \in DOMAIN g /\ i < j

Init ==
  /\ Acyclic(needs)
  /\ active = {}
  /\ ended = {}
  /\ settled = FALSE

Begin(j) ==
  /\ ~ settled
  /\ j \in Jobs \ (active \cup ended)
  /\ needs[j] \subseteq ended
  /\ Cardinality(active) < Slots
  /\ active' = active \cup {j}
  /\ UNCHANGED <<needs, ended, settled>>

End(j) ==
  /\ j \in active
  /\ active' = active \ {j}
  /\ ended' = ended \cup {j}
  /\ UNCHANGED <<needs, settled>>

\* New jobs do not change what the old ones need.
Append ==
  /\ Jobs \subseteq DOMAIN needs'
  /\ \A i \in Jobs : needs'[i] = needs[i]
  /\ Acyclic(needs')
  /\ UNCHANGED <<active, ended, settled>>

Settle ==
  /\ ~ settled
  /\ ended = Jobs
  /\ active = {}
  /\ settled' = TRUE
  /\ UNCHANGED <<needs, active, ended>>

Next == Append \/ Settle \/ \E j \in Jobs : Begin(j) \/ End(j)

Spec == Init /\ [][Next]_vars
=============================================================================
