------------------------------ MODULE TaskTree ------------------------------
(***************************************************************************)
(* The tree of task runs a TaskRunner builds for a name                    *)
(* (packages/tasks/src/lib/TaskRunner.ts, resolveDeps and createTaskRun).  *)
(* A registry binds to each name the names of its group members (subs) and *)
(* of the tasks it depends on (deps).  createTaskRun appends one run for   *)
(* the name, then, depth first, one subtree per bound name, and notes the  *)
(* root of each subtree among the runs its parent waits for.  The bound    *)
(* names are expanded again wherever they occur: nothing is shared.        *)
(*                                                                         *)
(* A plan is the sequence of runs in creation order (= TaskRun.nr), each   *)
(* with its task name and the set of positions it needs done.              *)
(***************************************************************************)
EXTENDS Naturals, FiniteSets, Sequences

CONSTANT Names  \* the task names of the registry

Entry == [name : Names, need : SUBSET Nat]

\* The shape of a plan: needed runs are created later.
IsPlan(p) ==
  /\ p \in Seq(Entry)
  /\ \A i \in 1 .. Len(p) : p[i].need \subseteq (i + 1) .. Len(p)

\* Variant: the position of the last run instead of the number of runs.
ShiftShort(plan, base) ==
  [i \in DOMAIN plan |-> [plan[i] EXCEPT !.need = {base - 1 + k : k \in @}]]

\* The same subtree, appended to a runner that already holds `base` runs.
Shift(plan, base) ==
  [i \in DOMAIN plan |-> [plan[i] EXCEPT !.need = {base + k : k \in @}]]

\* Variant: one run per name under a parent.
AttachOnce(plan, sub) ==
  IF \E i \in DOMAIN plan : plan[i].name = sub[1].name
  THEN [plan EXCEPT ![1].need = @ \cup {i \in DOMAIN plan : plan[i].name = sub[1].name}]
  ELSE [plan EXCEPT ![1].need = @ \cup {Len(plan) + 1}] \o Shift(sub, Len(plan))

\* resolveDeps with a parent: the subtree goes to the end of $tasks and its
\* root joins the parent's subTaskNrs / dependencyTaskNrs.
Attach(plan, sub) ==
  [plan EXCEPT ![1].need = @ \cup {Len(plan) + 1}] \o Shift(sub, Len(plan))

\* createTaskRun of a name, once the subtrees of the names bound to it are
\* known: its own run, and one subtree after the other.
Grown(n, subtrees) ==
  LET plan[k \in 0 .. Len(subtrees)] ==
        IF k = 0 THEN << [name |-> n, need |-> {}] >>
        ELSE Attach(plan[k - 1], subtrees[k])
  IN  plan[Len(subtrees)]

\* createTaskRun for every name.  The depth is cut at the number of names,
\* which an acyclic registry never exceeds (a cyclic one has no tree: the
\* code recurses without end).
Expansion(subs, deps) ==
  LET create[d \in 0 .. Cardinality(Names)] ==
        IF d = 0 THEN [n \in Names |-> <<>>]
        ELSE [n \in Names |->
               LET kids == subs[n] \o deps[n]
               IN  Grown(n, [k \in 1 .. Len(kids) |-> create[d - 1][kids[k]]])]
  IN  create[Cardinality(Names)]

\* The runs of a plan behind those that are there.
AndThen(all, plan) == all \o Shift(plan, Len(all))

\* resolveDeps without a parent: the runs the constructor creates for the
\* names it was given.
Forest(plans, spec) ==
  LET all[k \in 0 .. Len(spec)] ==
        IF k = 0 THEN <<>> ELSE AndThen(all[k - 1], plans[spec[k]])
  IN  all[Len(spec)]
=============================================================================
