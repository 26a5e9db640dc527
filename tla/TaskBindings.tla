---------------------------- MODULE TaskBindings ----------------------------
(***************************************************************************)
(* The task registry while tasks are grouped and made to depend on each    *)
(* other (packages/tasks/src/lib/TaskRef.ts, group and dependsOn), and     *)
(* what the expansion of TaskTree makes of every registry so reached.      *)
(***************************************************************************)
EXTENDS TaskTree, SequencesExt

CONSTANTS
  Rank,        \* [Names -> Nat]: names are only bound to names of higher
               \* rank, so that the bindings stay acyclic (see README)
  MaxBindings  \* bound on the number of bindings made

ASSUME BindingsAssumption ==
  IsFiniteSet(Names) /\ Rank \in [Names -> Nat] /\ MaxBindings \in Nat

VARIABLES
  subs,  \* group bindings: [Names -> Seq(Names)], in registration order
  deps   \* depends-on bindings, by target: the sources each name waits for

bindings == <<subs, deps>>

BindingsInit ==
  /\ subs = [n \in Names |-> <<>>]
  /\ deps = [n \in Names |-> <<>>]

Bindings(b) == FoldLeft(LAMBDA n, name : n + Len(b[name]), 0, SetToSeq(Names))

Bounded == Bindings(subs) + Bindings(deps) < MaxBindings

\* TaskRef.group(src, dest): a binding that exists is not added again.
Group(src, dest) ==
  /\ Bounded
  /\ Rank[src] < Rank[dest]
  /\ ~ Contains(subs[src], dest)
  /\ subs' = [subs EXCEPT ![src] = Append(@, dest)]
  /\ UNCHANGED deps

\* The static TaskRef.dependsOn(src, dest): dependencies() of the target are
\* the sources bound to it.
Bind(src, dest) ==
  /\ Bounded
  /\ Rank[dest] < Rank[src]
  /\ ~ Contains(deps[dest], src)
  /\ deps' = [deps EXCEPT ![dest] = Append(@, src)]
  /\ UNCHANGED subs

\* The method taskRef.dependsOn(dest): the task is the target.
RefDependsOn(n, dest) == Bind(dest, n)

\* Tasks.dependsOn(src, dest), of the registry: dest is the target, the reverse of
\* what its comment says.
TasksDependsOn(src, dest) == Bind(src, dest)

BindingsNext ==
  \E n, m \in Names : Group(n, m) \/ RefDependsOn(n, m) \/ TasksDependsOn(n, m)

BindingsSpec == BindingsInit /\ [][BindingsNext]_bindings
-----------------------------------------------------------------------------
BindingsTypeOK ==
  /\ subs \in [Names -> Seq(Names)]
  /\ deps \in [Names -> Seq(Names)]

Plans == Expansion(subs, deps)

\* The sum of a sequence of numbers.
Total(numbers) ==
  LET sum[k \in 0 .. Len(numbers)] ==
        IF k = 0 THEN 0 ELSE sum[k - 1] + numbers[k]
  IN  sum[Len(numbers)]

\* The number of ways from n to m along the bindings, by recursion over the
\* bindings of n: a definition that builds no tree.
Paths(m) ==
  LET paths[d \in 0 .. Cardinality(Names)] ==
        [n \in Names |->
          IF n = m THEN 1
          ELSE IF d = 0 THEN 0
          ELSE LET kids == subs[n] \o deps[n]
               IN  Total([k \in 1 .. Len(kids) |-> paths[d - 1][kids[k]]])]
  IN  paths[Cardinality(Names)]

\* What TaskRunner's numbering relies on, whatever order the bindings were
\* made in: a run only needs runs created after it, and every run but the
\* root is needed by one created before it, so nothing in the tree is
\* unreachable from its root and no two runs wait for each other.
PlansAreTrees ==
  \A n \in Names :
    LET plan == Plans[n] IN
    /\ plan[1].name = n
    /\ \A i \in DOMAIN plan : plan[i].need \subseteq (i + 1) .. Len(plan)
    /\ \A i \in 2 .. Len(plan) :
         Cardinality({j \in DOMAIN plan : i \in plan[j].need}) = 1

\* Each run waits for one run of every name bound to its own name: no
\* binding is lost when a name occurs more than once in the tree.
NeedsFollowBindings ==
  \A n \in Names : \A i \in DOMAIN Plans[n] :
    LET plan == Plans[n]
        name == plan[i].name
    IN  /\ {plan[j].name : j \in plan[i].need}
             = ToSet(subs[name]) \cup ToSet(deps[name])
        /\ Cardinality(plan[i].need) = Len(subs[name]) + Len(deps[name])

\* A task is run once for every path to it: a dependency shared by two
\* tasks of a runner is executed twice.
OneRunPerPath ==
  \A n, m \in Names :
    Cardinality({i \in DOMAIN Plans[n] : Plans[n][i].name = m}) = Paths(m)[n]
=============================================================================
