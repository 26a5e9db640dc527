--------------------------- MODULE RunnerRegistry ---------------------------
(***************************************************************************)
(* What a node knows of the runs in the system                             *)
(* (packages/tasks/src/lib/TaskRunnerRegistry.ts), told by the events of   *)
(* the runners (TaskRunner.fireStateEvent) and by the nodes that come and  *)
(* go (TasksSystemExtension, behind System.onNodeInfo).                    *)
(*                                                                         *)
(* The registry is that of one node, Here, which may run tasks itself.     *)
(* The bus is external: what a node posts arrives in order.  A run event   *)
(* is handled at once; a node message waits for the semaphore of System.   *)
(* The CacheArray of the statuses is external: what is written to it or    *)
(* removed takes effect some time later, in any order, for nobody waits.   *)
(***************************************************************************)
EXTENDS Integers, Sequences, FiniteSets

CONSTANTS
  Nodes,     \* the nodes that run tasks
  Here,      \* the node of the registry
  Runs,      \* run ids
  Targets,   \* per run, the nodes that it is run on
  MaxSteps,  \* bound: events of a run at a node between its first and its last
  MaxStarts, \* bound: starts of a node
  MaxWrites  \* bound: equal writes of the status of a run under way

NoNode == "none"

ASSUME RegistryAssumption ==
  /\ NoNode \notin Nodes
  /\ Here \in Nodes
  /\ Targets \in [Runs -> SUBSET Nodes]
  /\ MaxSteps \in Nat /\ MaxStarts \in Nat \ {0} /\ MaxWrites \in Nat \ {0}

VARIABLES
  up,       \* per node: "up", "leaving" (unregistered, still working) or "down"
  starts,   \* per node, how often it has started
  run,      \* per node and run, where the run is
  steps,    \* per node and run, the events since the first
  wire,     \* per node, what it has posted and Here has not received
  waiting,  \* the node messages that wait for the semaphore
  status,   \* systemwideTaskStatus: per run, the node of an event of it, or NoNode
  writes,   \* per run and value of its status, the writes begun and not yet done
  crossed,  \* history: the runs of which something was begun while a write was under way
  names,    \* the keys of taskNames
  local,    \* localTaskRunner
  doomed    \* the runs an onNodeUpdate has found and will remove

nodeVars == <<up, starts, run, steps>>
cached == <<status, writes, crossed>>
registryVars == <<cached, names, local, doomed>>
Values == Nodes \cup {NoNode}

vars == <<nodeVars, wire, waiting, registryVars>>

Init ==
  /\ up = [n \in Nodes |-> "up"]
  /\ starts = [n \in Nodes |-> 1]
  /\ run = [n \in Nodes |-> [r \in Runs |-> "none"]]
  /\ steps = [n \in Nodes |-> [r \in Runs |-> 0]]
  /\ wire = [n \in Nodes |-> <<>>]
  /\ waiting = <<>>
  /\ status = [r \in Runs |-> NoNode]
  /\ writes = [r \in Runs |-> [v \in Values |-> 0]]
  /\ crossed = {}
  /\ names = {} /\ local = {} /\ doomed = {}

Active == {"started", "running"}
Places == Active \cup {"none", "stopped", "hung", "lost", "gone"}

RunEvents == [id : Runs, state : {"started", "running", "stopped"}]
NodeMessages == [node : Nodes, state : {"register", "unregister"}]

RunEvent(r, state) == [id |-> r, state |-> state]
NodeMessage(n, state) == [node |-> n, state |-> state]

Post(n, message) == wire' = [wire EXCEPT ![n] = Append(@, message)]
Becomes(n, r, state) == run' = [run EXCEPT ![n][r] = state]

-----------------------------------------------------------------------------
\* The runners

\* The constructor posts the first event; createNewRunner(), or for a local run the
\* constructor itself, enters the runner where it runs.
Begin(n, r) ==
  /\ up[n] = "up" /\ n \in Targets[r] /\ run[n][r] = "none"
  /\ Becomes(n, r, "started")
  /\ Post(n, RunEvent(r, "started"))
  /\ IF n = Here THEN local' = local \cup {r} /\ names' = names \cup {r}
                 ELSE UNCHANGED <<local, names>>
  /\ UNCHANGED <<up, starts, steps, waiting, cached, doomed>>

\* A task begins or ends.
Step(n, r) ==
  /\ up[n] # "down" /\ run[n][r] \in Active /\ steps[n][r] < MaxSteps
  /\ Becomes(n, r, "running")
  /\ steps' = [steps EXCEPT ![n][r] = @ + 1]
  /\ Post(n, RunEvent(r, "running"))
  /\ UNCHANGED <<up, starts, waiting, registryVars>>

\* finish(): the last event, then the promise, upon which the runner is removed
\* where it runs.
Finish(n, r) ==
  /\ up[n] # "down" /\ run[n][r] \in Active
  /\ Becomes(n, r, "stopped")
  /\ Post(n, RunEvent(r, "stopped"))
  /\ IF n = Here THEN local' = local \ {r} /\ names' = names \ {r}
                 ELSE UNCHANGED <<local, names>>
  /\ UNCHANGED <<up, starts, steps, waiting, cached, doomed>>

\* The runner hangs, with a missing parameter (runner_missing_parameter.cfg) or in a
\* task that never calls done: there is no event of that.
Hang(n, r) ==
  /\ up[n] # "down" /\ run[n][r] \in Active
  /\ Becomes(n, r, "hung")
  /\ UNCHANGED <<up, starts, steps, wire, waiting, registryVars>>

-----------------------------------------------------------------------------
\* The other nodes

\* A node leaves while its runs go on.
Leave(n) ==
  /\ n # Here /\ up[n] = "up"
  /\ up' = [up EXCEPT ![n] = "leaving"]
  /\ Post(n, NodeMessage(n, "unregister"))
  /\ UNCHANGED <<starts, run, steps, waiting, registryVars>>

\* The process ends, by itself or by a crash; its runs are lost.
End(n) ==
  /\ n # Here /\ up[n] # "down"
  /\ up' = [up EXCEPT ![n] = "down"]
  /\ run' = [run EXCEPT ![n] =
               [r \in Runs |-> IF @[r] \in Active \cup {"hung"} THEN "lost" ELSE @[r]]]
  /\ UNCHANGED <<starts, steps, wire, waiting, registryVars>>

\* Variant: nothing is said of it.
RestartQuietly(n) ==
  /\ up[n] = "down" /\ starts[n] < MaxStarts
  /\ up' = [up EXCEPT ![n] = "up"]
  /\ starts' = [starts EXCEPT ![n] = @ + 1]
  /\ run' = [run EXCEPT ![n] = [r \in Runs |-> IF @[r] = "lost" THEN "gone" ELSE @[r]]]
  /\ UNCHANGED <<steps, wire, waiting, registryVars>>

\* The node is there again and knows nothing of the runs it had.
Restart(n) ==
  /\ up[n] = "down" /\ starts[n] < MaxStarts
  /\ up' = [up EXCEPT ![n] = "up"]
  /\ starts' = [starts EXCEPT ![n] = @ + 1]
  /\ run' = [run EXCEPT ![n] = [r \in Runs |-> IF @[r] = "lost" THEN "gone" ELSE @[r]]]
  /\ Post(n, NodeMessage(n, "register"))
  /\ UNCHANGED <<steps, waiting, registryVars>>

-----------------------------------------------------------------------------
\* The registry

Pending(r, v) == writes[r][v] > 0

\* The statuses of some runs are to be set to v.
Write(runs, v) ==
  /\ \A r \in runs : writes[r][v] < MaxWrites
  /\ writes' = [r \in Runs |-> [w \in Values |->
                  IF r \in runs /\ w = v THEN writes[r][w] + 1 ELSE writes[r][w]]]
  /\ crossed' = crossed \cup {r \in runs : \E w \in Values \ {v} : Pending(r, w)}
  /\ UNCHANGED status

\* A write has its effect.
Written(r, v) ==
  /\ Pending(r, v)
  /\ status' = [status EXCEPT ![r] = v]
  /\ writes' = [writes EXCEPT ![r][v] = @ - 1]
  /\ UNCHANGED <<nodeVars, wire, waiting, crossed, names, local, doomed>>

\* addTaskStatus().
AddTaskStatus(r, n) == Write({r}, n) /\ names' = names \cup {r}

\* Variant: the names stay.
RemoveStatusOnly(runs) == Write(runs, NoNode) /\ UNCHANGED names

\* removeTaskStatus() of some runs.
RemoveTaskStatus(runs) == Write(runs, NoNode) /\ names' = names \ runs

\* A message of n arrives.  onTaskRunnerEvent() is done at once.
Receive(n) ==
  /\ wire[n] # <<>>
  /\ wire' = [wire EXCEPT ![n] = Tail(@)]
  /\ LET m == Head(wire[n]) IN
       \/ /\ m \in NodeMessages
          /\ waiting' = Append(waiting, m)
          /\ UNCHANGED <<cached, names>>
       \/ /\ m \in RunEvents /\ m.state = "stopped"
          /\ RemoveTaskStatus({m.id})
          /\ UNCHANGED waiting
       \/ /\ m \in RunEvents /\ m.state # "stopped"
          /\ AddTaskStatus(m.id, n)
          /\ UNCHANGED waiting
  /\ UNCHANGED <<nodeVars, local, doomed>>

\* Variant: a node that comes has nothing to remove.
Concerned(state) == state = "unregister"

\* The states that onNodeUpdate() is about.
Concerns(state) == state \in {"register", "unregister"}

\* onNodeUpdate() looks for the runs of the node; one that is being entered is not
\* found.  Nobody waits for it to end.
OnNodeUpdate ==
  /\ waiting # <<>>
  /\ LET m == Head(waiting) IN
       /\ doomed' = IF Concerns(m.state)
                    THEN doomed \cup {r \in Runs : status[r] = m.node} ELSE doomed
       /\ crossed' = crossed \cup {r \in Runs : Pending(r, m.node)}
  /\ waiting' = Tail(waiting)
  /\ UNCHANGED <<nodeVars, wire, status, writes, names, local>>

\* onNodeUpdate() removes what it has found.
RemoveFound ==
  /\ doomed # {}
  /\ RemoveTaskStatus(doomed)
  /\ doomed' = {}
  /\ UNCHANGED <<nodeVars, wire, waiting, local>>

\* cleanup(): a run that has told nothing for four hours, which may be any.
Cleanup(r) ==
  /\ r \in names
  /\ RemoveTaskStatus({r})
  /\ UNCHANGED <<nodeVars, wire, waiting, local, doomed>>

Next ==
  \/ \E n \in Nodes, r \in Runs : Begin(n, r) \/ Step(n, r) \/ Finish(n, r) \/ Hang(n, r)
  \/ \E n \in Nodes : Leave(n) \/ End(n) \/ Restart(n) \/ Receive(n)
  \/ OnNodeUpdate \/ RemoveFound
  \/ \E r \in Runs : Cleanup(r) \/ \E v \in Values : Written(r, v)

Spec == Init /\ [][Next]_vars

-----------------------------------------------------------------------------
\* Correctness

TypeInvariant ==
  /\ up \in [Nodes -> {"up", "leaving", "down"}]
  /\ starts \in [Nodes -> 1..MaxStarts]
  /\ run \in [Nodes -> [Runs -> Places]]
  /\ steps \in [Nodes -> [Runs -> 0..MaxSteps]]
  /\ wire \in [Nodes -> Seq(RunEvents \cup NodeMessages)]
  /\ waiting \in Seq(NodeMessages)
  /\ status \in [Runs -> Values]
  /\ writes \in [Runs -> [Values -> Nat]]
  /\ crossed \subseteq Runs
  /\ names \subseteq Runs /\ local \subseteq Runs /\ doomed \subseteq Runs

Listed == {r \in Runs : status[r] # NoNode}

\* Everything posted has been dealt with, and everything written is there.
Quiet ==
  /\ waiting = <<>> /\ doomed = {}
  /\ \A n \in Nodes : wire[n] = <<>>
  /\ \A r \in Runs, v \in Values : ~Pending(r, v)

\* A run that is listed once all is dealt with is still running somewhere, or
\* hangs, or was lost with its node: the registry drops the runs of a node that
\* comes back (onNodeUpdate), in whatever order their last events and the news of
\* the node are handled.  A run may be listed for good, or have its name counted, only
\* if it was removed or looked for while a write of its status was under way.
NoPhantoms ==
  Quiet => \A r \in (Listed \cup names) \ crossed :
             \E n \in Targets[r] : run[n][r] \in Active \cup {"hung", "lost"}

\* The names that getGlobalTaskCounts() counts for the limit executionConcurrency
\* are those of the runs that getRunningTasks() lists, although they change at
\* once and the statuses later, and a local runner enters and removes its name on
\* its own.  But for those of which writes crossed.
CountsAgree == Quiet => names \ crossed = Listed \ crossed

-----------------------------------------------------------------------------
\* The abstract specification

\* The messages that are on their way or wait.
OnWire == UNION {{wire[n][k] : k \in DOMAIN wire[n]} : n \in Nodes}
Waiting == {waiting[k] : k \in DOMAIN waiting}

Going == {r \in Runs : \E n \in Targets[r] : run[n][r] \in Active \cup {"hung", "lost"}}
Told ==
  {m.id : m \in OnWire \cap RunEvents} \cup {r \in Runs : \E n \in Nodes : Pending(r, n)}
Moved ==
  {r \in Runs : \/ r \in doomed \/ Pending(r, NoNode)
               \/ \E m \in (OnWire \cap NodeMessages) \cup Waiting : m.node \in Targets[r]}

List == INSTANCE Listing WITH
          Jobs <- Runs, going <- Going, reported <- Told, moved <- Moved, mixed <- crossed,
          listed <- Listed

\* A run is entered in systemwideTaskStatus only upon an event of it, and one that is listed
\* goes on, or an event of it, a removal or news of its nodes is under way, or was when a
\* write of it was: whatever else happens in the system, a run that is over and of which
\* all has been heard and written in turn is not listed again.
ImplementsListing == List!Spec
=============================================================================
