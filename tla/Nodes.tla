-------------------------------- MODULE Nodes --------------------------------
(***************************************************************************)
(* The instances of a system and what they know of each other              *)
(* (packages/base/src/libs/system/System.ts, entities/SystemNodeInfo.ts;   *)
(* packages/tasks/src/extend/TasksSystemExtension.ts for the node ids that *)
(* a task is offered by).                                                  *)
(*                                                                         *)
(* An instance is one process from its start to its end; a restart is      *)
(* another instance with the same key.  Each starts with a record of its   *)
(* own in a common database, tells the others, and answers to what they    *)
(* tell, one message at a time: the handler holds a semaphore over its     *)
(* awaits.  The bus is external: it brings a message to every subscriber,  *)
(* in the order of posting.  The database is external: single calls are    *)
(* atomic, find and save are two of them only where that shows.            *)
(***************************************************************************)
EXTENDS Integers, Sequences, FiniteSets, FiniteSetsExt

CONSTANTS
  Instances,    \* processes
  HostOf,       \* the host of each
  NodeOf,       \* the node id of each
  Alone,        \* those that may run with the distribution disabled
  Fragile,      \* those that may end without a word: by a crash, or asked to before Subscribe
  Hasty,        \* those that may be shut down while they register
  Overlapping   \* whether an instance may start while another of its node is idle

ASSUME NodesAssumption ==
  /\ DOMAIN HostOf = Instances /\ DOMAIN NodeOf = Instances
  /\ Alone \subseteq Instances /\ Fragile \subseteq Instances /\ Hasty \subseteq Instances
  /\ Overlapping \in BOOLEAN

VARIABLES
  phase,      \* per instance, where Startup has brought it
  late,       \* per instance, what of register() is still to come, or came, in its shutdown
  nr,         \* per instance, its instance number instNr
  nodes,      \* per instance, the others it knows
  taskNodes,  \* per instance, the node ids its task references name
  inbox,      \* per instance, the messages delivered and not yet handled
  handling,   \* per instance, what the handler holding the semaphore is at
  db          \* per key, the record in the database

vars == <<phase, late, nr, nodes, taskNodes, inbox, handling, db>>

\* The primary key.  initialize() computes it before the number is raised, so
\* that it has the number 0 for every instance.
Key(i) == <<HostOf[i], NodeOf[i]>>

Keys == {Key(i) : i \in Instances}

\* eqNode.
EqNode(i, j) == NodeOf[i] = NodeOf[j] /\ nr[i] = nr[j]

Live(i) == phase[i] \notin {"off", "offline", "exited", "crashed"}

Phases == {"off", "startup", "subscribed", "announced", "idle", "leaving", "left", "alone",
           "offline", "exited", "crashed"}

Lateness == {"nothing", "announce", "idle", "idled"}

\* What instances tell each other.
Messages == [node : Instances, state : {"register", "idle", "unregister"}]

\* Registered at the bus.
Subscribed(i) == phase[i] \in {"subscribed", "announced", "idle", "leaving"}

\* Variant: who has left is idle again.
IdleAtLast(i) ==
  CASE phase[i] \in {"off", "startup"} -> "startup"
    [] phase[i] \in {"subscribed", "announced"} -> "register"
    [] phase[i] = "leaving" /\ late[i] # "idled" -> "unregister"
    [] OTHER -> "idle"

\* this.node.state.
State(i) ==
  CASE phase[i] \in {"off", "startup"} -> "startup"
    [] phase[i] \in {"subscribed", "announced"} -> "register"
    [] phase[i] \in {"idle", "alone"} -> "idle"
    [] phase[i] = "offline" -> "offline"
    [] OTHER -> IF late[i] = "idled" THEN "idle" ELSE "unregister"

NoRecord == [nr |-> 0, state |-> "none"]
Record(i, state) == [nr |-> nr[i], state |-> state]

Nothing == [doing |-> "nothing"]
Adding(m) == [doing |-> "adding", node |-> m.node, state |-> m.state]
Removing(known) == [doing |-> "removing", known |-> known]

Init ==
  /\ phase = [i \in Instances |-> "off"]
  /\ late = [i \in Instances |-> "nothing"]
  /\ nr = [i \in Instances |-> 0]
  /\ nodes = [i \in Instances |-> {}]
  /\ taskNodes = [i \in Instances |-> {}]
  /\ inbox = [i \in Instances |-> <<>>]
  /\ handling = [i \in Instances |-> Nothing]
  /\ db = [k \in Keys |-> NoRecord]

GoTo(i, to) == phase' = [phase EXCEPT ![i] = to]

-----------------------------------------------------------------------------
\* Start and end of an instance

\* The numbers on record for the node of i.
NumbersTaken(i) ==
  {db[k].nr : k \in {l \in Keys : l[2] = NodeOf[i]
                                    /\ db[l].state \notin {"none", "unregister", "offline", "startup"}}}

\* initialize().
Start(i) ==
  /\ phase[i] = "off"
  /\ \A j \in Instances : NodeOf[j] = NodeOf[i] /\ Live(j) => Overlapping /\ phase[j] = "idle"
  /\ GoTo(i, "startup")
  /\ nr' = [nr EXCEPT ![i] = IF NumbersTaken(i) = {} THEN 0 ELSE Max(NumbersTaken(i)) + 1]
  /\ UNCHANGED <<late, nodes, taskNodes, inbox, handling, db>>

\* register() up to the subscription.
Subscribe(i) ==
  /\ phase[i] = "startup"
  /\ GoTo(i, "subscribed")
  /\ UNCHANGED <<late, nr, nodes, taskNodes, inbox, handling, db>>

\* Variant: a message overtakes those that wait.
PostedFirst(i, state, boxes) ==
  [j \in Instances |->
     IF Subscribed(j) /\ ~EqNode(i, j)
     THEN <<[node |-> i, state |-> state]>> \o boxes[j] ELSE boxes[j]]

\* The inboxes after i has posted its node in the given state.  An instance
\* ignores what eqNode takes for its own.
Posted(i, state, boxes) ==
  [j \in Instances |->
     IF Subscribed(j) /\ ~EqNode(i, j)
     THEN Append(boxes[j], [node |-> i, state |-> state]) ELSE boxes[j]]

\* register(): the node is posted.
Announce(i) ==
  /\ phase[i] = "subscribed"
  /\ GoTo(i, "announced")
  /\ inbox' = Posted(i, "register", inbox)
  /\ UNCHANGED <<late, nr, nodes, taskNodes, handling, db>>

\* idle(), after register() or, without distribution, at once.
Idle(i) ==
  /\ \/ phase[i] = "announced" /\ GoTo(i, "idle")
     \/ phase[i] = "startup" /\ i \in Alone /\ GoTo(i, "alone")
  /\ db' = [db EXCEPT ![Key(i)] = Record(i, "idle")]
  /\ UNCHANGED <<late, nr, nodes, taskNodes, inbox, handling>>

\* unregister() up to the removal of the records of the leaving, whoever they
\* are of.  The shutdown does not wait for register(): what is left of it comes late.
Unregister(i) ==
  /\ phase[i] = "idle" \/ (phase[i] \in {"subscribed", "announced"} /\ i \in Hasty)
  /\ GoTo(i, "leaving")
  /\ late' = [late EXCEPT ![i] = CASE phase[i] = "subscribed" -> "announce"
                                   [] phase[i] = "announced" -> "idle"
                                   [] OTHER -> "nothing"]
  /\ db' = [k \in Keys |-> IF k = Key(i) \/ db[k].state \in {"unregister", "offline"}
                           THEN NoRecord ELSE db[k]]
  /\ UNCHANGED <<nr, nodes, taskNodes, inbox, handling>>

\* unregister(): off the bus, then the last word.  What waits for the semaphore is
\* still handled, until the process ends.
Depart(i) ==
  /\ phase[i] = "leaving"
  /\ GoTo(i, "left")
  /\ inbox' = Posted(i, State(i), inbox)
  /\ UNCHANGED <<late, nr, nodes, taskNodes, handling, db>>

\* register(): the node is posted when it is leaving already.
LateAnnounce(i) ==
  /\ phase[i] \in {"leaving", "left"} /\ late[i] = "announce"
  /\ late' = [late EXCEPT ![i] = "idle"]
  /\ inbox' = Posted(i, State(i), inbox)
  /\ UNCHANGED <<phase, nr, nodes, taskNodes, handling, db>>

\* idle() when the node is leaving already: its state is overwritten.
LateIdle(i) ==
  /\ phase[i] \in {"leaving", "left"} /\ late[i] = "idle"
  /\ late' = [late EXCEPT ![i] = "idled"]
  /\ db' = [db EXCEPT ![Key(i)] = Record(i, "idle")]
  /\ UNCHANGED <<phase, nr, nodes, taskNodes, inbox, handling>>

\* offline(), without distribution; nothing the process still does is seen here.
Offline(i) ==
  /\ phase[i] = "alone"
  /\ GoTo(i, "offline")
  /\ db' = [db EXCEPT ![Key(i)] = Record(i, "offline")]
  /\ UNCHANGED <<late, nr, nodes, taskNodes, inbox, handling>>

\* The process ends, whatever it is at.
End(i, as) ==
  /\ GoTo(i, as)
  /\ inbox' = [inbox EXCEPT ![i] = <<>>]
  /\ handling' = [handling EXCEPT ![i] = Nothing]
  /\ nodes' = [nodes EXCEPT ![i] = {}]
  /\ taskNodes' = [taskNodes EXCEPT ![i] = {}]
  /\ late' = [late EXCEPT ![i] = IF @ = "idled" THEN @ ELSE "nothing"]
  /\ UNCHANGED <<nr, db>>

Exit(i) == phase[i] = "left" /\ End(i, "exited")

Crash(i) == i \in Fragile /\ Live(i) /\ End(i, "crashed")

-----------------------------------------------------------------------------
\* onNodeInfo

Ready(i) == inbox[i] # <<>> /\ handling[i] = Nothing
Message(i) == Head(inbox[i])
Same(i, j) == {k \in nodes[i] : EqNode(k, j)}
Known(i, j) == Same(i, j) # {}

\* The inboxes after i has taken its message.
Taken(i) == [inbox EXCEPT ![i] = Tail(@)]

\* Variant: an idle node is never met.
OnlyRegister(i, m) == m.state = "register"

\* Variant: a known idle node is answered, too.
AlsoKnown(i, m) == m.state \in {"register", "idle"}

\* A node that registers, or is idle and unknown, is met.
Introduces(i, m) == m.state = "register" \/ (m.state = "idle" /\ ~Known(i, m.node))

\* The new node is listed and answered with this one, in its state of now.
Meet(i) ==
  LET m == Message(i) IN
  /\ Ready(i) /\ Introduces(i, m)
  /\ nodes' = [nodes EXCEPT ![i] = IF Known(i, m.node) THEN @ ELSE @ \cup {m.node}]
  /\ inbox' = Posted(i, State(i), Taken(i))
  /\ handling' = [handling EXCEPT ![i] = Adding(m)]
  /\ UNCHANGED <<phase, late, nr, taskNodes, db>>

\* After onNodeRegister: the tasks of the node are known, its record is saved as
\* the message gave it.
Met(i) ==
  /\ handling[i].doing = "adding"
  /\ LET j == handling[i].node IN
       /\ taskNodes' = [taskNodes EXCEPT ![i] = @ \cup {NodeOf[j]}]
       /\ db' = [db EXCEPT ![Key(j)] = Record(j, handling[i].state)]
  /\ handling' = [handling EXCEPT ![i] = Nothing]
  /\ UNCHANGED <<phase, late, nr, nodes, inbox>>

\* Variant: the tasks keep the node id.
PartFromList(i) ==
  LET m == Message(i) IN
  /\ Ready(i) /\ m.state = "unregister"
  /\ nodes' = [nodes EXCEPT ![i] = @ \ Same(i, m.node)]
  /\ inbox' = Taken(i)
  /\ handling' = [handling EXCEPT ![i] =
                    IF Known(i, m.node) THEN Removing(Same(i, m.node)) ELSE Nothing]
  /\ UNCHANGED <<phase, late, nr, taskNodes, db>>

\* A node that leaves is taken from the list and, in onNodeUnregister, from the
\* tasks, by its node id alone.
Part(i) ==
  LET m == Message(i) IN
  /\ Ready(i) /\ m.state = "unregister"
  /\ nodes' = [nodes EXCEPT ![i] = @ \ Same(i, m.node)]
  /\ taskNodes' = [taskNodes EXCEPT ![i] = @ \ {NodeOf[m.node]}]
  /\ inbox' = Taken(i)
  /\ handling' = [handling EXCEPT ![i] =
                    IF Known(i, m.node) THEN Removing(Same(i, m.node)) ELSE Nothing]
  /\ UNCHANGED <<phase, late, nr, db>>

\* The records of what was listed are removed.
Parted(i) ==
  /\ handling[i].doing = "removing"
  /\ db' = [k \in Keys |-> IF k \in {Key(j) : j \in handling[i].known} THEN NoRecord ELSE db[k]]
  /\ handling' = [handling EXCEPT ![i] = Nothing]
  /\ UNCHANGED <<phase, late, nr, nodes, taskNodes, inbox>>

\* Anything else changes nothing.
Ignore(i) ==
  /\ Ready(i) /\ ~Introduces(i, Message(i)) /\ Message(i).state # "unregister"
  /\ inbox' = Taken(i)
  /\ UNCHANGED <<phase, late, nr, nodes, taskNodes, handling, db>>

Handle(i) == Meet(i) \/ Met(i) \/ Part(i) \/ Parted(i) \/ Ignore(i)

Startup(i) == Start(i) \/ Subscribe(i) \/ Announce(i) \/ Idle(i)
Shutdown(i) == Depart(i) \/ LateAnnounce(i) \/ LateIdle(i) \/ Exit(i)

Next ==
  \E i \in Instances :
     Startup(i) \/ Unregister(i) \/ Offline(i) \/ Shutdown(i) \/ Crash(i) \/ Handle(i)

Spec == Init /\ [][Next]_vars

\* What has been begun goes on: the start once begun, the shutdown once asked
\* for, the handlers.  Nobody has to start or to leave.
Fairness ==
  \A i \in Instances :
     /\ WF_vars(Subscribe(i) \/ Announce(i) \/ Idle(i) \/ Shutdown(i))
     /\ WF_vars(Handle(i))

FairSpec == Spec /\ Fairness

-----------------------------------------------------------------------------
\* Correctness

TypeInvariant ==
  /\ phase \in [Instances -> Phases]
  /\ late \in [Instances -> Lateness]
  /\ nr \in [Instances -> Nat]
  /\ nodes \in [Instances -> SUBSET Instances]
  /\ taskNodes \in [Instances -> SUBSET {NodeOf[i] : i \in Instances}]
  /\ inbox \in [Instances -> Seq(Messages)]
  /\ handling \in [Instances -> {Nothing} \cup {Removing(known) : known \in SUBSET Instances}
       \cup [doing : {"adding"}, node : Instances, state : {"register", "idle"}]]
  /\ db \in [Keys -> [nr : Nat, state : {"none", "register", "idle", "offline"}]]

\* No message is under way or handled, and nobody is starting or leaving.
Quiet ==
  \A i \in Instances :
     /\ inbox[i] = <<>> /\ handling[i] = Nothing
     /\ phase[i] \notin {"subscribed", "announced", "leaving", "left"}

Idling == {i \in Instances : phase[i] = "idle"}

\* When the system has come to rest, all instances that are idle know each other,
\* although a newcomer is told of those before it only by their answers to its
\* announcement (onNodeInfo), in the state these happen to be in.
KnowEachOther == Quiet => \A i, j \in Idling : i # j => Known(i, j)

\* Has left as idle: idle() came after its unregister().
LeftIdle(j) == late[j] = "idled"

\* When the system has come to rest, nobody keeps an instance that has left in
\* its list, however its messages crossed (one that crashed stays in it: nobody
\* tells; one whose idle() came after its unregister() may, and no other).
NoGhosts ==
  Quiet => \A i \in Idling : \A j \in nodes[i] : phase[j] \in {"idle", "crashed"} \/ LeftIdle(j)

\* When the system has come to rest, the tasks name every other node as one to be
\* executed on, and no node that has left, but for those that NoGhosts excepts: the
\* hooks of TasksSystemExtension add and remove node ids while restarts of a node
\* come and go.
TaskNodesFollow ==
  Quiet => \A i \in Idling :
     /\ \A j \in Idling \ {i} : NodeOf[j] \in taskNodes[i]
     /\ \A n \in taskNodes[i] : \E j \in Instances :
           NodeOf[j] = n /\ (phase[j] \in {"idle", "crashed"} \/ LeftIdle(j))

\* The exchange of introductions comes to an end: a register message is always
\* answered, and the answer of an instance not yet idle is one again, but each
\* becomes idle and a known idle node is not answered (onNodeInfo).
ComesToRest == <>[]Quiet

\* Two idle instances of a node have different numbers: initialize() checks "if
\* instance number exists".
InstancesDiffer ==
  \A i, j \in Idling : i # j => ~EqNode(i, j)

\* The system implements Membership: an instance comes in with its subscription
\* and is out once unregister() has begun; nobody is forgotten before that.
LifeOf(i) ==
  CASE phase[i] = "crashed" -> "down"
    [] phase[i] \in {"off", "startup", "alone", "offline"} -> "new"
    [] phase[i] \in {"subscribed", "announced", "idle"} -> "in"
    [] OTHER -> "out"

M == INSTANCE Membership WITH
       Members <- Instances, life <- [i \in Instances |-> LifeOf(i)], view <- nodes

ImplementsMembership == M!Spec
=============================================================================
