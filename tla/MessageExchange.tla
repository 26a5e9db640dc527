-------------------------- MODULE MessageExchange --------------------------
(***************************************************************************)
(* Messages between the instances of a system and the exchanges that       *)
(* answer them (packages/base/src/libs/messaging: Message.ts,              *)
(* AbstractExchange.ts; packages/base/src/workers/ExchangeMessageWorker.ts),*)
(* and the queries of distributed storage, which are messages too          *)
(* (packages/distributed-storage/src/workers/DistributedQueryWorker.ts).   *)
(*                                                                         *)
(* Several instances (processes) may run under one node id, and answers    *)
(* carry the node id only.  The event bus is external: what is posted goes *)
(* to every registered instance, the sender included, in any order and at  *)
(* any time.  A message that is lost is one that never arrives, an instance*)
(* that crashes one that never moves again.  The exchange itself and the   *)
(* worker are both registered for the requests, so an instance sees each   *)
(* request twice: at once, and when the worker's queue comes to it.  A     *)
(* query is taken by the query worker alone, which may not be allowed to   *)
(* answer it and says so at once.                                          *)
(***************************************************************************)
EXTENDS Messages, FiniteSets

CONSTANTS
  Instances, NodeIds,
  NodeOf,      \* [Instances -> NodeIds]
  Requests,    \* request event ids
  Sender,      \* [Requests -> Instances]
  Queries,     \* the requests that are queries of distributed storage
  Skips,       \* per instance, the queries that isAllowed refuses
  Options      \* per request, the options its message may have: records of
               \*   targets (empty: none given), detect (detectTargets),
               \*   skipLocal, wait (waitIfNoTarget)

ASSUME MessageExchangeAssumption ==
  /\ NodeOf \in [Instances -> NodeIds]
  /\ Sender \in [Requests -> Instances]
  /\ Queries \subseteq Requests
  /\ Skips \in [Instances -> SUBSET Queries]
  /\ Options \in [Requests -> SUBSET [targets : SUBSET NodeIds, detect : BOOLEAN,
                                      skipLocal : BOOLEAN, wait : BOOLEAN]]

VARIABLES
  msgs,      \* the message of each request (see Messages)
  asking,    \* requests on the bus: [req, inst]
  answering, \* answers on the bus: [res, inst]; equal ones are one
  handling,  \* per instance, the handlers running (reqCache, or in the query
             \*   worker and its queue): [req, via]
  queue      \* per instance, the worker's queue of requests

vars == <<msgs, asking, answering, handling, queue>>

Init ==
  /\ msgs = [q \in Requests |-> Fresh]
  /\ asking = {}
  /\ answering = {}
  /\ handling = [i \in Instances |-> {}]
  /\ queue = [i \in Instances |-> <<>>]

Me(q) == NodeOf[Sender[q]]

Answer(i, q, skips) ==
  [req |-> q, node |-> NodeOf[i], to |-> Me(q), skipping |-> skips]

\* onRequest of the exchange takes a request that is for its node or for
\* nobody in particular, the query worker only one that names its node.
IsFor(i, q, m) == NodeOf[i] \in m.sent \/ (m.sent = {} /\ q \notin Queries)

\* send() of q when nobody is left to answer on this node.  The instances
\* that would return at once are left out.
Post(q, m) ==
  LET posted == Posted(m) IN
  /\ msgs' = [msgs EXCEPT ![q] = posted]
  /\ asking' = asking \cup
       IF posted.phase = "waiting"
       THEN {[req |-> q, inst |-> i] : i \in {j \in Instances : IsFor(j, q, m)}}
       ELSE {}

\* beforeSend: given targets without this node are not answered here.
AnswersHere(q, o, targets) ==
  /\ ~ o.skipLocal
  /\ o.detect \/ targets = {} \/ Me(q) \in targets

\* send(), with the nodes this instance knows of when no targets are given
\* (System.nodes: other instances, possibly of the same node, possibly gone).
Send(q, o, known) ==
  LET targets == IF o.targets = {} THEN {NodeOf[i] : i \in known} ELSE o.targets
      m == Addressed(msgs[q], targets, o.wait)
  IN
  /\ msgs[q].phase = "new"
  /\ IF AnswersHere(q, o, targets)
     THEN msgs' = [msgs EXCEPT ![q] = m] /\ UNCHANGED asking
     ELSE Post(q, m)
  /\ UNCHANGED <<answering, handling, queue>>

\* The exchange of this node has answered, outside of onRequest.
AnswerHere(q) ==
  /\ msgs[q].phase = "local"
  /\ Post(q, AnsweredHere(msgs[q], Answer(Sender[q], q, FALSE)))
  /\ UNCHANGED <<answering, handling, queue>>

\* onRequest of the exchange: not while the same request is being handled.
Handle(i, q, via) ==
  IF \E h \in handling[i] : h.req = q THEN handling[i]
  ELSE handling[i] \cup {[req |-> q, via |-> via]}

\* A request reaches an instance: the exchange, and the queue of the worker
\* (which takes an empty list of targets for a list without this node).
Request(i, q) ==
  /\ q \notin Queries
  /\ [req |-> q, inst |-> i] \in asking
  /\ asking' = asking \ {[req |-> q, inst |-> i]}
  /\ handling' = [handling EXCEPT ![i] = Handle(i, q, "bus")]
  /\ queue' = [queue EXCEPT ![i] =
                 IF NodeOf[i] \in msgs[q].sent THEN Append(@, q) ELSE @]
  /\ UNCHANGED <<msgs, answering>>

\* The worker's do().
Work(i) ==
  /\ queue[i] # <<>>
  /\ handling' = [handling EXCEPT ![i] = Handle(i, Head(queue[i]), "queue")]
  /\ queue' = [queue EXCEPT ![i] = Tail(@)]
  /\ UNCHANGED <<msgs, asking, answering>>

Listeners == {Sender[q] : q \in {p \in Requests : msgs[p].listening}}

\* An answer goes to whoever listens.
Reply(i, q, skips) ==
  answering' = answering \cup {[res |-> Answer(i, q, skips), inst |-> j] : j \in Listeners}

\* handleRequest has ended, with a result or an error; or the query worker has.
Respond(i, h) ==
  /\ h \in handling[i]
  /\ handling' = [handling EXCEPT ![i] = @ \ {h}]
  /\ Reply(i, h.req, FALSE)
  /\ UNCHANGED <<msgs, asking, queue>>

\* A query reaches the query worker of an instance, which is not allowed to
\* answer it and says so, or has it done (a hundred at a time).
Query(i, q) ==
  /\ q \in Queries
  /\ [req |-> q, inst |-> i] \in asking
  /\ asking' = asking \ {[req |-> q, inst |-> i]}
  /\ \/ /\ q \in Skips[i]
        /\ Reply(i, q, TRUE)
        /\ UNCHANGED handling
     \/ /\ q \notin Skips[i]
        /\ handling' = [handling EXCEPT ![i] = @ \cup {[req |-> q, via |-> "query"]}]
        /\ UNCHANGED answering
  /\ UNCHANGED <<msgs, queue>>

\* An answer reaches an instance: onResults of every message registered there.
Results(a) ==
  /\ a \in answering
  /\ answering' = answering \ {a}
  /\ msgs' = [q \in Requests |->
                IF Sender[q] = a.inst /\ Accepts(msgs[q], q, Me(q), a.res)
                THEN OnResults(msgs[q], a.res) ELSE msgs[q]]
  /\ UNCHANGED <<asking, handling, queue>>

\* Variant: no timer when everybody asked has answered.
TimeoutIfAwaited(q) ==
  /\ msgs[q].phase = "waiting" /\ msgs[q].waiting # {}
  /\ msgs' = [msgs EXCEPT ![q] = PostProcess(@, "timeout")]
  /\ UNCHANGED <<asking, answering, handling, queue>>

\* The timer of ready().
Timeout(q) ==
  /\ msgs[q].phase = "waiting"
  /\ msgs' = [msgs EXCEPT ![q] = PostProcess(@, "timeout")]
  /\ UNCHANGED <<asking, answering, handling, queue>>

\* The end of send().
Unregister(q) ==
  /\ msgs[q].phase = "finished" /\ msgs[q].listening
  /\ msgs' = [msgs EXCEPT ![q] = Unregistered(@)]
  /\ UNCHANGED <<asking, answering, handling, queue>>

Next ==
  \/ \E q \in Requests : \E o \in Options[q] :
       \E known \in SUBSET (Instances \ {Sender[q]}) : Send(q, o, known)
  \/ \E q \in Requests : AnswerHere(q) \/ Timeout(q) \/ Unregister(q)
  \/ \E i \in Instances : \E q \in Requests : Request(i, q) \/ Query(i, q)
  \/ \E i \in Instances : Work(i) \/ \E h \in handling[i] : Respond(i, h)
  \/ \E a \in answering : Results(a)

Spec == Init /\ [][Next]_vars

\* Handlers end and timers fire; the bus owes nothing.
Fairness ==
  \A q \in Requests : WF_vars(AnswerHere(q)) /\ WF_vars(Timeout(q))

FairSpec == Spec /\ Fairness
-----------------------------------------------------------------------------
\* Properties

Response == [req : Requests, node : NodeIds, to : NodeIds, skipping : BOOLEAN]

Handlers == [req : Requests, via : {"bus", "queue", "query"}]

Message ==
  [phase : {"new", "local", "waiting", "finished"}, sent : SUBSET NodeIds,
   waiting : SUBSET NodeIds, responses : Seq(Response), passed : SUBSET NodeIds,
   patient : BOOLEAN, active : BOOLEAN, listening : BOOLEAN, result : Seq(Response),
   cause : {"none", "complete", "timeout"}]

TypeOK ==
  /\ msgs \in [Requests -> Message]
  /\ asking \subseteq [req : Requests, inst : Instances]
  /\ answering \subseteq [res : Response, inst : Instances]
  /\ handling \in [Instances -> SUBSET Handlers]
  /\ queue \in [Instances -> Seq(Requests)]

\* The result holds one answer of a node at most, although requests are
\* handled more than once and by several instances of a node, and although
\* the sender may have answered itself.
OneAnswerPerNode ==
  \A q \in Requests :
    Cardinality(NodesOf(msgs[q].responses)) = Len(msgs[q].responses)

\* The nodes still waited for are those asked that have neither been collected
\* nor passed, nobody does both, and a message that ended without a timeout has
\* heard of everybody asked: who is missing in the result has skipped it.
AllAccountedFor ==
  \A q \in Requests :
    LET m == msgs[q] IN
    /\ m.waiting = m.sent \ (NodesOf(m.responses) \cup m.passed)
    /\ NodesOf(m.responses) \cap m.passed = {}
    /\ m.cause = "complete" => m.sent \ NodesOf(m.result) \subseteq m.passed

\* The result is fixed when the message has finished, whatever still arrives.
ResultFrozen ==
  [][\A q \in Requests : msgs[q].phase = "finished" =>
       /\ msgs'[q].phase = "finished"
       /\ msgs'[q].result = msgs[q].result
       /\ msgs'[q].cause = msgs[q].cause]_vars

\* send() returns, with whatever answers there are.
SendReturns ==
  \A q \in Requests :
    msgs[q].phase \in {"local", "waiting"} ~> msgs[q].phase = "finished"

\* Messages gather answers: those that count, and how it stands with them.
CountedIn(m) == NodesOf(IF m.phase = "finished" THEN m.result ELSE m.responses)

Standing(m) ==
  CASE m.phase = "new" -> "new"
    [] m.phase \in {"local", "waiting"} -> "open"
    [] m.cause = "timeout" -> "partial"
    [] OTHER -> "complete"

\* Nobody is waited for once it is closed, whoever is still on targetIds.
AwaitedIn(m) == IF m.phase = "finished" THEN {} ELSE m.waiting

Gathering == INSTANCE Gather WITH
  Questions <- Requests,
  Nodes <- NodeIds,
  asked <- [q \in Requests |-> msgs[q].sent],
  pending <- [q \in Requests |-> AwaitedIn(msgs[q])],
  answers <- [q \in Requests |-> CountedIn(msgs[q])],
  status <- [q \in Requests |-> Standing(msgs[q])]

ImplementsGather == Gathering!Spec
=============================================================================
