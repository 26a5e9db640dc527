---------------------------- MODULE TaskExecution ----------------------------
(***************************************************************************)
(* Tasks proposed to the workers of other nodes                            *)
(* (packages/tasks/src/lib/TaskExecutor.ts executeOnWorker,                *)
(* worker/execute/TaskExecutionExchange.ts and TaskFuture.ts;              *)
(* packages/tasks/src/workers/TaskQueueWorker.ts).                         *)
(*                                                                         *)
(* The executor proposes a task to some workers, collects their first      *)
(* answers in a message (Messages), and, if it wants the results, listens  *)
(* with a future that was registered before the proposal was sent.         *)
(* The event bus is external: what one worker posts arrives in the order   *)
(* it was posted, at any time.                                             *)
(***************************************************************************)
EXTENDS Messages, FiniteSets

CONSTANTS
  Workers,     \* node ids of the workers
  Executions,  \* ids of the proposals
  Caller,      \* the node id of the executor
  Targets,     \* per execution, the target lists its caller may end up with
  Waits,       \* per execution, the values of waitForRemoteResults
  Concurrent,  \* tasks a worker executes at a time
  Broken       \* workers on which createNewRunner may throw

ASSUME TaskExecutionAssumption ==
  /\ IsFiniteSet(Workers)
  /\ Targets \in [Executions -> SUBSET ((SUBSET Workers) \ {{}})]
  /\ Waits \in [Executions -> SUBSET BOOLEAN]
  /\ Concurrent \in Nat \ {0}
  /\ Broken \subseteq Workers

VARIABLES
  msgs,      \* per execution, the proposal as a message
  phase,     \* per execution, where executeOnWorker is
  future,    \* per execution: [open, runnerId, states, results]
  proposals, \* proposals on the bus: [x, w]
  events,    \* per execution and worker, the events on the bus, in order
  work,      \* per worker and execution: what has become of the proposal
  queue      \* per worker, the executions waiting in its queue

vars == <<msgs, phase, future, proposals, events, work, queue>>

\* Variant: a task that was started counts as ended.
TerminalOnceStarted == {"started", "stopped", "errored", "request_error"}

\* Variant: a failed task is not at its end.
TerminalOk == {"stopped", "request_error"}

Terminal == {"stopped", "errored", "request_error"}

NoFuture ==
  [open |-> FALSE, runnerId |-> FALSE, states |-> [w \in {} |-> "none"], results |-> {}]

Init ==
  /\ msgs = [x \in Executions |-> Fresh]
  /\ phase = [x \in Executions |-> "new"]
  /\ future = [x \in Executions |-> NoFuture]
  /\ proposals = {}
  /\ events = [x \in Executions |-> [w \in Workers |-> <<>>]]
  /\ work = [w \in Workers |-> [x \in Executions |-> "none"]]
  /\ queue = [w \in Workers |-> <<>>]

\* executeOnWorker up to the answer of run(): the future listens before the
\* proposal is posted.
Propose(x, targets, waits) ==
  /\ phase[x] = "new"
  /\ phase' = [phase EXCEPT ![x] = IF waits THEN "waits" ELSE "asks"]
  /\ future' = [future EXCEPT ![x].open = waits]
  /\ msgs' = [msgs EXCEPT ![x] = Posted(Addressed(@, targets, FALSE))]
  /\ proposals' = proposals \cup {[x |-> x, w |-> w] : w \in targets}
  /\ UNCHANGED <<events, work, queue>>

-----------------------------------------------------------------------------
\* TaskQueueWorker

\* fireState.
Fire(x, w, state) == events' = [events EXCEPT ![x][w] = Append(@, state)]

\* onTaskEvent: refused (not allowed, parameters missing) or accepted.
Accept(x, w) ==
  /\ [x |-> x, w |-> w] \in proposals
  /\ proposals' = proposals \ {[x |-> x, w |-> w]}
  /\ \/ /\ Fire(x, w, "request_error")
        /\ work' = [work EXCEPT ![w][x] = "refused"]
     \/ /\ Fire(x, w, "enqueue")
        /\ work' = [work EXCEPT ![w][x] = "accepted"]
  /\ UNCHANGED <<msgs, phase, future, queue>>

\* The timer of 50 ms: the accepted task goes to the queue.
Enqueue(x, w) ==
  /\ work[w][x] = "accepted"
  /\ work' = [work EXCEPT ![w][x] = "queued"]
  /\ queue' = [queue EXCEPT ![w] = Append(@, x)]
  /\ UNCHANGED <<msgs, phase, future, proposals, events>>

Running(w) == {x \in Executions : work[w][x] = "running"}

\* do() up to run().
Start(w) ==
  /\ queue[w] # <<>> /\ Cardinality(Running(w)) < Concurrent
  /\ queue' = [queue EXCEPT ![w] = Tail(@)]
  /\ work' = [work EXCEPT ![w][Head(queue[w])] = "running"]
  /\ Fire(Head(queue[w]), w, "started")
  /\ UNCHANGED <<msgs, phase, future, proposals>>

\* do() when createNewRunner throws, before anything has been posted.
Drop(w) ==
  /\ w \in Broken
  /\ queue[w] # <<>> /\ Cardinality(Running(w)) < Concurrent
  /\ queue' = [queue EXCEPT ![w] = Tail(@)]
  /\ work' = [work EXCEPT ![w][Head(queue[w])] = "dropped"]
  /\ UNCHANGED <<msgs, phase, future, proposals, events>>

\* do() after run() has resolved: the end is told with the runner's data.
Stop(x, w) ==
  /\ x \in Running(w)
  /\ work' = [work EXCEPT ![w][x] = "ended"]
  /\ Fire(x, w, "stopped")
  /\ UNCHANGED <<msgs, phase, future, proposals, queue>>

\* do() when setIncomings or run() has thrown.  Logging the error posts the
\* state before the end is posted, and leaves topic at "log", for which
\* fireState takes the data off both events.
Fail(x, w) ==
  /\ x \in Running(w)
  /\ work' = [work EXCEPT ![w][x] = "ended"]
  /\ events' = [events EXCEPT ![x][w] = @ \o <<"errored", "errored">>]
  /\ UNCHANGED <<msgs, phase, future, proposals, queue>>

-----------------------------------------------------------------------------
\* The caller's side

\* requestCheck: passingTaskStates.
Passing == {"request_error", "enqueue"}

\* A proposal's message and future get the event of worker w.
Collected(x, w, state) ==
  LET res == [req |-> x, node |-> w, to |-> Caller, state |-> state,
             skipping |-> FALSE] IN
  IF Accepts(msgs[x], x, Caller, res) /\ state \in Passing
  THEN OnResults(msgs[x], res) ELSE msgs[x]

\* The events that carry the runner's data.
HasData(state) == state \in {"started", "stopped"}

IsFinished(states) == \A w \in DOMAIN states : states[w] \in Terminal

\* TaskFuture.onTaskEvent.  Before the runner's id is known an event without
\* data throws at event.data.id, and leaves no trace.
Noted(f, w, state) ==
  LET seen == [v \in DOMAIN f.states \cup {w} |->
                 IF v = w THEN state ELSE f.states[v]]
  IN
  IF ~ f.open \/ (~ f.runnerId /\ ~ HasData(state)) THEN f
  ELSE [open |-> ~ IsFinished(seen),
        runnerId |-> TRUE,
        states |-> seen,
        results |-> IF state \in Terminal /\ HasData(state)
                    THEN f.results \cup {w} ELSE f.results]

Deliver(x, w) ==
  /\ events[x][w] # <<>>
  /\ events' = [events EXCEPT ![x][w] = Tail(@)]
  /\ msgs' = [msgs EXCEPT ![x] = Collected(x, w, Head(events[x][w]))]
  /\ future' = [future EXCEPT ![x] = Noted(@, w, Head(events[x][w]))]
  /\ UNCHANGED <<phase, proposals, work, queue>>

Timeout(x) ==
  /\ msgs[x].phase = "waiting"
  /\ msgs' = [msgs EXCEPT ![x] = PostProcess(@, "timeout")]
  /\ UNCHANGED <<phase, future, proposals, events, work, queue>>

\* Variant: only a caller that wants results is told.
RefusedIfWaiting(x) == phase[x] = "waits" /\ msgs[x].result[1].state = "request_error"

\* Only the first answer is looked at.
Refused(x) == msgs[x].result[1].state = "request_error"

\* executeOnWorker after the answers: nobody answered (the future stays
\* registered), the first one refused (it is closed), or go on.
Decide(x) ==
  /\ phase[x] \in {"asks", "waits"} /\ msgs[x].phase = "finished"
  /\ IF msgs[x].result = <<>>
     THEN phase' = [phase EXCEPT ![x] = "silence"] /\ UNCHANGED future
     ELSE IF Refused(x)
     THEN /\ phase' = [phase EXCEPT ![x] = "refused"]
          /\ future' = [future EXCEPT ![x].open = FALSE]
     ELSE /\ phase' = [phase EXCEPT ![x] = IF @ = "waits" THEN "awaits" ELSE "accepted"]
          /\ UNCHANGED future
  /\ msgs' = [msgs EXCEPT ![x] = Unregistered(@)]
  /\ UNCHANGED <<proposals, events, work, queue>>

\* The await() of the future, which has no timeout here.
Return(x) ==
  /\ phase[x] = "awaits" /\ ~ future[x].open
  /\ phase' = [phase EXCEPT ![x] = "results"]
  /\ UNCHANGED <<msgs, future, proposals, events, work, queue>>

\* What the caller's process, the workers and the bus have begun.
Serve ==
  \/ \E x \in Executions : Timeout(x) \/ Decide(x) \/ Return(x)
  \/ \E w \in Workers : Start(w) \/ Drop(w)
  \/ \E x \in Executions : \E w \in Workers :
       \/ Accept(x, w) \/ Enqueue(x, w) \/ Deliver(x, w)
       \/ Stop(x, w) \/ Fail(x, w)

Next ==
  \/ \E x \in Executions : \E targets \in Targets[x] : \E waits \in Waits[x] :
       Propose(x, targets, waits)
  \/ Serve

Spec == Init /\ [][Next]_vars

\* Workers live and their tasks end, the bus delivers, timers fire.  No step
\* is taken for ever, so weak fairness of all together is that of each.
Fairness == WF_vars(Serve)

FairSpec == Spec /\ Fairness
-----------------------------------------------------------------------------
\* Properties

States == {"request_error", "enqueue", "started", "stopped", "errored"}

Answers == [req : Executions, node : Workers, to : {Caller}, state : States,
            skipping : {FALSE}]

Message ==
  [phase : {"new", "local", "waiting", "finished"}, sent : SUBSET Workers,
   waiting : SUBSET Workers, responses : Seq(Answers), passed : {{}},
   patient : BOOLEAN, active : BOOLEAN, listening : BOOLEAN, result : Seq(Answers),
   cause : {"none", "complete", "timeout"}]

\* What a future has heard of some of the workers.
Heard == UNION {[some -> States] : some \in SUBSET Workers}

TypeOK ==
  /\ msgs \in [Executions -> Message]
  /\ phase \in [Executions -> {"new", "asks", "waits", "silence", "refused",
                               "accepted", "awaits", "results"}]
  /\ future \in [Executions -> [open : BOOLEAN, runnerId : BOOLEAN, states : Heard,
                                results : SUBSET Workers]]
  /\ proposals \subseteq [x : Executions, w : Workers]
  /\ events \in [Executions -> [Workers -> Seq(States)]]
  /\ work \in [Workers -> [Executions ->
       {"none", "refused", "accepted", "queued", "running", "ended", "dropped"}]]
  /\ queue \in [Workers -> Seq(Executions)]

\* A caller that gets results has been told of a worker's end, and all it has
\* been told of have ended the task or refused it; it has the results of those
\* that did not fail.  Of a single target that end is known: the future is not closed by
\* the early events it cannot read, nor by the other worker's.
ResultsAreIn ==
  \A x \in Executions : phase[x] = "results" =>
    LET heard == future[x].states IN
    /\ DOMAIN heard # {}
    /\ \A w \in DOMAIN heard : work[w][x] \in {"ended", "refused"}
    /\ future[x].results = {w \in DOMAIN heard : heard[w] = "stopped"}
    /\ Cardinality(msgs[x].sent) = 1 => DOMAIN heard = msgs[x].sent

\* A caller that goes on has been accepted by a worker it asked, and one that
\* is told of a refusal has been refused by one.
AnswerIsTrue ==
  \A x \in Executions :
    /\ phase[x] \in {"accepted", "awaits", "results"} =>
         \E w \in msgs[x].sent :
           work[w][x] \in {"accepted", "queued", "running", "ended", "dropped"}
    /\ phase[x] = "refused" => \E w \in msgs[x].sent : work[w][x] = "refused"

\* The executor as one that calls: what the caller sees of a proposal and of the work on it.
Outcome(x) ==
  CASE phase[x] = "new" -> "none"
    [] phase[x] \in {"asks", "waits"} -> "pending"
    [] phase[x] = "awaits" -> "accepted"
    [] OTHER -> phase[x]

Job(w, x) ==
  CASE work[w][x] \in {"accepted", "queued", "running", "dropped"} -> "taken"
    [] work[w][x] = "ended" -> "done"
    [] OTHER -> work[w][x]

Call == INSTANCE RemoteCall WITH
          Calls <- Executions, Helpers <- Workers,
          asked <- [x \in Executions |-> msgs[x].sent],
          outcome <- [x \in Executions |-> Outcome(x)],
          job <- [w \in Workers |-> [x \in Executions |-> Job(w, x)]],
          got <- [x \in Executions |-> IF phase[x] = "results" THEN future[x].results ELSE {}]

\* A worker executes what it was asked to, at most once; the caller is told one outcome,
\* which is true of a worker it asked, and gets results only of what has ended.
ImplementsCall == Call!Spec

\* executeOnWorker returns or throws, when the workers live: a worker that
\* fails the task says so, and only one that could not create the runner
\* keeps the caller waiting.
CallReturns ==
  \A x \in Executions :
    phase[x] # "new"
      ~> \/ phase[x] \in {"silence", "refused", "accepted", "results"}
         \/ \E w \in Workers : work[w][x] = "dropped"

\* "Future object which waits till a task is done" (TaskFuture.ts): when the
\* caller gets the results, every worker that had accepted when it began to
\* wait has ended the task.
FutureWaits ==
  \A x \in Executions : phase[x] = "results" =>
    \A i \in DOMAIN msgs[x].result :
      msgs[x].result[i].state = "enqueue" => work[msgs[x].result[i].node][x] = "ended"
=============================================================================
