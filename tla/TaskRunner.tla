----------------------------- MODULE TaskRunner -----------------------------
(***************************************************************************)
(* One TaskRunner executing its tree of task runs                          *)
(* (packages/tasks/src/lib: TaskRunner.ts, TaskRun.ts,                     *)
(* TaskRuntimeContainer.ts).                                               *)
(*                                                                         *)
(* The runner is single-threaded, but its handlers call each other through *)
(* an EventEmitter, which calls listeners synchronously: next() runs       *)
(* inside taskDone(), which runs inside the body of a task, which runs     *)
(* inside taskRun(), which runs inside an outer next().  `stack` holds     *)
(* these pending calls: a frame is NEXT (a next() still to be made, or the *)
(* emit(NEXT) at the end of a taskRun() whose start() has to return first) *)
(* or the number of a run whose body has the control.  Only the top frame  *)
(* moves; a suspended body goes on when the stack is empty.                *)
(*                                                                         *)
(* Runs are numbered from 1 in creation order (the code: from 0).          *)
(***************************************************************************)
EXTENDS TaskTree

CONSTANTS
  Params,    \* parameter names
  Initial,   \* the plan of the runs the constructor creates (TaskTree)
  Plan,      \* the plan createTaskRun(n) appends for a name n (TaskTree)
  Requires,  \* required incoming parameters of a name
  Provides,  \* outgoing parameters of a name
  Incoming,  \* parameters handed to the runner (setIncomings)
  Addable,   \* names a body may append at runtime
  Awaits,    \* whether a body may await what it appended: {FALSE}, {TRUE}..
  Parallel,  \* options.parallel
  MaxRuns    \* bound on the number of runs

ASSUME TaskRunnerAssumption ==
  /\ Requires \in [Names -> SUBSET Params]
  /\ Provides \in [Names -> SUBSET Params]
  /\ Incoming \subseteq Params
  /\ Addable \subseteq Names
  /\ Awaits \subseteq BOOLEAN
  /\ Parallel \in Nat \ {0}
  /\ MaxRuns \in Nat
  /\ IsPlan(Initial)
  /\ \A n \in Addable :
       /\ IsPlan(Plan[n])
       /\ Len(Plan[n]) > 0
       /\ \A i \in 2 .. Len(Plan[n]) :
            \E j \in 1 .. (i - 1) : i \in Plan[n][j].need

VARIABLES
  taskNrs,        \* number of runs created ($tasks.length)
  tasks,          \* $tasks: name, needed runs, own incoming parameters
  todoNrs, runningNrs, doneNrs,  \* the runner's lists
  statusRunning,  \* runs with status.running
  statusDone,     \* runs with status.done
  outcome,        \* status.error of each run: "none", "ok", "error"
  outgoing,       \* parameters with a defined value in $outgoing
  awaits,         \* runs each body awaits (asPromise of an appended run)
  state,          \* runner state
  promise,        \* the promise run() returns
  event,          \* the last TaskRunnerEvent posted
  stack           \* pending synchronous calls

lists == <<todoNrs, runningNrs, doneNrs>>
status == <<statusRunning, statusDone, outcome>>
vars == <<taskNrs, tasks, lists, status, outgoing, awaits, state, promise,
          event, stack>>

NEXT == 0

Runs == 1 .. taskNrs

At(frame) == stack # <<>> /\ stack[Len(stack)] = frame

Push(frame) == stack' = Append(stack, frame)

Pop == stack' = SubSeq(stack, 1, Len(stack) - 1)

\* Variant: NEXT is not emitted.
LoseNEXT == UNCHANGED stack

\* The emit(NEXT) of taskDone and the next() of enqueue.
EmitNEXT == Push(NEXT)

\* Variant: the list of finished runs is read too early.
PostStale(s, running, finished) ==
  event' = [state |-> s, running |-> running, finished |-> doneNrs]

\* fireStateEvent: the event carries the state and the names in the lists.
Post(s, running, finished) ==
  event' = [state |-> s, running |-> running, finished |-> finished]

-----------------------------------------------------------------------------
Init ==
  /\ taskNrs = Len(Initial)
  /\ tasks = [i \in 1 .. Len(Initial) |->
                [name |-> Initial[i].name, need |-> Initial[i].need, given |-> {}]]
  /\ todoNrs = 1 .. Len(Initial)
  /\ runningNrs = {}
  /\ doneNrs = {}
  /\ statusRunning = {}
  /\ statusDone = {}
  /\ outcome = [i \in 1 .. Len(Initial) |-> "none"]
  /\ outgoing = {}
  /\ awaits = [i \in 1 .. Len(Initial) |-> {}]
  /\ state = "started"
  /\ promise = "none"
  /\ event = [state |-> "started", running |-> {}, finished |-> {}]
  /\ stack = <<>>

\* run(): subscribes the promise and emits NEXT.
Run ==
  /\ promise = "none"
  /\ promise' = "pending"
  /\ Push(NEXT)
  /\ UNCHANGED <<taskNrs, tasks, lists, status, outgoing, awaits, state, event>>

-----------------------------------------------------------------------------
\* next()

\* Variant: one finished dependency is enough.
ReadyAfterAny(t) ==
  /\ t \notin statusDone
  /\ t \notin statusRunning
  /\ tasks[t].need = {} \/ tasks[t].need \cap doneNrs # {}

Ready(t) ==
  /\ t \notin statusDone
  /\ t \notin statusRunning
  /\ tasks[t].need \subseteq doneNrs

\* selectNextTask: the first ready run in creation order.
Selected(t) == t \in Runs /\ Ready(t) /\ \A u \in 1 .. (t - 1) : ~ Ready(u)

Full == Cardinality(runningNrs) >= Parallel

\* Variant: only the todo list is looked at.
TodoEmpty == todoNrs = {}

NothingLeft == todoNrs = {} /\ runningNrs = {}

\* Variant: a finished runner goes on.
InNextAlways == At(NEXT)

\* next() past its first check of the state.
InNext == At(NEXT) /\ state # "stopped"

NextAfterFinish ==
  /\ At(NEXT)
  /\ state = "stopped"
  /\ Pop
  /\ UNCHANGED <<taskNrs, tasks, lists, status, outgoing, awaits, state,
                 promise, event>>

\* Nothing left: $finished, and finish() posts the last event and resolves
\* the promise of run() (which a rejected promise ignores).
NextFinish ==
  /\ InNext
  /\ NothingLeft
  /\ state' = "stopped"
  /\ promise' = IF promise = "pending" THEN "resolved" ELSE promise
  /\ Post("stopped", runningNrs, doneNrs)
  /\ Pop
  /\ UNCHANGED <<taskNrs, tasks, lists, status, outgoing, awaits>>

\* No run to start, or no slot for it.  The code throws 'Tasks are stucked!'
\* when nothing runs either; NeverStuck says that does not happen.
NextNothing ==
  /\ InNext
  /\ ~ NothingLeft
  /\ Full \/ \A t \in Runs : ~ Ready(t)
  /\ state' = "running"
  /\ Pop
  /\ UNCHANGED <<taskNrs, tasks, lists, status, outgoing, awaits, promise, event>>

InTodo(t) == t \in todoNrs

\* taskRun(t) up to the call of t.start().
Take(t) ==
  /\ InNext
  /\ Selected(t) /\ ~ Full
  /\ InTodo(t)
  /\ todoNrs' = todoNrs \ {t}
  /\ runningNrs' = runningNrs \cup {t}
  /\ state' = "running"
  /\ Post("running", runningNrs', doneNrs)

\* validateRequiredParameters: no value from the runner, from a provider
\* that is done, or from addTask.
Missing(t) ==
  ~ (Requires[tasks[t].name] \subseteq Incoming \cup outgoing \cup tasks[t].given)

\* start() hands the control to the body; the NEXT at the end of taskRun()
\* stays below it.
StartTask(t) ==
  /\ Take(t)
  /\ ~ Missing(t)
  /\ statusRunning' = statusRunning \cup {t}
  /\ Push(t)
  /\ UNCHANGED <<taskNrs, tasks, doneNrs, statusDone, outcome, outgoing,
                 awaits, promise>>

\* start() without a required parameter: done(e, null) records the error and
\* enters taskDone, where stop() sets status.done and then reads the missing
\* status.start.  The TypeError rejects the promise of start(), which nobody
\* looks at: the lists stay as they are.  addTask() of this very run, if it
\* is still on the stack, returns a promise that is already rejected.
RejectTask(t) ==
  /\ Take(t)
  /\ Missing(t)
  /\ statusDone' = statusDone \cup {t}
  /\ outcome' = [outcome EXCEPT ![t] = "error"]
  /\ awaits' = [r \in Runs |-> IF \E i \in 1 .. Len(stack) : stack[i] = r
                               THEN awaits[r] \ {t} ELSE awaits[r]]
  /\ UNCHANGED <<taskNrs, tasks, doneNrs, statusRunning, outgoing, promise, stack>>

\* taskRun(t) for a run outside the todo list (createTaskRun puts the needed
\* runs of an appended task into $tasks only): t is in the running list when
\* 'TaskRef not in todo list!' is thrown, and from then on 'TaskRef already
\* running!!!'.  The exception ends at the caller of next(): a body, whose
\* addTask() then returns no promise, or the executor of run()'s promise.
ThrowTask(t) ==
  /\ InNext
  /\ ~ NothingLeft
  /\ Selected(t) /\ ~ Full
  /\ ~ InTodo(t)
  /\ runningNrs' = runningNrs \cup {t}
  /\ state' = "running"
  /\ promise' = IF Len(stack) = 1 THEN "rejected" ELSE promise
  /\ awaits' = [r \in Runs |-> IF Len(stack) > 1 /\ stack[Len(stack) - 1] = r
                               THEN awaits[r] \cap doneNrs ELSE awaits[r]]
  /\ Pop
  /\ UNCHANGED <<taskNrs, tasks, todoNrs, doneNrs, status, outgoing, event>>

-----------------------------------------------------------------------------
\* Task bodies

Blocked(r) == ~ (awaits[r] \subseteq doneNrs)

\* The event loop continues a body that suspended itself.
Resume(r) ==
  /\ stack = <<>>
  /\ r \in statusRunning /\ ~ Blocked(r)
  /\ stack' = <<r>>
  /\ UNCHANGED <<taskNrs, tasks, lists, status, outgoing, awaits, state,
                 promise, event>>

\* The body awaits something, or returns after it called done.
BodyReturn(r) ==
  /\ At(r)
  /\ Pop
  /\ UNCHANGED <<taskNrs, tasks, lists, status, outgoing, awaits, state,
                 promise, event>>

\* What done(err, res) does before taskDone looks at the done list: the
\* values of the outgoing properties replace whatever was there before.
Settle(r, how, values) ==
  /\ outcome' = [outcome EXCEPT ![r] = how]
  /\ outgoing' = (outgoing \ Provides[tasks[r].name]) \cup values

\* Variant: the slot is not given back.
KeepSlot(r) ==
  /\ statusDone' = statusDone \cup {r}
  /\ statusRunning' = statusRunning \ {r}
  /\ doneNrs' = doneNrs \cup {r}
  /\ UNCHANGED runningNrs

\* Variant: the run is not listed as done.
ForgetRun(r) ==
  /\ statusDone' = statusDone \cup {r}
  /\ statusRunning' = statusRunning \ {r}
  /\ runningNrs' = runningNrs \ {r}
  /\ UNCHANGED doneNrs

\* stop() of the run, and taskDone's lists.
MoveToDone(r) ==
  /\ statusDone' = statusDone \cup {r}
  /\ statusRunning' = statusRunning \ {r}
  /\ doneNrs' = doneNrs \cup {r}
  /\ runningNrs' = runningNrs \ {r}

\* The body has finished: doneCallback and taskDone, which emits NEXT.
BodyDone(r, how, values) ==
  /\ At(r) /\ r \notin doneNrs /\ ~ Blocked(r)
  /\ Settle(r, how, values)
  /\ MoveToDone(r)
  /\ Post(state, runningNrs', doneNrs')
  /\ EmitNEXT
  /\ UNCHANGED <<taskNrs, tasks, todoNrs, awaits, state, promise>>

\* A body that calls done a second time, or throws after it has called done:
\* the result is overwritten, then 'TaskRef already in done list!!!'.
BodyDoneAgain(r, how, values) ==
  /\ At(r) /\ r \in doneNrs
  /\ outcome[r] = "error" => how = "error"
  /\ Settle(r, how, values)
  /\ UNCHANGED <<taskNrs, tasks, lists, statusRunning, statusDone, awaits,
                 state, promise, event, stack>>

\* addTask(n, given): createTaskRun appends the plan of n, enqueue puts its
\* first run (only) into the todo list and calls next().
BodyAdd(r, n, given, await) ==
  LET new == taskNrs + 1
      all == taskNrs + Len(Plan[n])
  IN
  /\ At(r) /\ ~ Blocked(r)
  /\ all <= MaxRuns
  /\ taskNrs' = all
  /\ tasks' = [i \in 1 .. all |->
                 IF i < new THEN tasks[i]
                 ELSE [name |-> Plan[n][i - taskNrs].name,
                       need |-> {taskNrs + k : k \in Plan[n][i - taskNrs].need},
                       given |-> IF i = new THEN given ELSE {}]]
  /\ outcome' = [i \in 1 .. all |-> IF i < new THEN outcome[i] ELSE "none"]
  /\ awaits' = [i \in 1 .. all |->
                  IF i = r /\ await THEN awaits[r] \cup {new}
                  ELSE IF i < new THEN awaits[i] ELSE {}]
  /\ todoNrs' = todoNrs \cup {new}
  /\ EmitNEXT
  /\ UNCHANGED <<runningNrs, doneNrs, statusRunning, statusDone, outgoing,
                 state, promise, event>>

-----------------------------------------------------------------------------
NextCall ==
  \/ NextAfterFinish
  \/ NextFinish
  \/ NextNothing
  \/ \E t \in Runs : StartTask(t) \/ RejectTask(t) \/ ThrowTask(t)

Finish(r) ==
  \E how \in {"ok", "error"} :
    \E values \in SUBSET Provides[tasks[r].name] : BodyDone(r, how, values)

Body(r) ==
  \/ Resume(r)
  \/ BodyReturn(r)
  \/ Finish(r)
  \/ \E how \in {"ok", "error"} :
       \E values \in SUBSET Provides[tasks[r].name] : BodyDoneAgain(r, how, values)
  \/ \E n \in Addable : \E given \in SUBSET Requires[n] : \E await \in Awaits :
       BodyAdd(r, n, given, await)

Next == Run \/ NextCall \/ \E r \in Runs : Body(r)

Spec == Init /\ [][Next]_vars

\* Calls run to completion; the event loop serves every body that can go on;
\* and a body that can go on calls done at last.
Fairness ==
  /\ WF_vars(NextCall)
  /\ WF_vars(\E r \in Runs : BodyReturn(r))
  /\ \A r \in 1 .. MaxRuns :
       /\ SF_vars(r \in Runs /\ Resume(r))
       /\ SF_vars(r \in Runs /\ Finish(r))

FairSpec == Spec /\ Fairness
-----------------------------------------------------------------------------
\* Properties

TaskEntry == [name : Names, need : SUBSET Nat, given : SUBSET Params]

TypeOK ==
  /\ taskNrs \in Nat
  /\ tasks \in [Runs -> TaskEntry]
  /\ todoNrs \subseteq Runs /\ runningNrs \subseteq Runs /\ doneNrs \subseteq Runs
  /\ statusRunning \subseteq Runs /\ statusDone \subseteq Runs
  /\ outcome \in [Runs -> {"none", "ok", "error"}]
  /\ outgoing \subseteq Params
  /\ awaits \in [Runs -> SUBSET Runs]
  /\ state \in {"started", "running", "stopped"}
  /\ promise \in {"none", "pending", "resolved", "rejected"}
  /\ event \in [state : {"started", "running", "stopped"},
                running : SUBSET Runs, finished : SUBSET Runs]
  /\ stack \in Seq(Runs \cup {NEXT})

\* No body runs before every run its run depends on has called done, whatever
\* is appended or fails meanwhile.
NeedsDoneFirst ==
  \A t \in statusRunning \cup doneNrs : tasks[t].need \subseteq doneNrs

\* options.parallel bounds the runs that hold a slot.
BoundedParallel == Cardinality(runningNrs) <= Parallel

\* The exception 'Tasks are stucked!' cannot be thrown: when next() finds
\* nothing running there is a run to start or nothing is left.
NeverStuck ==
  At(NEXT) /\ state # "stopped" /\ runningNrs = {} /\ todoNrs # {}
    => \E t \in Runs : Ready(t)

\* No wakeup is lost: when no call is pending, a free slot means that
\* nothing in the todo list could use it.
NoLostWakeup ==
  stack = <<>> /\ promise = "pending" /\ ~ Full => \A t \in todoNrs : ~ Ready(t)

\* The runner waits for somebody: while run() is pending and no call is, some
\* body can go on.
SomebodyToWaitFor ==
  stack = <<>> /\ promise = "pending" => \E r \in statusRunning : ~ Blocked(r)

\* Between calls the last TaskRunnerEvent tells the lists of the runner.
EventTellsLists ==
  stack = <<>> => event.running = runningNrs /\ event.finished = doneNrs

\* run() resolves only when every run created so far has been executed, the
\* ones that next() never sees in the todo list included.
FinishedMeansAllDone ==
  [][promise' = "resolved" /\ promise # "resolved" => doneNrs = Runs]_vars

\* A run is executed at most once: the body of a run that was started,
\* rejected or done before is not entered from the start again.
StartedOnce ==
  [][\A t \in Runs : t \in statusRunning' /\ t \notin statusRunning
       => t \in todoNrs /\ t \notin statusDone \cup doneNrs \cup runningNrs]_vars

\* The event that says "stopped" is the last one, and nothing is started or
\* settled after it: whoever drops the runner on that event misses nothing.
StoppedIsFinal ==
  [][state = "stopped"
       => UNCHANGED <<state, promise, event, runningNrs, doneNrs, statusRunning>>]_vars

-----------------------------------------------------------------------------
\* The invariant behind the proofs (TaskRunnerProofs).

\* The lists exclude each other and agree with the status of the runs.
ListsAgree ==
  /\ todoNrs \cap runningNrs = {}
  /\ todoNrs \cap doneNrs = {}
  /\ runningNrs \cap doneNrs = {}
  /\ statusRunning \subseteq runningNrs
  /\ statusRunning \cap statusDone = {}
  /\ doneNrs \subseteq statusDone
  /\ statusDone \subseteq runningNrs \cup doneNrs

\* A run needs runs created later, and a run in none of the lists was created
\* for one created before: the one that waits for it.
TreeKept ==
  /\ \A i \in Runs : tasks[i].need \subseteq (i + 1) .. taskNrs
  /\ \A i \in Runs \ (todoNrs \cup runningNrs \cup doneNrs) :
       \E j \in 1 .. (i - 1) : i \in tasks[j].need

\* A body on the stack belongs to a run that is started or done.
FramesKnown == stack \in Seq(statusRunning \cup doneNrs \cup {NEXT})

\* Before run() nothing moves, and after the end nothing is left running.
PhasesKept ==
  /\ promise = "none" => state = "started" /\ stack = <<>> /\ statusRunning = {}
  /\ promise = "resolved" => state = "stopped"
  /\ state = "stopped" => runningNrs = {}

RunnerInv ==
  TypeOK /\ ListsAgree /\ TreeKept /\ FramesKnown /\ PhasesKept /\ NeedsDoneFirst
    /\ BoundedParallel

-----------------------------------------------------------------------------
\* run() settles.
RunSettles == promise = "pending" ~> promise \in {"resolved", "rejected"}

\* Every run is executed, an appended one too ("Dynamically append a new task to runtime",
\* ITaskRuntimeContainer.ts) when it is appended before run() has settled.
AppendedTasksRun ==
  \A t \in 1 .. MaxRuns :
    (t \in Runs /\ promise = "pending") ~> t \in doneNrs

\* The runner implements the schedule it promises.
Schedule == INSTANCE TaskSchedule WITH
  Slots <- Parallel,
  needs <- [i \in Runs |-> tasks[i].need],
  active <- runningNrs,
  ended <- doneNrs,
  settled <- promise = "resolved"

ImplementsSchedule == Schedule!Spec
=============================================================================
