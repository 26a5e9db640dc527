# TypeXs in TLA+

A formal model of the parts of TypeXs that decide, under concurrency, whether
its users get what they were promised: the task runner, the messages between
the nodes of a system, the execution of tasks on remote workers, what the nodes
know of each other and of the tasks that run, the log of these, the readers that
feed a pipeline, the queue of the search index and the rows of a view. The modules are read beside the code: their comments name the files, and `map` in
`PROJECT.json` gives the lines of every definition.

## 1. The system

TypeXs is an application framework for Node.js, split into packages under
`src/packages`. A *node* is a process (its id may be shared by several
*instances*). Each is single-threaded; what makes its behaviour hard are
asynchronous handlers, nested synchronous event emitters, and an event bus
(`@allgemein/eventbus`, over Redis) between the nodes. The bus, the worker queue
(`@allgemein/queue`), the locks (`@allgemein/lock`) and typeorm are libraries
outside `src/` and are modelled, where needed, from how the code uses them.

### Inventory

| Component | State it keeps | Operations | Correct when |
|---|---|---|---|
| Task registry (`tasks`: `Tasks`, `TaskRef`) | bindings group and depends-on between task names | `group`, `dependsOn` (three forms) | the tree of runs a runner expands from them has every dependency, and no cycle |
| **Task runner** (`TaskRunner`, `TaskRun`) | `$tasks`, `todoNrs`, `runningNrs`, `doneNrs`, status of each run, `$outgoing`, the promise of `run()` | `run`, `next`, `taskRun`, `start`, `done`, `taskDone`, `addTask`, `finish` | runs start once, after what they need, on `parallel` slots; `run()` settles when all is done, and only then |
| **Message exchange** (`base`: `AbstractMessage`, `Message`, `AbstractExchange`, `ExchangeMessageWorker`) | per message: targets, responses, `active`, timer; per exchange: requests being handled; per worker: a queue | `send`, `beforeSend`, `onResults`, timer, `unregister`; `onRequest`, `do` | a message hears of each node asked once, knows who is missing in its result and why, ends once, and always ends |
| **Remote execution** (`TaskExecutor`, `TaskExecutionExchange`, `TaskFuture`, `TaskQueueWorker`) | the proposal as a message, the future's `targetState` and `targetResults`, the workers' queues | `executeOnWorker`, `onTaskEvent` of worker and future, `do`, `fireState`, `await` | the caller learns the truth about acceptance, and the results of the workers that ran the task |
| **Runner registry** (`TaskRunnerRegistry`) | runners of this node, status and names of the runs on all nodes | `addLocalRunner`, `onTaskRunnerEvent`, `onNodeUpdate`, `cleanup` | the status of a task that ended disappears; the counts for the limit agree with the list |
| **Task log** (`TasksStorageHelper`, `TasksStorageExtension`, `TaskMonitorWorker`) | rows per run and target in the database; per process a semaphore per run, and its clean-up timer | `save`, `onBefore`, `onStart`, `onProgress`, `onStop`, `onAfter`, `do` of the monitor | one row per target; the last word on a run that has stopped is that it has stopped |
| **System of nodes** (`System`, `TasksSystemExtension`) | known nodes, own instance number and state, records of all nodes in a database, node ids at the tasks | `initialize`, `register`, `idle`, `onNodeInfo`, `unregister`, `offline` | nodes know each other and forget who left; instance numbers differ |
| **Pipelines** (`PullingQueue`, `Reader`, storage readers; `Processor`) | queue, counters, state; offset, size and page of the reader | `next`, `hasNext`, `fetch`, `enqueue`, `data`, `finish` | each record is processed once; the end is told, once, when all is processed |
| **Search index** (`IndexProcessingQueue`) | queue, names to refresh, lock | `push`, `do`, `onEmpty`, `refresh`, `await` | what was indexed is refreshed at last |
| Storage connections (`TypeOrmConnectionWrapper`) | usage count, open connection, lock | `connect`, `close` | no connection in use is closed |
| **Rows of a view** (`ViewArray` of the grids) | a map from positions to nodes, the position of each node, what is loaded, a count | `append`, `push`, `insert`, `swap`, `move`, `remove` | it is a list: no row is lost, none is at two places |
| Distributed storage | built on messages | find, save, update, remove, aggregate on many nodes | results of all nodes are merged |
| Workers, lifecycle, scheduler, cache | order of start and stop, timers, maps | `prepare`, `startup`, `shutdown` | sequential |
| Storage operations, entity framework, search queries | none beyond the database | translation of queries and objects | data transformation |
| Authentication, roles, server, notification, LDAP, forms, Angular | sessions, patterns, views | HTTP and user interface | outside this project |

### How they interact

* A `TaskRunner` expands the bindings of the registry into runs (constructor,
  and `addTask` while it runs), and tells every change to the registry of running
  tasks and to the storage by a `TaskRunnerEvent`.
* `TaskExecutor` runs a task here, with a runner of its own, or proposes it to
  workers. `TaskExecutionExchange` *is a* message: the workers' first events are
  its answers. `TaskFuture` listens to the same events for the results.
* `TaskQueueWorker` creates a `TaskRunner` for each task of its queue.
* All exchanges (tasks, distributed storage, system information) are messages;
  whom they address comes from the nodes `System` knows of.

### What is hard here

Calls nested through emitters (`next` inside `taskDone` inside a body inside
`taskRun`), a body that appends tasks or calls `done` twice, answers that arrive
after the timer, twice, or from another instance of the same node, events of one
worker overtaken by those of another, workers that refuse, fail or fall silent,
counts and lists of nodes that are stale when used, nodes that crash and come back
while their last messages are under way, instances that share a key, chains of
callbacks that each go on by themselves over the same counters, and locks that an
exception leaves taken. `hazards` in `PROJECT.json` gives each at its line with the
properties that watch it; those of components not yet modelled say so.

## 2. The modules

| Module | Models | Extends / uses |
|---|---|---|
| `TaskTree` | `resolveDeps` and `createTaskRun`: the tree of runs of a name, as a pure function of the bindings | |
| `TaskBindings` | the registry while bindings are made; `TaskTree` on every registry so reached | `TaskTree` |
| `TaskRunner` | one runner, at the grain of its handlers | `TaskTree` |
| `TaskSchedule` | abstract: jobs with needs, on slots, executed at most once, settled at the end | refined by `TaskRunner` |
| `TaskRunnerProofs` | the proofs about `TaskRunner` and about the trees of `TaskBindings` | `TaskRunner`, `TaskBindings`, TLAPS |
| `Messages` | `AbstractMessage` as operators on a record | |
| `MessageExchange` | messages, exchanges, workers and query workers of several instances | `Messages` |
| `Gather` | abstract: a question, nodes that answer or pass once, an end | refined by `MessageExchange` |
| `MessageExchangeProofs` | the proofs about `MessageExchange` | `MessageExchange`, TLAPS |
| `TaskExecution` | the executor, the future and the task workers | `Messages` |
| `RemoteCall` | abstract: calls that helpers work on, one true outcome each | refined by `TaskExecution` |
| `TaskExecutionProofs` | the proofs about `TaskExecution` | `TaskExecution`, TLAPS |
| `Nodes` | the instances of a system, from start to end, and what they know of each other | |
| `Membership` | abstract: members that come, leave and fail, and the views they have of each other | refined by `Nodes` |
| `NodesProofs` | the proofs about `Nodes` | `Nodes`, TLAPS |
| `RunnerRegistry` | what one node knows of the runs on all nodes | |
| `Listing` | abstract: jobs, what is under way about them, and a list of them | refined by `RunnerRegistry` |
| `RunnerRegistryProofs` | the proofs about `RunnerRegistry` | `RunnerRegistry`, TLAPS |
| `PullingQueue` | the queue behind a reader, as actions per chain of calls | |
| `StorageReaders` | the two storage readers on their queue | `PullingQueue` |
| `Stream` | abstract: records handed out in order and in chunks, an end told once | refined by `StorageReaders` |
| `StorageReadersProofs` | the proofs about `StorageReaders` and its queue | `StorageReaders`, TLAPS |
| `TaskLog` | the rows of one run in the log, and the saves of its workers and monitors | |
| `Ledger` | abstract: an entry per owner, what is entered besides, a closing | refined by `TaskLog` |
| `TaskLogProofs` | the proofs about `TaskLog` | `TaskLog`, TLAPS |
| `IndexQueue` | the queue of the search index, its lock and the delayed refresh | |
| `Visibility` | abstract: writes, what is not found yet, and refreshes that are owed | refined by `IndexQueue` |
| `IndexQueueProofs` | the proofs about `IndexQueue` | `IndexQueue`, TLAPS |
| `ViewRows` | the rows of a view and the operations that edit them | |
| `RowList` | abstract: a list of rows and its length | refined by `ViewRows` |
| `MC...` | the instances TLC checks | the module named |

`Messages` is shared: the proposal of `TaskExecution` goes through the same
`Posted`, `Accepts`, `OnResults`, `PostProcess` as the messages of
`MessageExchange`, as the class is shared in the code. `MCTaskRunner` takes its
plans from `TaskTree`, so that the runner is checked on trees the expansion makes.

Operators whose comment begins with *Variant* are not part of a specification.
Each is a way the definition below it could be wrong; `mutants` in
`PROJECT.json` says which property notices.

### TaskBindings and TaskTree

`subs` and `deps` are the bindings in the order of registration. `Group`, `RefDependsOn`, `TasksDependsOn` are the
calls. `Rank` admits only acyclic registries: on a cyclic one `createTaskRun` recurses
without end (nothing in the code prevents it), so that there is no tree to
speak of. `Expansion` appends, depth first, one subtree per bound name;
`OneRunPerPath` compares it with a definition that builds no tree and shows that
a dependency shared by two tasks is run twice. `Rank` and the
bound of bindings are the model's own: whatever is acyclic has a rank. The names of
`TaskBindings` begin with `Bindings`, so that one module of proofs can be about it and the runner.

### TaskRunner

The variables carry the names of the fields. The runner is single-threaded, so
what interleaves are *nested* calls: `stack` holds the pending ones, a frame is a
`next()` still to be made or a run whose body has the control, and only the top
moves. A body that awaits leaves the stack, and the event loop may continue it
when the stack is empty (`Resume`). `next()` is four actions by its outcome:
`NextAfterFinish`, `NextFinish`, `NextNothing`, and `taskRun` as `StartTask`,
`RejectTask` (a required parameter is missing) or `ThrowTask` (the run is in no
list). Bodies may fail, call `done` again, append tasks (`BodyAdd`) and await them.
Runs are numbered from 1 (the code: from 0). Left out: logging, progress,
counters, the values of parameters (only whether one is there), `runDry`, which is
a run whose bodies return at once, and the `$finish` callback.

### Messages and MessageExchange

A message is a record with the fields of `AbstractMessage`. `Send` is the first half
of `send()`, `AnswerHere` the answer `Message.beforeSend` gets from this node,
`Post` the rest. The exchange and the worker queue are both registered for
requests, so that each instance sees a request twice (`Request`, `Work`); the
cache of requests being handled (`handling`) keeps the two apart only while one is
running. A query of distributed storage (a find, a save, ...) is a message too: its worker answers when the
query has been done (`Query`, `Respond`), or says at once that it skips it. Such an answer
is counted off `waiting` and is not in `responses` (`OnResults`); `passed` remembers it. The bus may deliver at any time and in any order: a message that is
lost is one that never arrives, an instance that crashes one that never moves.
Equal answers in flight to the same instance are one element of `answering`.
Left out: what the answers contain, filters and output modes.

### TaskExecution

`Propose` creates, registers the future and posts; `Accept`, `Enqueue`, `Start`,
`Drop`, `Stop`, `Fail` are the worker; `Deliver` hands an event to the message and
to the future; `Decide` looks at the answers; `Return` is the end of `await()`.
Only events of a started run carry its data, and `onTaskEvent` of the future reads
the runner's id from it: before the id is known an event without data throws
and leaves no trace (`Noted`). A failed run posts its end twice and without data:
logging the error sets the topic to `log`, for which `fireState` removes it. The
bus keeps the order of one worker's events (assumed), not that between workers.
Left out: the choice of targets and of local execution (`create`), the
concurrency limit, running and log events (after the first event they change
nothing that is modelled).

### Nodes

An instance is one process: a restart is another instance with the same key. `phase`
is how far `Startup` and `System` have brought it, and gives the `state` of its info
(`State`). `Start` is `initialize()`, `Subscribe`, `Announce`, `Idle` are `register()` between
its awaits, `Unregister`, `Depart`, `Exit` are the shutdown, `Offline` that without
distribution. A shutdown may come before `register()` is through: `late` says what of it is
still to come, `LateAnnounce` and `LateIdle` are this rest, after `Unregister` and before or
after `Depart`, with the state the node has then. The handler of the others' infos holds a semaphore, so that it is
two actions for each message (`Meet`, `Met` and `Part`, `Parted`), before and after the
await of the hooks, while messages wait in `inbox`. `taskNodes` stands for the node
ids at the tasks, which the hooks of `TasksSystemExtension` maintain, for nodes
that all offer the same task. A message carries the state its sender had when it
posted; the answer to an introduction is the sender's info of that moment.
The bus delivers in the order of posting, to all who are subscribed. The database
holds one record per key; the key has no instance number, as in the code.
Left out: the interval that refreshes runtime figures, and a `controller` that fails.

### RunnerRegistry

`status` is `systemwideTaskStatus`, `names` the keys of `taskNames`, from which
`getGlobalTaskCounts` counts, `local` is `localTaskRunner`. `Begin`, `Step`, `Finish`,
`Hang` are a run on one node as its events tell it; the details of the runner are
those of `TaskRunner`; what hangs is in section 5. A node message waits
(`waiting`) for the semaphore of `System`, a run event does not: news of a node and the
events of its runs are thereby handled out of order. `onNodeUpdate` is two actions,
the awaited filter and the removal. The activator of `base` always registers a `Cache`, so
that the statuses are in a `CacheArray` of `@allgemein/queue`: what is set or removed there
(`Write`) takes effect later (`Written`), in any order, and nobody waits for it, while the
names change at once. `crossed` remembers the runs of which something was written, or looked
for, while another write was under way. Equal writes of a run are counted up to `MaxWrites`.
Left out: that several nodes may have their arrays in one Redis.
A run id may be on several nodes (`Targets`), as the executor gives all workers the
id of the proposal.

### PullingQueue and StorageReaders

`next()` has no loop: it leads to one thing that calls it again at its end. Such a
chain of calls is a *lane*; `at` says what it awaits. `waitFor` starts a chunk
beside the chain that waits, which becomes a lane of its own. `GoOn` is `_next()`
and `next()` up to the next await, `Answer` the continuation after `hasNext()` with all its
branches, `Data` the taking of a chunk. A reader is called by every lane, over awaits,
and its fields are shared by them: `StorageReaders` composes each step of the queue
that calls the reader with the first step of that call (`Proceed`, `Hear`, `Deliver`).
A storage may fail on a find, a query or a count; the count of a query reader may be
no number, then it is asked for again (some drivers give strings).
`keepAlive`, `passArray`, the steps of a pipeline and other readers are left out.

### TaskLog

One run on several `Workers`; each saves by its own hooks (`Begin`, `Update`, `Stop` call
`save()` as often as the hooks do, in one turn of the event loop) and posts events, which
each of the `Monitors` saves in turn. `save()` is `Save` up to the semaphore, then `Find`,
`Store` and `Discard`, between whose awaits other processes write. Semaphores are numbered,
as a clean-up (`Cleanup`) makes room for a second one under the same id; what `purge()`
of the library does to those that wait is left open: they stay or are dropped. `disturbed`
remembers a clean-up that met a semaphore in use. Targets and states are what is kept of a row.

### IndexQueue

An entry stands for its storage. `Do`, `Done` and `Pass` are an entry in the worker queue;
`EntryOver` is `onEmpty()` up to the lock, with the counter it has read (`noted`, `waiting`), `Wake` the
end of the half second, `Refresh` one storage's turn. `stale` is what has been written
and not been refreshed. An entry without a class or registry would owe no refresh; nobody in
`src/` makes one (`ExtendEntityControllerApi.ts:41-65`, `SearchIndexTask.ts:87`). The worker that subscribes to the events is left out.

### ViewRows

A node is a number, `idx` the position it has itself, `arr` the map. The operations
are built of the same steps as the code's (`Set`, `Put`, `Drop`, node by node), so that what one
step overwrites for the next is in the model. Positions are sorted as the code does: as
text (`TextRank`) in `idxUpDownCount`, as numbers in `changeIdx`. A user points at
places that are there. A move to a place inside of the moved block takes the block out and
throws (`MoveFails`); what is done after that is left out (`Editing`). What is fetched for the view, and its frame, is left out.

## 3. The runs

| Run | Question | Bounds |
|---|---|---|
| `task_bindings` | Is every tree the registry can give well numbered, complete, one run per path? | four names, five bindings: a name reached by three paths, subtrees of depth 4 |
| `runner_faults` | Do the safety properties, the inductive invariant of the proofs and the refinement hold under every fault? | the diamond (4 runs, 2 slots), up to 6 runs: tasks appended while runs fail |
| `runner_live` | Does everything end that should? | a chain of two and appended leaves, up to 4 runs, 3 slots |
| `message_exchange` | Safety, termination and refinement of messages | a request and a query of one instance, two instances of its node, one of another, two of the three skip the query; options with and without targets, local answer, `waitIfNoTarget` |
| `task_execution` | Is the answer true, do the results come, does the call end? | one caller of one or two workers, one competing caller, one task at a time; a worker may fail to create the runner |
| `nodes` | Do nodes know each other, and only each other, once at rest; do they come to rest; is the membership kept? | a node, its restart, and another node; the other may crash; the first may be shut down while it registers, or run without distribution |
| `nodes_instances` (violation) | Do instances of a node get different numbers? | three instances, each started when the others are idle |
| `registry` | Is a run that has ended dropped, do counts and list agree, is the list true of every state? | two nodes, one of which leaves, crashes and comes back once; a run on both; three events at each; two equal writes under way |
| `readers` | Is each record handed on once, is the end true, does it come, is the reader a stream? | four records; pages of two and three, queues with limits 1 to 3, chunks of one and two, a maximum of three; five lanes, two retries |
| `tasklog` | Does the log end with one row per target, that says stopped, and does every save end? | a worker and the monitor of another process, both may fail; one report of progress |
| `indexing` | Is all that was written refreshed when the queue is quiet, and at last? | two storages, five entries |
| `view_rows` | Do the operations make a list; is no other row lost when rows are removed? | three rows at first, five nodes in all; one user moves rows, two remove them, with a count and without |

Why the bounds are enough. The runner's faults need a run that waits while
another fails, appends or finishes under it: four runs in a diamond on two slots
have a pair that may overlap, one that must wait for both, and a name expanded
twice; two more leave room for an appended task with its dependency. What
messages can confuse is two requests of one process, two instances of one node (repeated
answers, or one that answers and one that skips) and one of another (incomplete ones). A
request of nobody in particular, that is posted because its sender waits for whoever answers,
is not in the run: no answer to it counts (section 5), and the theorems cover it. Remote
execution needs two workers for one proposal and two proposals for one worker.
What nodes can confuse needs an instance, its successor under the same key, and an
observer that is itself starting or leaving; that the first of them crashes and is started again
is not in the run, which has its hasty shutdown instead, but in those made while the
theorems were prepared (up to 1.2 million states). The registry needs a run with two
homes and a node that is back before its old news is handled; nothing it does with a run
looks at another, and instances with a second run (up to nine million states) were
checked once. Readers need two
pages, a page that exceeds the queue, a last chunk that is smaller, a last page cut
by the maximum, and more lanes than the concurrency; with these
settings a fifth lane is used and a sixth never (more lanes give the same states).
The log needs two processes that write one row, of which one saves twice in a turn; its rows are few, their interleavings many. The index queue needs two holders of
the lock that wait behind a third, hence five entries. Rows of a view are moved by blocks
of up to three past others, which five places allow. The text of five positions is in the order
of their numbers, so that what sorting them as text does is not in this run; it takes eleven
positions, and is in section 5.
`Parallel`, `MaxRuns`, `MaxBindings` are the bounds in the guards; the proofs hold
for all values.

Runs whose specification may stop (everything has ended) say
`CHECK_DEADLOCK FALSE`: a finished runner, message or execution is the normal end.
That something stops too early is what the liveness properties exclude.

### Fairness

* `TaskRunner`: a pending call goes on (WF of `NextCall` and of `BodyReturn`: a
  synchronous call in one thread). `Resume` and `Finish` are strongly fair per run:
  the event loop serves every continuation, but a body is enabled only while
  others leave it the stack, and a body that can go on calls `done` at last. The
  last is an assumption on the users' tasks; without it nothing could end.
* `MessageExchange`: the timer (`setTimeout`) and the local handler. Nothing of the
  bus or of other nodes. The handler is a real assumption: `beforeSend` awaits it
  before the timer is started.
* `TaskExecution`: workers live, tasks end, the bus delivers, timers fire. Every
  behaviour is finite, so that weak fairness of their disjunction is that of each.

* `Nodes`: what has been begun goes on (a start, a shutdown, a handler); nobody has to
  start, leave or crash.
* `StorageReaders`: per lane, every await and every timer ends. Which of its
  outcomes comes is not fair: a storage may fail every time.
* `TaskLog`: calls of the database return or are rejected. The other
  actions need not happen.
* `IndexQueue`: the worker queue goes on, writing ends, timers fire, refreshes end.
* `RunnerRegistry` and `ViewRows` have safety only: the one since events may be
  under way for ever, the other since it only does what it is told.

### Properties worth a word

* `RunnerInv` is the inductive invariant (section 4), checked before it was proved.
* `SomebodyToWaitFor`, `RunSettles` hold in `runner_live` because there are more slots
  than bodies that can wait. When every slot is held by a body that awaits a task
  it appended, the runner hangs: no text of the repository promises otherwise.
* `CallReturns` excepts a worker whose `createNewRunner` throws: it is called outside the
  `try` of `do()`, nothing is posted, and `await()` is called without a timeout.
* `ResultsAreIn` says what the code gives: the results of the tasks that did not fail.
* `KnowEachOther`, `NoGhosts`, `TaskNodesFollow` and the two of `RunnerRegistry` speak of
  states with nothing under way; `ComesToRest` says that `Nodes` gets to such states and
  stays there. An instance that crashes without a word remains in the lists until it
  comes back, as nothing in the code looks for silence.
* `NoGhosts` and `TaskNodesFollow` except one more: an instance of which `idle()` came after
  its `unregister()` (`LeftIdle`). Its last post says `idle`, and it stays in the lists of the
  others (section 5).
* `AllAccountedFor` says who is missing in a complete result: those who skipped, and nobody else.
  That a result is complete does not mean that everybody's answer is in it.
* `AnswerIsTrue` is about the workers that are named: who goes on was accepted by a worker it
  asked, who is told of a refusal was refused by one. Others may have accepted all the same.
* `NoPhantoms` is one direction only. The converse, that a run that goes on is listed, does
  not hold: the stopped event of the first of several workers removes the run, and
  `onNodeUpdate` may remove a run begun after the return of its node. Both properties of the
  registry except the runs of which writes crossed: of those the code gives nothing (section 5). What they
  say is that nothing else makes the list wrong.
* `DeliveredOnce` is stated for pages that fit the `fetch_limit` (`Serial`). With larger ones
  several lanes call the reader at once, and records are handed on twice or missed:
  the fields of the reader are read before an await and written after it.
* `Finishes` excepts a find that fails: the rejection of `hasNext()` is caught nowhere
  (`PullingQueue.ts:329`), and with its lane the reader may end without a word.

* `LogSaysStopped` holds for what any process writes last, since `save()` keeps the order of one
  process and the state in a row only moves on with it; that a slower process might set a
  stopped row back is excluded only because the last that each writes is `stopped`.
* `SavesEnd` excepts those behind a rejected save: its semaphore is never released.
* `ImplementsRowList` is limited to lists below eleven rows of which none is removed or counted,
  and to the first move that fails: it says what such a move loses, and promises nothing after
  it. What is beyond is in section 5.

## 4. Proofs

### The task runner

`TaskRunnerProofs` proves for every tree (any plan in which runs need later ones),
registry, set of parameters, limit and bound:

| Theorem | States |
|---|---|
| `InvariantHolds` | `Spec => []RunnerInv` |
| `SafeExecution` | types; no run starts before what it needs is done; the slots are never exceeded |
| `NextNeverStuck` | the exception `Tasks are stucked!` cannot be thrown |
| `FinishesComplete` | `run()` resolves only when every run in `$tasks` is done |
| `StartsOnce`, `StopIsFinal` | no run is started twice; nothing happens after `stopped` |
| `Implementation` | the runner implements `TaskSchedule` |
| `EventsTell` | if `SingleAppends`: the last event that was posted tells the lists as they are |
| `NoWakeupLost` | if also `NothingMissing`: no slot stays free while a run could take it |
| `SomebodyRuns` | if also `EnoughSlots`: until `run()` settles there is a body that can go on |

All rest on `TaskRunnerAssumption` (types of the constants, the shape of plans;
`RunnerPlans`, below, proves it of what the expansion makes), and those above `EventsTell` on
nothing else. The
argument: the three lists and the status flags do not agree in general, as a
rejected run is done and running, and a run created for an appended task is in no
list. `ListsAgree` says what is kept: the lists are disjoint, the started are
among the running, the done have been stopped. `TreeKept` says that every run needs later
runs only and that a run in no list is needed by an earlier one; `FramesKnown`
that the bodies on the stack have been started; `PhasesKept` that nothing moves
before `run()` and nothing is left running at the end. Each action falls into one of a few kinds
(`QuietStep`, `StartStep`, `DoneStep`, `AddStep`), and the lemma of the kind proves that it
keeps the invariant. `NextNeverStuck` takes the last run that is not done: it needs
later runs only, so all of them are done, and with nothing running it is ready
(`SomeRunReady`). `FinishesComplete` takes the first run that is not done: with empty
lists it is needed by an earlier one, which is done and so had all it needs done,
a contradiction (`EmptyListsAllDone`).

The last three are false of the code as it is, for the two reasons of section 5, and have
these as hypotheses: what is appended at runtime brings no dependency (`SingleAppends`; a run
in no list is thrown out by `taskRun()`, after it took the slot and before anything was told)
and no run misses a parameter (`NothingMissing`; a rejected run emits no `NEXT`). A third is
about the tree and the limit: bodies that wait for what they appended keep their slots, and
more of them than slots wait for ever, so that `SomebodyRuns` needs `EnoughSlots`: either no
body waits, or fewer runs can be appended than there are slots. `runner_live` is an instance of
all three. The inductive invariant is `WakeInv`. `Listed`: every run is in a list, and the
last event said which. `Woken`: as soon as `next()` would start something or finish, a `next()`
is on the stack (`Due`); it is shown action by action, as each that makes `Full`, `Ready` or
`NothingLeft` change for the better pushes one, and each that takes one has used it up.
`Awaited`: a body waits for runs it appended, later than itself, no other body waits for the same,
and they need nothing. `SomebodyGoesOn` concludes: were all that run waiting, each for a run
of its own, there would be fewer of them than slots; and what the last of them waits for comes
after all of them, so that it is not running and could start, which `Woken` excludes.

### The trees of the registry

The second half of `TaskRunnerProofs` is about `TaskBindings`: for every finite set of names, every `Rank`
that keeps the bindings acyclic (`BindingsAssumption`) and whatever `group` and `dependsOn` have
bound so far, in any order and number:

| Theorem | States |
|---|---|
| `BindingsInvariant` | `BindingsSpec => []BindingsInv`: the bindings are typed and lead to names of higher rank |
| `Trees` | an expansion is a tree whose runs need later runs only (`PlansAreTrees`) |
| `RunPerPath` | a name has one run for every path to it, so that nothing is shared (`OneRunPerPath`) |
| `NoBindingLost` | wherever and however often a name occurs, each of its runs waits for one run of every name bound to it (`NeedsFollowBindings`) |
| `RunnerPlans` | so `Plan` and `Initial` of `TaskRunner` may be what the expansion makes: it is as `TaskRunnerAssumption` asks |

With `RunnerPlans` the theorems about the runner hold for every registry that can be built, and not
only for plans of a given shape. `TaskTree` is written with recursive functions of the depth and of
the number of subtrees. What such a function is must be shown before anything can be said of it: there
is a function that does these steps (`Recursion`), so the one that the definition chooses does them
too (`GrownUnfolds`, `ExpansionUnfolds`, `ForestUnfolds`, `TotalUnfolds`, `PathsUnfold`). Induction is
over a set of numbers (`UpTo`: a set with 0 and with each number's successor has them all, as otherwise there were a
least one missing), which needs no operator as a parameter. The depth that the tree of a name
needs is bounded by the number of names that are not below it in rank (`Above`, `Heights`): a bound
name has fewer of them, so at depth `Cardinality(Names)` every tree is complete. Within one depth the
subtrees are attached one after the other: the root needs the roots attached so far, and what is in a
subtree stays as it was, shifted (`AttachedTree`, `AttachedNeeds`, `AttachedCount`).

### Nodes

`NodesProofs` proves for any instances, on any hosts and under any node ids, that come,
leave (also while they register), crash and come back in any order:

| Theorem | States |
|---|---|
| `NodesInvariant` | `Spec => []NodesInv` |
| `GhostsGo` | at rest nobody lists an instance that has left, but those that became idle after their `unregister()` |
| `OrderInvariant`, `MembershipImplemented` | if the instances of a node follow each other (`~ Overlapping`): the system implements `Membership` |
| `MeetingInvariant`, `Acquainted`, `TasksFollow` | then, at rest, all that are idle know each other, and the tasks name the nodes of these and of none that has left, but for the same exception |

`NodesInv` is about what an instance knows of another: that it is in its list, or
that a message that waits names it. `Heard` says that whoever knows works and
whoever is known has joined, so that the numbers both are compared by do not change
any more; `LastWord` that behind everything that says that an instance is there,
once it has left and `idle()` did not come late (`Lates`), its `unregister` still waits. When nothing waits, nothing can be
known of it. For the refinement the number is not enough: a restart has the node id
and the number of the instance before it, and `Part` takes both from the list. `InOrder`
says that what is known before a last word and is of the same node is of the
speaker or of one that is no more; this needs that the bus keeps the order of
posting, that `unregister()` is posted off the bus, and that the next instance of
the node starts later (`OneAtATime`). `Steps` gives each action as what it
does to one instance (it hears one message, takes one, ends, or stays as it is), and
the conjuncts are shown for these. Each conjunct was checked by TLC on `nodes` before.

### The registry of runs

`RunnerRegistryProofs` proves for any nodes, runs, targets and numbers of steps and
restarts, from `RegistryAssumption` (the node of the registry is one of the nodes, targets
are nodes, the bounds are numbers):

| Theorem | States |
|---|---|
| `RegistryInvariant` | `Spec => []RegistryInv` |
| `NoPhantomRuns` | when all is dealt with, a run that is listed or counted goes on, hangs or was lost with its node, unless writes of it crossed |
| `CountsFollowList` | then the names counted for `executionConcurrency` are those of the list, but for such runs |
| `Implementation` | the registry implements `Listing` |

The invariant is `ClaimsEnd`: the entry of a run in the registry, be it there or still to be
written, and every event of it on its way, has something behind it that takes it back once the run has ended: the
`stopped` event, the `register` of the node that came back (still on its way or waiting for
the semaphore), or the removal that is already decided. `RunsAtTargets` keeps a claim
with the node that made it, `EntriesAtTargets` an entry with a node it is meant for;
`NamesFollow` lets name and status differ only while an event of the local runner is on its
way. The status meant is the one there will be (`Will`): if the writes under way do not cross,
they are equal (`Single`), so that this is what they write, or the status there is if there
are none. A run whose writes crossed enters no claim (`Entered`).

`Listing` says the same of every state and not only of those in which all is quiet: what is
listed goes on, or an event of it or news of a node it may be at is under way, or its news
was mixed up. Its steps are the events (`Report`, `Hear`), the nodes and the clean-up (`Move`)
and what is removed (`Drop`); a status that is still to be written is a report, a removal is
news. That the news of a node concerns no other runs than those it may have, and that the constraint
is kept, are `RunsAtTargets` and `ClaimsEnd` again (`ListedConcerned`).

### The index queue

`IndexQueueProofs` proves for any storages and any number of entries:

| Theorem | States |
|---|---|
| `IndexInvariant` | `Spec => []IndexInv` |
| `NothingIsForgotten` | when the queue is empty and the lock free, what was written has been refreshed, or its refresh has failed |
| `Implementation` | the queue implements `Visibility` |

The invariant follows what is not yet refreshed: it is noted in `refreshIndexRef`, or is
being refreshed, or has failed; and when something is noted, the queue is busy or somebody
holds the lock who will look, and the last of those who wait for it has read the current
counter, so that it does not leave the refresh to another.

In `Visibility` a write owes its index a refresh, and the writer rests only when none is
owed. The queue owes what it has noted and what the refresh has still to ask
(`refreshIndexRef`, `refreshFor`); the step to prove is that nothing is owed when the queue
is quiet (`QuietOwesNothing`): whoever noted something would still hold or wait for the lock.

### Messages

`MessageExchangeProofs` proves for any instances with any node ids, requests and options:

| Theorem | States |
|---|---|
| `ExchangeInvariant` | `Spec => []ExchangeInv` |
| `AnswersOnce` | a message counts one answer of a node at most |
| `EverybodyHeard` | who is waited for has been asked and has neither answered nor skipped; who is missing in the result of a message that ended without its timer has skipped |
| `ResultIsFrozen` | nothing changes a message that has finished |
| `Implementation` | the messages implement `Gather` |

`Counted` keeps the number of answers equal to the number of the nodes they come from, and these
apart from the nodes that have skipped, which is what `onResults` has to preserve when an answer
arrives twice, or one instance of a node answers and another skips; `Phased` says when a message
can have answers, an audience and a cause. For the refinement each action is first shown to be one of four
moves of a message (`Opens`, `Counts`, `GivesUp`, `Keeps`), which are the steps of `Gather` and a stutter.

### Remote execution

`TaskExecutionProofs` proves for any executions, any finite set of workers (`IsFiniteSet(Workers)`: the
answers of a proposal are counted), targets and limits:

| Theorem | States |
|---|---|
| `ExecutionInvariant`, `Types` | `Spec => []ExecutionInv`; the type invariant |
| `Answer` | who goes on was accepted by a worker that was asked, who is told of a refusal was refused by one |
| `Results` | when `await()` returns, whoever was heard of has ended the task or refused it, and a single worker asked has been heard of |
| `Implementation` | the executor and its workers implement `RemoteCall` |

What a worker did is one of seven words, and goes one way (`Onward`). Everything else in the
state is hearsay: an answer, an event on the bus, a state in the future. `Says` gives what each such word
claims of the work, and holds of what was true when it was said, since no claim is ever undone by
going onward; `EventsTrue`, `AnswersTrue` and `HeardTrue` spread it over the places
where words are kept. What is left is that a future cannot be closed by too little (`Closed`):
nothing of a worker follows its `stopped` on the bus, and a future that is closed has heard of somebody.

`RemoteCall` has only calls, who was asked, the jobs of the helpers and what the caller was told.
The seven words become three (`Job`), the phases of a proposal its outcome (`Outcome`). A worker's step is
a step of one job or none (`JobStep`); that the outcome and the results are those of jobs is
`AnswerIsTrue` of the next state, `HeardTrue` and `Closed`.

### The readers

`StorageReadersProofs` proves for any finite number of lanes (`IsFiniteSet(Lanes)`: each is an
`await` that is pending), any number of records, sizes and limits:

| Theorem | States |
|---|---|
| `ReaderInvariant`, `Types` | `Spec => []ReaderInv`; the type invariant |
| `Finished` | success is told only when nothing is queued, fetched or in process |
| `Implementation` | the two readers on their queue implement `Stream` |
| `Delivery` | as long as a page fits the queue (`Serial`): each record is handed on once and in order, none is missing after a good end |

`CountersAgree` says that the counters of `PullingQueue` are the numbers of lanes at the places they
count, `AllCounted` that what was handed on and is not yet processed is in a lane; the sum over
the lanes is stated by a running total (`AddUp`), which needs no induction.
`Delivery` needs that there is one lane when a page fits (`Alone`), where that lane is in its
calls, and that what was handed on, queued and taken are the first `Taken` records
(`TakenInOrder`); `QueryReaderInv` and `ControllerReaderInv` keep offset, size and count of each reader in
step with it.

### The task log

`TaskLogProofs` proves for any finite sets of workers and monitors (`TaskLogAssumption`: the new
rows are numbered, which takes a number of targets), any processes whose calls of the database
fail, and any number of reports:

| Theorem | States |
|---|---|
| `LogInvariant` | `Spec => []LogInv` |
| `RowPerTarget` | when all is reported and saved, there is one row per target |
| `StopInvariant` | `Spec => []StopInv` |
| `SaysStopped` | then the rows say that the run has stopped, unless a clean-up met a semaphore in use |
| `Implementation` | the log implements `Ledger` |

Nothing in `save()` keeps two processes from making a row each; what is proved is that this
repairs itself. The row with the lowest number of a target stays for ever (`IsFirst`,
`Carried`): every save that has found rows has found the first ones (`FoundKept`), writes to
those and removes others only. A save that makes rows is the first of its process, and is always that
of `started` (`FirstSaves`): a runner has `running` waiting behind it, and a monitor that has
not saved before is still to hear that the run is over (`HeardOf`). So behind each row that is
not a first one there is a save that found it or a save yet to come that will (`WillRemove`, `ExtrasGo`), or
one that has failed; and then the log is never quiet, as its semaphore is not released. For the words, `InTurn`
has the saves of a process one after the other as long as no clean-up has thrown a
semaphore away under one (`disturbed`), `EndsStopped` says that the last it asked for is `stopped` or
that it has more to hear or to do (a monitor hears `stopped` last: `EventsInOrder`), and
`StopInv` that a word other than `stopped` in a first row leaves somebody who is going to write
over it. The steps are sorted into `Step`: the runner goes on without a save or with some, the monitor
takes an event, a save goes on, a clean-up; a process that none of these is about `Waits`. TLC
checked the parts of both invariants beforehand: on a worker and a monitor that may fail, on two
workers, on a worker whose process has a monitor too, and, in part, on two workers and a monitor.

`Ledger` has clerks who open it, repeat what another has entered, write all entries the same and remove
what lies beside them. A save that stores is one of the first three, depending on what it has
found and on what is there by then (`OpenMaps`, `RepeatMaps`, `WriteMaps`): that the entries stay
is `Carried`, that a ledger is in order when it is closed are the two theorems above, and that
nothing is changed then is the shape of `Quiet` (`QuietStays`).

### What TLC alone shows

All liveness (`RunSettles`, `AppendedTasksRun`, `SendReturns`, `CallReturns`,
`ComesToRest`, `FoundAtLast`, `SavesEnd` and `Finishes`: fairness and ENABLED are beyond the
prover); `ImplementsRowList` and `OthersStay` of `ViewRows`: they hold up to ten positions only, which
are sorted as text and worked through by the sorts and folds of the community modules, whose
laws nobody has proved. `InstancesDiffer` is violated.

`ImplementsVisibility`, `ImplementsCall` and `ImplementsLedger` are in no
configuration; before they were proved TLC found them to hold as a further `PROPERTY` of
`indexing.cfg`, `execution.cfg` and `tasklog.cfg`.

## 5. Where code and words disagree

`nodes_instances` is a run that expects its property to be violated. The other configurations
named here do the same (`tlc -config <name>.cfg <module>`); each checks one property that quotes
the repository and that the code does not keep.

* `Tasks.dependsOn(src, dest)` makes `dest` wait for `src`; its comment says the
  reverse (`Tasks.ts:304-312`; `TasksDependsOn` of `TaskBindings` does as the code).
* Two instances of a node may get the same number, and then ignore each other
  (`nodes_instances`).
* The branch of `PullingQueue.next()` that logs `should not happen` (line 364) is taken
  whenever a chunk is in process when the last page has been handed out; it does no
  harm, since the end of the chunk calls `next()` again (`Finishes`).
* `error_retries` is forgotten with the first fetch that succeeds: the count is then set to
  5 (`PullingQueue.ts:344`).
* A task that misses a required parameter leaves `run()` pending for ever
  (`runner_missing_parameter.cfg`, `RunSettles`).
* A task appended at runtime never runs when it has a dependency
  (`runner_appended_dependency.cfg`,
  `AppendedTasksRun`).
* A future for several workers may resolve when the first has ended
  (`execution_early.cfg`, `FutureWaits`).
* `waitIfNoTarget` is documented to wait for answers of unknown hosts
  (`IMessageOptions.ts:11-13`); with no targets `onResults` drops every answer, and
  the message ends by its timer with an empty result.

* A node that is shut down while it registers may leave itself behind: `Bootstrap.running` is set
  before `ready()` (`Bootstrap.ts:375`) and `unregister()` asks for `_registered` only
  (`System.ts:281`), which `register()` sets before its awaits. `idle()` (301) then overwrites the
  state `unregister()` has set, and the last word (296) is `idle`. The others list the node
  and keep its id at their tasks (`LateIdle`; `NoGhosts` and `TaskNodesFollow` except it).
* Nobody waits for the removal of a status (`TaskRunnerRegistry.ts:137`), and setting it (133) takes
  awaits: a set that ends after the removal lists a run that has ended for good, and counts and
  list differ, as the name is removed at once (`crossed`).
* A message may end complete without everybody's answer: one that skips is counted off and not
  collected (`AbstractMessage.ts:215`).
* A move of rows to a place inside of the moved block takes them out of the view (`ViewArray.ts:311`)
  and then throws (349): they are lost, and `max()` still counts them (`MoveFails`).
* Inserting into a view of more than ten rows may overwrite one (`view_rows_insert.cfg`: the
  positions are sorted as text); a view
  with a count appends over what was pushed (`view_rows_append.cfg`); position 0 is taken for
  no position (`view_rows_move.cfg`).

## 6. Plan

Done: the task runner, messages, remote execution, nodes, the registry of runs, the task log,
readers, the index queue, the rows of a view; proofs about all of them but the last, and of each of
those with state that it implements an abstract specification. What is left:
the laws of the sorts and folds that `ViewRows` takes from the community modules, from which
`ImplementsRowList` could be proved for up to ten positions.

### Not modelled

HTTP, authentication, roles, notification, LDAP, forms and front ends (no
concurrent state of their own; most of the lines of the repository), query
translation, object mapping and the entity framework (sequential transformation
of data whose meaning lies in the database), loading of classes and configuration.

Four parts have concurrent state and are left out all the same:

* the usage count of a `TypeOrmConnectionWrapper` against opening and closing under its
  lock: each window in it is one turn of the event loop wide, and the wrappers of a storage
  share one connection of typeorm, so that what goes wrong depends on what typeorm
  does with it, which the code in `src/` does not tell. The hazard is listed without a
  property;
* the operations of the distributed storage: each is a message whose `postProcess` merges the
  answers, a transformation of data. Their worker is in `MessageExchange`: its five requests
  (find, save, update, remove, aggregate) are one there, the query, as `onRequest` treats them
  alike, with the answers that skip it and so are missing in the result;
* the schedules (`Schedule.ts`): one timer each, sequential but for `shutdown()`, which
  clears the timer only: a schedule that is executing then reschedules itself;
* the pages that a view fetches: the rows a page brings are put by `ViewArray`, and
  that part is in `ViewRows`; the fetching is spread over Angular components.

