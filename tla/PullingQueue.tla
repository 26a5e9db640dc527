---------------------------- MODULE PullingQueue ----------------------------
(***************************************************************************)
(* The queue that a Reader pulls its records through                       *)
(* (packages/pipelines/src/lib/PullingQueue.ts).                           *)
(*                                                                         *)
(* Nothing polls: each call of _next() leads to one thing that calls       *)
(* _next() again when it is over, a fetch, the processing of a chunk or    *)
(* the wait for a retry.  Such a chain of calls runs in a lane here.  A    *)
(* queue starts with one lane; a fetch that fills it beyond the limit      *)
(* starts more.  An action goes from the end of one await to the next.     *)
(* keepAlive is not modelled: such a queue never finishes.                 *)
(***************************************************************************)
EXTENDS Integers, Sequences, FiniteSets, FiniteSetsExt

CONSTANTS
  Settings,     \* the options a queue may be made with
  Lanes,        \* bound: lanes, as numbers
  FullRetries   \* what the retries are set to after a fetch, 5 in the code

ASSUME QueueAssumption ==
  /\ IsFiniteSet(Lanes) /\ Lanes = 1..Cardinality(Lanes) /\ Lanes # {}
  /\ FullRetries \in Nat \ {0}
  /\ \A s \in Settings :
        {s.limit, s.flush, s.concurrency, s.retries} \subseteq Nat \ {0}

VARIABLES
  setting,     \* $options: fetch_limit, min_flush_queue, concurrency, error_retries
  at,          \* per lane, what it is at
  items,       \* per lane, what it processes
  queue,       \* $queue
  waiting,     \* $state[WAITING]: a lane waits for the queue to shrink
  fetching,    \* $fetching
  iterations,  \* $iterations
  retries,     \* $reties
  enqueued,    \* $enqueued
  processed,   \* $processed
  outcome,     \* "no", or what finish() has told: "ok" or "error"
  handed       \* history: the records handed to the callbacks, in order

queueVars == <<setting, at, items, queue, waiting, fetching, iterations, retries, enqueued,
               processed, outcome, handed>>

QueueInit ==
  /\ setting \in Settings
  /\ at = [l \in Lanes |-> IF l = 1 THEN "start" ELSE "free"]
  /\ items = [l \in Lanes |-> <<>>]
  /\ queue = <<>> /\ waiting = FALSE
  /\ fetching = 0 /\ iterations = 0
  /\ retries = setting.retries
  /\ enqueued = 0 /\ processed = 0
  /\ outcome = "no"
  /\ handed = <<>>

FreeLanes == {l \in Lanes : at[l] = "free"}

-----------------------------------------------------------------------------
\* Steps of more than one action

\* Variant: one more than allowed.
MayTakeOneMore(busy) == busy <= setting.concurrency

\* The test of _data().
MayTake(busy) == busy < setting.concurrency

\* _data(): the next chunk of the queue q, the last one may be smaller, goes to the
\* callbacks in the lane l.  The rest of the lanes is as in pos, busy of them
\* process.  When enough do already, nothing happens and the lane ends.
Data(l, q, pos, busy) ==
  LET n == Min({setting.flush, Len(q)})
      start == n > 0 /\ MayTake(busy)
      chunk == IF start THEN SubSeq(q, 1, n) ELSE <<>>
  IN /\ queue' = IF start THEN SubSeq(q, n + 1, Len(q)) ELSE q
     /\ at' = [pos EXCEPT ![l] = IF start THEN "working" ELSE "free"]
     /\ items' = [items EXCEPT ![l] = chunk]
     /\ handed' = handed \o chunk
     /\ iterations' = IF start THEN busy + 1 ELSE busy

\* The lane is over; no chunk is begun.
Rest(l, busy) ==
  /\ at' = [at EXCEPT ![l] = "free"]
  /\ items' = [items EXCEPT ![l] = <<>>]
  /\ iterations' = busy
  /\ UNCHANGED <<queue, handed>>

\* Variant: a fetch that runs does not matter.
MayFinishAlways(open) == TRUE

\* The test of _finish().
MayFinish(open) == open = 0

\* _finish() with open fetches running.
Finish(l, busy, open, how) ==
  /\ Rest(l, busy)
  /\ outcome' = IF outcome = "no" /\ MayFinish(open) THEN how ELSE outcome

\* hasNext() is called.
Ask(l, busy) ==
  /\ at' = [at EXCEPT ![l] = "asking"]
  /\ items' = [items EXCEPT ![l] = <<>>]
  /\ iterations' = busy
  /\ UNCHANGED <<queue, handed>>

\* _next() and next(), where busy lanes process, left retries are left and open
\* fetches run.
GoOn(l, busy, left, open) ==
  /\ fetching' = open /\ retries' = left
  /\ \/ outcome # "no" /\ Rest(l, busy) /\ UNCHANGED outcome
     \/ outcome = "no" /\ left = 0 /\ Finish(l, busy, open, "error")
     \/ outcome = "no" /\ left > 0 /\ Len(queue) < setting.flush
          /\ Ask(l, busy) /\ UNCHANGED outcome
     \/ outcome = "no" /\ left > 0 /\ Len(queue) >= setting.flush
          /\ Data(l, queue, at, busy) /\ UNCHANGED outcome
  /\ UNCHANGED <<setting, waiting, enqueued>>

\* waitFor: while the queue q is over the limit, the lane l stays and starts to
\* process a chunk in another lane.
WaitFor(l, q) ==
  \/ /\ Len(q) <= setting.limit
     /\ waiting' = FALSE
     /\ at' = [at EXCEPT ![l] = "stored"]
     /\ queue' = q
     /\ UNCHANGED <<items, handed, iterations>>
  \/ /\ Len(q) > setting.limit
     /\ waiting' = TRUE
     /\ FreeLanes # {}
     /\ Data(CHOOSE k \in FreeLanes : TRUE, q, [at EXCEPT ![l] = "waiting"], iterations)

-----------------------------------------------------------------------------
\* run().
Run(l) ==
  /\ at[l] = "start"
  /\ GoOn(l, 0, retries, fetching)
  /\ UNCHANGED processed

\* next(), when hasNext() has answered.  The last disjunct is the one that the code
\* says should not happen: the lane ends while another is still processing.
Answer(l, yes) ==
  /\ at[l] = "asking" /\ outcome = "no"
  /\ \/ /\ yes
        /\ fetching' = fetching + 1
        /\ at' = [at EXCEPT ![l] = "fetching"]
        /\ UNCHANGED <<items, queue, iterations, outcome, handed>>
     \/ /\ ~yes /\ queue # <<>>
        /\ Data(l, queue, at, iterations)
        /\ UNCHANGED <<fetching, outcome>>
     \/ /\ ~yes /\ queue = <<>> /\ enqueued = processed
        /\ Finish(l, iterations, fetching, "ok")
        /\ UNCHANGED fetching
     \/ /\ ~yes /\ queue = <<>> /\ enqueued # processed
        /\ Rest(l, iterations)
        /\ UNCHANGED <<fetching, outcome>>
  /\ UNCHANGED <<setting, waiting, retries, enqueued, processed>>

\* The same after finish(): the listeners are gone, what would be fetched or
\* processed goes nowhere.
AnswerLate(l) ==
  /\ at[l] = "asking" /\ outcome # "no"
  /\ Rest(l, iterations)
  /\ UNCHANGED <<setting, waiting, fetching, retries, enqueued, processed, outcome>>

\* hasNext() rejects, which nobody catches.
AnswerFails(l) ==
  /\ at[l] = "asking"
  /\ at' = [at EXCEPT ![l] = "dead"]
  /\ UNCHANGED <<setting, items, queue, waiting, fetching, iterations, retries, enqueued,
                 processed, outcome, handed>>

\* _enqueue() of what doFetch() has brought.  One lane at a time waits for the
\* queue to shrink, others go on at once.
Enqueue(l, data) ==
  /\ at[l] = "fetching"
  /\ enqueued' = enqueued + Len(data)
  /\ \/ ~waiting /\ WaitFor(l, queue \o data)
     \/ /\ waiting
        /\ queue' = queue \o data
        /\ at' = [at EXCEPT ![l] = "stored"]
        /\ UNCHANGED <<items, waiting, iterations, handed>>
  /\ UNCHANGED <<setting, fetching, retries, processed, outcome>>

\* The timer of waitFor.
Wait(l) ==
  /\ at[l] = "waiting"
  /\ WaitFor(l, queue)
  /\ UNCHANGED <<setting, fetching, retries, enqueued, processed, outcome>>

\* The enqueuing is done, the retries start again.
Stored(l) ==
  /\ at[l] = "stored"
  /\ GoOn(l, iterations, FullRetries, fetching - 1)
  /\ UNCHANGED processed

\* doFetch() rejects: wait for another try.
FetchFails(l) ==
  /\ at[l] = "fetching"
  /\ at' = [at EXCEPT ![l] = "delayed"]
  /\ fetching' = fetching - 1
  /\ retries' = IF retries = 0 THEN 0 ELSE retries - 1
  /\ UNCHANGED <<setting, items, queue, waiting, iterations, enqueued, processed, outcome, handed>>

\* The timer of error_timeout.
Retry(l) ==
  /\ at[l] = "delayed"
  /\ GoOn(l, iterations, retries, fetching)
  /\ UNCHANGED processed

\* Variant: a chunk that is processed leaves the next one to others.
WorkedLast(l) ==
  /\ at[l] = "working"
  /\ processed' = processed + Len(items[l])
  /\ Rest(l, iterations - 1)
  /\ UNCHANGED <<setting, waiting, enqueued, fetching, retries, outcome>>

\* The callbacks are over, well or with what $onCatch was told.
Worked(l) ==
  /\ at[l] = "working"
  /\ processed' = processed + Len(items[l])
  /\ GoOn(l, iterations - 1, retries, fetching)
=============================================================================
