--------------------------- MODULE StorageReaders ---------------------------
(***************************************************************************)
(* A reader that takes the records of a storage page by page and hands     *)
(* them through its PullingQueue to a pipeline (packages/pipelines/src/lib/ *)
(* reader/Reader.ts, adapters/pipeline/readers/StorageQueryReader.ts and   *)
(* StorageControllerReader.ts; the readers of the other controllers do as  *)
(* the latter).                                                            *)
(*                                                                         *)
(* Both are called by every lane of the queue, over awaits, and keep where *)
(* they are in variables of their own.  The storage is external: a result  *)
(* is the page asked for, of records that do not change.                   *)
(***************************************************************************)
EXTENDS PullingQueue, SequencesExt

CONSTANTS
  Total,    \* the number of records
  Fragile   \* whether the storage may fail

ASSUME ReadersAssumption ==
  /\ Total \in Nat /\ Fragile \in BOOLEAN
  /\ \A s \in Settings :
        s.kind \in {"query", "controller"} /\ s.size \in Nat \ {0} /\ s.max \in Nat

VARIABLES
  call,    \* per lane, what its call of hasNext() or doFetch() is at
  count,   \* count: how many records there are, if known
  offset,  \* offset of the next page; of a query reader fetchInc, the number of pages
  size,    \* size: the number of records found
  more,    \* _hasNext
  chunk    \* chunk: the page found last

readerVars == <<call, count, offset, size, more, chunk>>
vars == <<queueVars, readerVars>>

Unknown == -2
Uncounted == -1

Page(from, n) == [k \in 1..Max({0, Min({n, Total - from})}) |-> from + k]

NoCall == [at |-> "none"]
Counting == [at |-> "counting"]
Conditions(limit) == [at |-> "conditions", limit |-> limit]
Finding(limit) == [at |-> "finding", limit |-> limit, offset |-> offset]
Answered(yes) == [at |-> "answered", yes |-> yes]
Querying == [at |-> "query"]
Reading(from) == [at |-> "page", offset |-> from]
Result(data) == [at |-> "result", data |-> data]

Calling(l, next) == call' = [call EXCEPT ![l] = next]

Init ==
  /\ QueueInit
  /\ call = [l \in Lanes |-> NoCall]
  /\ count = Unknown /\ offset = 0 /\ size = 0
  /\ more = TRUE
  /\ chunk = <<>>

-----------------------------------------------------------------------------
\* hasNext()

\* StorageQueryReader, once the number n of records is known.
Decide(l, n) ==
  /\ more' = (more /\ (n > Uncounted => offset * setting.size < n))
  /\ Calling(l, Answered(more'))
  /\ UNCHANGED <<offset, size, chunk>>

\* Variant: a page may exceed the maximum.
LimitWhole == setting.size

\* What find() asks for: a page, but no more than up to maxLimit.
Limit ==
  IF size < setting.max /\ size + setting.size > setting.max
  THEN setting.max - size ELSE setting.size

\* The call up to its first await, or up to its answer.  The records are counted
\* until the count is a number; a driver may bring it as a string every time.
HasNext(l) ==
  \/ /\ setting.kind = "query"
     /\ Calling(l, Counting)
     /\ UNCHANGED <<count, offset, size, more, chunk>>
  \/ /\ setting.kind = "query" /\ count # Unknown
     /\ Decide(l, count)
     /\ UNCHANGED count
  \/ /\ setting.kind = "controller"
     /\ count' = IF setting.max > 0 /\ count > setting.max THEN setting.max ELSE count
     /\ Calling(l, Conditions(Limit))
     /\ UNCHANGED <<offset, size, more, chunk>>

\* executeCount() has the count, or does without.
Counted(l) ==
  /\ call[l].at = "counting"
  /\ \E n \in {Total} \cup (IF Fragile THEN {Uncounted} ELSE {}) : count' = n
  /\ Decide(l, count')
  /\ UNCHANGED queueVars

\* find(): the conditions are there.
Find(l) ==
  /\ call[l].at = "conditions"
  /\ more' = (count = Unknown \/ size < count)
  /\ Calling(l, IF more' THEN Finding(call[l].limit) ELSE Answered(FALSE))
  /\ UNCHANGED <<queueVars, count, offset, size, chunk>>

\* find(): the page is there.
Found(l) ==
  /\ call[l].at = "finding"
  /\ LET page == Page(call[l].offset, call[l].limit) IN
       /\ chunk' = page
       /\ size' = size + Len(page)
  /\ offset' = call[l].offset + setting.size
  /\ count' = Total
  /\ Calling(l, Answered(more))
  /\ UNCHANGED <<queueVars, more>>

FindFails(l) ==
  /\ Fragile
  /\ call[l].at = "finding"
  /\ AnswerFails(l)
  /\ Calling(l, NoCall)
  /\ UNCHANGED <<count, offset, size, more, chunk>>

-----------------------------------------------------------------------------
\* doFetch()

\* The query is there; the offset is taken now.
Query(l) ==
  /\ call[l].at = "query"
  /\ Calling(l, Reading(offset * setting.size))
  /\ UNCHANGED <<queueVars, count, offset, size, more, chunk>>

\* The page is there; an empty one is the last.
Read(l) ==
  /\ call[l].at = "page"
  /\ LET page == Page(call[l].offset, setting.size) IN
       /\ more' = (more /\ page # <<>>)
       /\ Calling(l, Result(page))
  /\ offset' = offset + 1
  /\ UNCHANGED <<queueVars, count, size, chunk>>

ReadFails(l) ==
  /\ Fragile
  /\ call[l].at = "page"
  /\ FetchFails(l)
  /\ Calling(l, NoCall)
  /\ UNCHANGED <<count, offset, size, more, chunk>>

Deliver(l) ==
  /\ call[l].at = "result"
  /\ Enqueue(l, call[l].data)
  /\ Calling(l, NoCall)
  /\ UNCHANGED <<count, offset, size, more, chunk>>

-----------------------------------------------------------------------------
\* The queue and its calls of the reader

\* The answer of hasNext() is there; if it is yes, doFetch() is called.  That of
\* a StorageControllerReader has the chunk at once.
Hear(l) ==
  /\ call[l].at = "answered"
  /\ Answer(l, call[l].yes) \/ AnswerLate(l)
  /\ Calling(l, IF at'[l] # "fetching" THEN NoCall
                ELSE IF setting.kind = "query" THEN Querying ELSE Result(chunk))
  /\ UNCHANGED <<count, offset, size, more, chunk>>

\* The steps of the queue that may lead to a call of hasNext().
Proceed(l) ==
  /\ Run(l) \/ Stored(l) \/ Retry(l) \/ Worked(l)
  /\ IF at'[l] = "asking" THEN HasNext(l) ELSE UNCHANGED readerVars

Poll(l) == Wait(l) /\ UNCHANGED readerVars

Lane(l) ==
  \/ Counted(l) \/ Find(l) \/ Found(l) \/ FindFails(l)
  \/ Query(l) \/ Read(l) \/ ReadFails(l) \/ Deliver(l)
  \/ Hear(l) \/ Proceed(l) \/ Poll(l)

Next == \E l \in Lanes : Lane(l)

Spec == Init /\ [][Next]_vars

\* Every await comes to an end, and every timer.
FairSpec == Spec /\ \A l \in Lanes : WF_vars(Lane(l))

-----------------------------------------------------------------------------
\* Correctness

Call ==
  [at : {"none", "counting", "query"}] \cup [at : {"conditions"}, limit : Nat]
    \cup [at : {"finding"}, limit : Nat, offset : Nat] \cup [at : {"answered"}, yes : BOOLEAN]
    \cup [at : {"page"}, offset : Nat] \cup [at : {"result"}, data : Seq(1..Total)]

TypeInvariant ==
  /\ setting \in Settings
  /\ at \in [Lanes -> {"start", "free", "asking", "fetching", "stored", "waiting", "delayed",
                       "working", "dead"}]
  /\ items \in [Lanes -> Seq(1..Total)]
  /\ queue \in Seq(1..Total) /\ handed \in Seq(1..Total) /\ chunk \in Seq(1..Total)
  /\ waiting \in BOOLEAN /\ more \in BOOLEAN
  /\ {fetching, iterations, retries, enqueued, processed, offset, size} \subseteq Nat
  /\ outcome \in {"no", "ok", "error"}
  /\ call \in [Lanes -> Call]
  /\ count \in {Unknown, Uncounted} \cup Nat

\* A fetch never fills the queue beyond its limit: there is one lane.
Serial == setting.size + setting.flush - 1 <= setting.limit

\* A query reader does not look at maxLimit.
Wanted ==
  Page(0, IF setting.kind = "controller" /\ setting.max > 0 THEN setting.max ELSE Total)

\* As long as a page fits the queue, each record up to maxLimit is handed on once
\* and in order, whatever fails and is tried again, and none is missing when the
\* reader finishes without an error: find() and doFetch() advance with what they
\* brought, _data() hands out the rest.
DeliveredOnce ==
  Serial => /\ IsPrefix(handed \o queue, Wanted)
            /\ outcome = "ok" => handed = Wanted

\* However many lanes there are, finish() tells success only when everything that
\* was fetched is processed and nothing is being fetched (_finish, next).
FinishedIsDone ==
  outcome = "ok" => /\ queue = <<>> /\ processed = Len(handed)
                    /\ \A l \in Lanes : at[l] \notin {"working", "fetching", "stored", "waiting"}

\* The reader finishes, with success or after too many retries, unless a find
\* fails: there is always a lane that goes on, although lanes that find nothing
\* to do just end (next, _data, _finish).
Finishes == <>(outcome # "no" \/ \E l \in Lanes : at[l] = "dead")

\* To its pipeline the reader is a Stream, however many lanes begin and end
\* independently: no more chunks in process than concurrency says, and none after
\* the end is told.
S == INSTANCE Stream WITH
       capacity <- setting.concurrency, given <- handed, busy <- iterations, ended <- outcome

ImplementsStream == S!Spec
=============================================================================
