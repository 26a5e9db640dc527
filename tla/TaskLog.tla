------------------------------- MODULE TaskLog -------------------------------
(***************************************************************************)
(* The log of one run of one task on several workers                       *)
(* (packages/tasks/src/lib/helper/TasksStorageHelper.ts; called by         *)
(* extend/TasksStorageExtension.ts for the runners of the process and by   *)
(* workers/TaskMonitorWorker.ts for the events of the others).             *)
(*                                                                         *)
(* All processes write to one database, a row per target.  The database is *)
(* external: find, save and remove are atomic, in any order between        *)
(* processes and between saves that hold different semaphores.  So is the  *)
(* semaphore: it serves in the order of asking; whether purge() turns away *)
(* those that wait is left open.                                           *)
(***************************************************************************)
EXTENDS Integers, Sequences, FiniteSets, SequencesExt

CONSTANTS
  Workers,     \* the processes that execute the run, its targets
  Monitors,    \* the processes with a TaskMonitorWorker
  Faulty,      \* the processes for which a call of the database may fail
  MaxProgress  \* bound: reports of progress per worker

ASSUME TaskLogAssumption ==
  /\ IsFiniteSet(Workers) /\ IsFiniteSet(Monitors)
  /\ Faulty \subseteq Workers \cup Monitors /\ MaxProgress \in Nat

Processes == Workers \cup Monitors

VARIABLES
  run,        \* per worker, where its runner is
  progress,   \* per worker, how often it has reported progress
  events,     \* per monitor and worker, the reports on their way
  semaphore,  \* per process, the number of the semaphore under the id of the run, or 0
  saving,     \* per process, the saves that hold a semaphore
  waiting,    \* per process and semaphore it has made, the states that wait to be saved
  timers,     \* per process, the semaphores to be cleaned up
  disturbed,  \* processes whose clean-up met a semaphore in use
  rows,       \* the rows of the run
  rowNr       \* the last number given to a row

lockVars == <<semaphore, saving, waiting, timers, disturbed>>
vars == <<run, progress, events, lockVars, rows, rowNr>>

Init ==
  /\ run = [w \in Workers |-> "new"] /\ progress = [w \in Workers |-> 0]
  /\ events = [m \in Monitors |-> [w \in Workers |-> <<>>]]
  /\ semaphore = [p \in Processes |-> 0]
  /\ saving = [p \in Processes |-> {}] /\ waiting = [p \in Processes |-> <<>>]
  /\ timers = [p \in Processes |-> <<>>] /\ disturbed = {}
  /\ rows = {} /\ rowNr = 0

-----------------------------------------------------------------------------
\* TasksStorageHelper.save

InUse(p, n) ==
  \/ \E s \in saving[p] : s.sem = n
  \/ n \in DOMAIN waiting[p] /\ waiting[p][n] # <<>>

Holding(n, state) == [sem |-> n, state |-> state, at |-> "find", found |-> {}]

\* save() of some states in one turn, up to the semaphore: one is made if there is none.
Save(p, states) ==
  LET n == IF semaphore[p] = 0 THEN Len(waiting[p]) + 1 ELSE semaphore[p]
      queues == IF semaphore[p] = 0 THEN Append(waiting[p], <<>>) ELSE waiting[p]
  IN
  /\ semaphore' = [semaphore EXCEPT ![p] = n]
  /\ \/ /\ InUse(p, n)
        /\ waiting' = [waiting EXCEPT ![p] = [queues EXCEPT ![n] = @ \o states]]
        /\ UNCHANGED saving
     \/ /\ ~ InUse(p, n)
        /\ saving' = [saving EXCEPT ![p] = @ \cup {Holding(n, Head(states))}]
        /\ waiting' = [waiting EXCEPT ![p] = [queues EXCEPT ![n] = Tail(states)]]
  /\ UNCHANGED <<timers, disturbed>>

\* Variant: the newest is served first.
ServedLast(queue) == [next |-> Last(queue), rest |-> Front(queue)]

\* Variant: the one that is served waits on.
ServedAgain(queue) == [next |-> Head(queue), rest |-> queue]

\* The first that waits is served.
Served(queue) == [next |-> Head(queue), rest |-> Tail(queue)]

\* The semaphore of save s is handed on, or cleaned up later.
Release(p, s) ==
  LET queue == waiting[p][s.sem] IN
  /\ \/ /\ queue = <<>>
        /\ saving' = [saving EXCEPT ![p] = @ \ {s}]
        /\ timers' = [timers EXCEPT ![p] = Append(@, s.sem)]
        /\ UNCHANGED waiting
     \/ /\ queue # <<>>
        /\ saving' = [saving EXCEPT ![p] = (@ \ {s}) \cup {Holding(s.sem, Served(queue).next)}]
        /\ waiting' = [waiting EXCEPT ![p][s.sem] = Served(queue).rest]
        /\ UNCHANGED timers
  /\ UNCHANGED <<semaphore, disturbed>>

Becomes(p, s, t) ==
  /\ saving' = [saving EXCEPT ![p] = (@ \ {s}) \cup {t}]
  /\ UNCHANGED <<semaphore, waiting, timers, disturbed>>

\* saveRunnerResults(): the rows of the run are read.
Find(p, s) ==
  /\ s.at = "find"
  /\ Becomes(p, s, [s EXCEPT !.at = "save", !.found = rows])
  /\ UNCHANGED <<run, progress, events, rows, rowNr>>

FoundFor(s, w) == {r \in s.found : r.target = w}
Kept(s, w) == CHOOSE r \in FoundFor(s, w) : \A q \in FoundFor(s, w) : r.row <= q.row

\* Variant: nothing is removed.
RemoveNone(s) == {}

\* Rows found beside the first of their target.
ToRemove(s) == {r.row : r \in {q \in s.found : q # Kept(s, q.target)}}

\* A target whose row has not been found.
Missing(s) == {w \in Workers : FoundFor(s, w) = {}}

\* A number for each of the rows to be made, above those there are.
NumberedAbove(n, s) ==
  LET order == CHOOSE o \in Bijection(1 .. Cardinality(Missing(s)), Missing(s)) : TRUE IN
  {[row |-> n + k, target |-> order[k], state |-> s.state] : k \in 1 .. Cardinality(Missing(s))}

NewRows(s) == NumberedAbove(rowNr, s)

\* What one worker reports is written to the rows of all targets.
Written(s) == {[Kept(s, w) EXCEPT !.state = s.state] : w \in Workers \ Missing(s)}

Store(p, s) ==
  /\ s.at = "save"
  /\ rows' = {r \in rows : \A q \in Written(s) : q.row # r.row} \cup Written(s) \cup NewRows(s)
  /\ rowNr' = rowNr + Cardinality(Missing(s))
  /\ IF ToRemove(s) = {} THEN Release(p, s) ELSE Becomes(p, s, [s EXCEPT !.at = "remove"])
  /\ UNCHANGED <<run, progress, events>>

Discard(p, s) ==
  /\ s.at = "remove"
  /\ rows' = {r \in rows : r.row \notin ToRemove(s)}
  /\ Release(p, s)
  /\ UNCHANGED <<run, progress, events, rowNr>>

\* A call of the database is rejected: the semaphore is not released.
Fail(p, s) ==
  /\ p \in Faulty /\ s.at \in {"find", "save", "remove"}
  /\ Becomes(p, s, [s EXCEPT !.at = "failed"])
  /\ UNCHANGED <<run, progress, events, rows, rowNr>>

\* The timer of a semaphore: it is purged, and whatever is kept under the id is dropped.
Cleanup(p) ==
  /\ timers[p] # <<>>
  /\ LET n == Head(timers[p]) IN
       /\ \/ UNCHANGED waiting
          \/ waiting' = [waiting EXCEPT ![p][n] = <<>>]
       /\ disturbed' = IF InUse(p, n) \/ InUse(p, semaphore[p]) THEN disturbed \cup {p} ELSE disturbed
  /\ timers' = [timers EXCEPT ![p] = Tail(@)]
  /\ semaphore' = [semaphore EXCEPT ![p] = 0]
  /\ UNCHANGED <<run, progress, events, saving, rows, rowNr>>

-----------------------------------------------------------------------------
\* The runners and the monitors

GoesTo(w, from, to) == run[w] = from /\ run' = [run EXCEPT ![w] = to]

\* fireState(): the report is on its way to the monitors of other processes.
Post(w, state) ==
  events' = [m \in Monitors |->
               IF m = w THEN events[m] ELSE [events[m] EXCEPT ![w] = Append(@, state)]]

\* TaskQueueWorker.do() posts that it starts.
Started(w) ==
  /\ GoesTo(w, "new", "started") /\ Post(w, "started")
  /\ UNCHANGED <<progress, lockVars, rows, rowNr>>

\* onBefore and, with the first run that next() starts, onStart.
Begin(w) ==
  /\ GoesTo(w, "started", "running")
  /\ Save(w, <<"started", "running">>)
  /\ UNCHANGED <<progress, events, rows, rowNr>>

\* update(): onProgress and an event.
Update(w) ==
  /\ GoesTo(w, "running", "running") /\ progress[w] < MaxProgress
  /\ progress' = [progress EXCEPT ![w] = @ + 1]
  /\ Save(w, <<"running">>) /\ Post(w, "running")
  /\ UNCHANGED <<rows, rowNr>>

\* onStop and, with finish(), onAfter.
Stop(w) ==
  /\ GoesTo(w, "running", "stopped")
  /\ Save(w, <<"running", "stopped">>)
  /\ UNCHANGED <<progress, events, rows, rowNr>>

\* After run() has returned.
Over(w) ==
  /\ GoesTo(w, "stopped", "over") /\ Post(w, "stopped")
  /\ UNCHANGED <<progress, lockVars, rows, rowNr>>

\* TaskMonitorWorker: an event of a worker is saved.
Monitor(m, w) ==
  /\ events[m][w] # <<>>
  /\ events' = [events EXCEPT ![m][w] = Tail(@)]
  /\ Save(m, <<Head(events[m][w])>>)
  /\ UNCHANGED <<run, progress, rows, rowNr>>

Saving(p) == \E s \in saving[p] : Find(p, s) \/ Store(p, s) \/ Discard(p, s)

Next ==
  \/ \E w \in Workers : Started(w) \/ Begin(w) \/ Update(w) \/ Stop(w) \/ Over(w)
  \/ \E m \in Monitors, w \in Workers : Monitor(m, w)
  \/ \E p \in Processes : Saving(p) \/ Cleanup(p) \/ \E s \in saving[p] : Fail(p, s)

Spec == Init /\ [][Next]_vars

\* The calls of the database return.  Every behaviour is finite, so that weak
\* fairness of the disjunction is that of each of its saves.
FairSpec == Spec /\ \A p \in Processes : WF_vars(Saving(p))

-----------------------------------------------------------------------------
\* Correctness

States == {"started", "running", "stopped"}
Row == [row : 1 .. rowNr, target : Workers, state : States]
Holder ==
  [sem : Nat, state : States, at : {"find", "save", "remove", "failed"}, found : SUBSET Row]

TypeInvariant ==
  /\ run \in [Workers -> {"new", "started", "running", "stopped", "over"}]
  /\ progress \in [Workers -> 0 .. MaxProgress]
  /\ events \in [Monitors -> [Workers -> Seq(States)]]
  /\ rowNr \in Nat /\ rows \subseteq Row
  /\ waiting \in [Processes -> Seq(Seq(States))]
  /\ semaphore \in [Processes -> Nat] /\ timers \in [Processes -> Seq(Nat)]
  /\ saving \in [Processes -> SUBSET Holder] /\ disturbed \subseteq Processes
  /\ \A p \in Processes :
       /\ semaphore[p] \in {0} \cup DOMAIN waiting[p]
       /\ \A k \in DOMAIN timers[p] : timers[p][k] \in DOMAIN waiting[p]
       /\ \A s \in saving[p] : s.sem \in DOMAIN waiting[p]

\* All has been reported and saved, without a failure.
Quiet ==
  /\ \A w \in Workers : run[w] = "over"
  /\ \A m \in Monitors, w \in Workers : events[m][w] = <<>>
  /\ \A p \in Processes : saving[p] = {} /\ \A k \in DOMAIN waiting[p] : waiting[p][k] = <<>>

\* saveRunnerResults() removes what it finds beside the first row of a target: in the
\* end there is one row per target, although the first saves of two processes may
\* both find none and make one each.
OneRowPerTarget ==
  Quiet => \A w \in Workers : Cardinality({r \in rows : r.target = w}) = 1

\* The rows of all targets are written by all processes, each from what it found
\* before.  Whoever saves last, in the end the log says that the run has stopped;
\* unless a clean-up has taken a semaphore from under a save (the timer in save()).
LogSaysStopped ==
  Quiet /\ disturbed = {} => \A r \in rows : r.state = "stopped"

\* The semaphore is handed on: every save comes to its end, except one that is rejected by
\* the database and those that wait for its semaphore.
SavesEnd ==
  <>[](\A p \in Processes :
         /\ \A s \in saving[p] : s.at = "failed"
         /\ \A k \in DOMAIN waiting[p] : waiting[p][k] # <<>> => \E s \in saving[p] : s.sem = k)

-----------------------------------------------------------------------------
\* The abstract specification

NumbersOf(w) == {r.row : r \in {q \in rows : q.target = w}}
Entry == [w \in Workers |-> IF NumbersOf(w) = {} THEN 0 ELSE Min(NumbersOf(w))]
Spare == {r.row : r \in {q \in rows : q.row # Entry[q.target]}}
Unfinished == {r.target : r \in {q \in rows : q.row = Entry[q.target] /\ q.state # "stopped"}}

Book == INSTANCE Ledger WITH
          Owners <- Workers, entry <- Entry, spare <- Spare, last <- rowNr,
          unfinished <- Unfinished, closed <- Quiet, spoilt <- disturbed # {}

\* The row of a target is made once and stays the row of the target until the log is
\* complete, although every process looks for it and writes it on its own; what a process has
\* made too late is removed; and a complete log is not changed any more.
ImplementsLedger == Book!Spec
=============================================================================
