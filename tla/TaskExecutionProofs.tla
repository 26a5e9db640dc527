------------------------- MODULE TaskExecutionProofs -------------------------
(***************************************************************************)
(* Proofs about TaskExecution for any workers, executions, targets and     *)
(* limits: what the caller is told of its task is true, whatever was       *)
(* refused, failed, dropped or came late.                                  *)
(***************************************************************************)
EXTENDS TaskExecution, FiniteSetTheorems, TLAPS

\* Accepted, whatever has come of it since.
Taken == {"accepted", "queued", "running", "ended", "dropped"}

\* What event e says of the work of w at x.
Says(x, w, e) ==
  /\ e = "request_error" => work[w][x] = "refused"
  /\ e = "enqueue" => work[w][x] \in Taken
  /\ e = "started" => work[w][x] \in {"running", "ended"}
  /\ e \in {"stopped", "errored"} => work[w][x] = "ended"

\* A proposal is open or worked on, at those it was sent to, and before it is made there
\* is nothing of it.
Proposed ==
  /\ \A p \in proposals : p.w \in msgs[p.x].sent /\ work[p.w][p.x] = "none"
  /\ \A x \in Executions : \A w \in Workers : work[w][x] # "none" => w \in msgs[x].sent
  /\ \A x \in Executions : phase[x] = "new" => msgs[x] = Fresh /\ future[x] = NoFuture

\* What waits in a queue waits there once and has not been started.
Queued ==
  \A w \in Workers : \A k \in DOMAIN queue[w] :
    /\ work[w][queue[w][k]] = "queued"
    /\ \A l \in DOMAIN queue[w] : queue[w][k] = queue[w][l] => k = l

\* The events on the bus say what is so, and nothing follows the end of a task.
EventsTrue ==
  \A x \in Executions : \A w \in Workers : \A i \in DOMAIN events[x][w] :
    /\ Says(x, w, events[x][w][i])
    /\ events[x][w][i] = "stopped" => i = Len(events[x][w])

TrueAnswers(x, answers) ==
  \A i \in DOMAIN answers :
    /\ answers[i].node \in msgs[x].sent /\ answers[i].state \in Passing
    /\ Says(x, answers[i].node, answers[i].state)

AnswersTrue ==
  \A x \in Executions : TrueAnswers(x, msgs[x].responses) /\ TrueAnswers(x, msgs[x].result)

\* What the future has heard is so, and it hears no more of a worker that has stopped.
HeardTrue ==
  \A x \in Executions : \A w \in DOMAIN future[x].states :
    /\ Says(x, w, future[x].states[w])
    /\ future[x].states[w] = "stopped" => events[x][w] = <<>>

Stopped(f) == {w \in DOMAIN f.states : f.states[w] = "stopped"}

\* A future that is closed, but not by a refusal, has heard of somebody, and of nobody
\* but the end.
Closed ==
  \A x \in Executions :
    /\ future[x].results = Stopped(future[x])
    /\ phase[x] \in {"waits", "awaits", "results"} /\ ~ future[x].open
         => DOMAIN future[x].states # {} /\ IsFinished(future[x].states)
    /\ phase[x] = "results" => ~ future[x].open

ExecutionInv ==
  /\ TypeOK /\ Proposed /\ Queued /\ EventsTrue /\ AnswersTrue /\ HeardTrue /\ Closed
  /\ AnswerIsTrue
-----------------------------------------------------------------------------
\* Work goes one way

WorkTypes == {"none", "refused", "accepted", "queued", "running", "ended", "dropped"}

Onward(a, b) ==
  \/ a = b
  \/ <<a, b>> \in {<<"none", "refused">>, <<"none", "accepted">>, <<"accepted", "queued">>,
                   <<"queued", "running">>, <<"queued", "dropped">>, <<"running", "ended">>}

LEMMA WorkOf ==
  ASSUME TypeOK, NEW x \in Executions, NEW w \in Workers, NEW to \in WorkTypes,
         work' = [work EXCEPT ![w][x] = to]
  PROVE  /\ work' \in [Workers -> [Executions -> WorkTypes]] /\ work'[w][x] = to
         /\ \A y \in Executions : \A v \in Workers : y # x \/ v # w => work'[v][y] = work[v][y]
  BY DEF TypeOK, WorkTypes

\* The events of w at x become s, all others stay.
EventsBecome(x, w, s) == events' = [events EXCEPT ![x][w] = s]

EventsAre(x, w, s) ==
  /\ events' \in [Executions -> [Workers -> Seq(States)]] /\ events'[x][w] = s
  /\ \A y \in Executions : \A v \in Workers : y # x \/ v # w => events'[y][v] = events[y][v]

LEMMA EventsOf ==
  ASSUME TypeOK, NEW x \in Executions, NEW w \in Workers, NEW s \in Seq(States),
         EventsBecome(x, w, s)
  PROVE  EventsAre(x, w, s)
  BY DEF TypeOK, EventsBecome, EventsAre

\* What was said of a work stays so while it goes on.
LEMMA SaysOn ==
  ASSUME NEW x, NEW w, NEW e \in States, Says(x, w, e), Onward(work[w][x], work'[w][x])
  PROVE  Says(x, w, e)'
  BY DEF Says, Onward, Taken, States

\* Events, of which the last may be the end.
LEMMA EventsGrow ==
  ASSUME NEW s \in Seq(States), NEW e \in States,
         \A i \in DOMAIN s : s[i] # "stopped"
  PROVE  /\ Append(s, e) \in Seq(States)
         /\ DOMAIN Append(s, e) = 1 .. Len(s) + 1 /\ Len(Append(s, e)) = Len(s) + 1
         /\ Len(s) \in Nat /\ DOMAIN s = 1 .. Len(s)
         /\ \A i \in DOMAIN Append(s, e) :
              \/ i \in DOMAIN s /\ Append(s, e)[i] = s[i] /\ s[i] # "stopped"
              \/ i = Len(s) + 1 /\ Append(s, e)[i] = e
  OBVIOUS

LEMMA EventsTaken ==
  ASSUME NEW s \in Seq(States), s # <<>>
  PROVE  /\ Head(s) = s[1] /\ 1 \in DOMAIN s /\ Head(s) \in States
         /\ Tail(s) \in Seq(States) /\ Len(Tail(s)) = Len(s) - 1 /\ Len(s) \in Nat
         /\ DOMAIN Tail(s) = 1 .. Len(s) - 1
         /\ \A i \in DOMAIN Tail(s) : i + 1 \in DOMAIN s /\ Tail(s)[i] = s[i + 1]
         /\ Len(s) = 1 => Tail(s) = <<>>
  <1>1. /\ Head(s) = s[1] /\ 1 \in DOMAIN s /\ Head(s) \in States
        /\ Tail(s) \in Seq(States) /\ Len(Tail(s)) = Len(s) - 1 /\ Len(s) \in Nat
        /\ DOMAIN Tail(s) = 1 .. Len(s) - 1
    OBVIOUS
  <1>2. \A i \in DOMAIN Tail(s) : i + 1 \in DOMAIN s /\ Tail(s)[i] = s[i + 1]
    OBVIOUS
  <1>3. ASSUME Len(s) = 1 PROVE Tail(s) = <<>>
    <2>1. Len(Tail(s)) = 0
      BY <1>1, <1>3
    <2>2. \A t \in Seq(States) : Len(t) = 0 => t = <<>>
      OBVIOUS
    <2> QED
      BY <1>1, <2>1, <2>2, Zenon
  <1> QED
    BY <1>1, <1>2, <1>3

-----------------------------------------------------------------------------
\* The caller's part of the state stays while workers work

\* What a worker's step keeps, seen from outside: the caller hears nothing, work goes on,
\* and who has been told to have stopped posts nothing.
Outside ==
  /\ UNCHANGED <<msgs, phase, future>>
  /\ \A x \in Executions : \A w \in Workers : Onward(work[w][x], work'[w][x])
  /\ \A x \in Executions : \A w \in Workers :
        work[w][x] \in {"none", "ended"} /\ work'[w][x] = work[w][x] => events'[x][w] = events[x][w]

LEMMA OutsideKeeps ==
  ASSUME ExecutionInv, Outside
  PROVE  (AnswersTrue /\ HeardTrue /\ Closed /\ AnswerIsTrue)'
  <1> USE DEF ExecutionInv
  <1>1. AnswersTrue'
    <2> SUFFICES ASSUME NEW x \in Executions, NEW answers \in {msgs[x].responses, msgs[x].result},
                        NEW i \in DOMAIN answers
                 PROVE  /\ answers[i].node \in msgs[x].sent /\ answers[i].state \in Passing
                        /\ Says(x, answers[i].node, answers[i].state)'
      BY DEF AnswersTrue, TrueAnswers, Outside
    <2>1. msgs[x] \in Message
      BY DEF TypeOK
    <2>2. answers \in Seq(Answers) /\ msgs[x].sent \subseteq Workers
      BY <2>1 DEF Message
    <2>3. answers[i] \in Answers
      BY <2>2
    <2>4. /\ answers[i].node \in msgs[x].sent /\ answers[i].state \in Passing
          /\ Says(x, answers[i].node, answers[i].state)
      BY DEF AnswersTrue, TrueAnswers
    <2>5. answers[i].node \in Workers /\ answers[i].state \in States
      BY <2>3 DEF Answers
    <2> QED
      BY <2>4, <2>5, SaysOn DEF Outside
  <1>2. HeardTrue'
    <2> SUFFICES ASSUME NEW x \in Executions, NEW w \in DOMAIN future[x].states
                 PROVE  /\ Says(x, w, future[x].states[w])'
                        /\ future[x].states[w] = "stopped" => events'[x][w] = <<>>
      BY DEF HeardTrue, Outside
    <2>1. w \in Workers /\ future[x].states[w] \in States
      BY DEF TypeOK, Heard
    <2>2. /\ Says(x, w, future[x].states[w])
          /\ future[x].states[w] = "stopped" => events[x][w] = <<>>
      BY DEF HeardTrue
    <2>3. Says(x, w, future[x].states[w])'
      <3> DEFINE e == future[x].states[w]
      <3>1. e' = e
        BY DEF Outside
      <3> HIDE DEF e
      <3>2. \A d \in States : Says(x, w, d) => Says(x, w, d)'
        BY <2>1, SaysOn DEF Outside
      <3>3. Says(x, w, e)
        BY <2>2 DEF e
      <3>4. e \in States
        BY <2>1 DEF e
      <3>5. PICK d \in States : d = e
        BY <3>4
      <3>6. Says(x, w, d)'
        BY <3>2, <3>3, <3>5
      <3>7. Says(x, w, e)'
        BY <3>1, <3>5, <3>6
      <3> QED
        BY <3>7 DEF e
    <2>4. future[x].states[w] = "stopped" => events'[x][w] = <<>>
      BY <2>1, <2>2 DEF Outside, Says, Onward
    <2> QED
      BY <2>3, <2>4
  <1>3. Closed'
    BY DEF Closed, Outside, Stopped, IsFinished
  <1>4. AnswerIsTrue'
    <2> SUFFICES ASSUME NEW x \in Executions
                 PROVE  /\ phase[x] \in {"accepted", "awaits", "results"} =>
                             \E w \in msgs[x].sent : work'[w][x] \in Taken
                        /\ phase[x] = "refused" => \E w \in msgs[x].sent : work'[w][x] = "refused"
      BY DEF AnswerIsTrue, Outside, Taken
    <2>1. msgs[x].sent \subseteq Workers
      BY DEF TypeOK, Message
    <2>2. \A w \in Workers : /\ work[w][x] \in Taken => work'[w][x] \in Taken
                             /\ work[w][x] = "refused" => work'[w][x] = "refused"
      BY DEF Outside, Onward, Taken
    <2>3. /\ phase[x] \in {"accepted", "awaits", "results"} =>
                             \E w \in msgs[x].sent : work[w][x] \in Taken
          /\ phase[x] = "refused" => \E w \in msgs[x].sent : work[w][x] = "refused"
      BY DEF AnswerIsTrue, Taken
    <2> QED
      BY <2>1, <2>2, <2>3
  <1> QED
    BY <1>1, <1>2, <1>3, <1>4

-----------------------------------------------------------------------------
\* The workers' steps

\* What an event says, of a work that has come to stage a.
Fits(a, e) ==
  /\ e = "request_error" => a = "refused"
  /\ e = "enqueue" => a \in Taken
  /\ e = "started" => a \in {"running", "ended"}
  /\ e \in {"stopped", "errored"} => a = "ended"

\* The work of w at x goes on to a new stage, and what w has posted of x and nobody has
\* been told of is now s.
WorksTo(x, w, to, s) ==
  /\ Onward(work[w][x], to) /\ to # work[w][x]
  /\ work' = [work EXCEPT ![w][x] = to]
  /\ events' = [events EXCEPT ![x][w] = s]
  /\ UNCHANGED <<msgs, phase, future>>
  /\ \A i \in DOMAIN s :
       /\ (i \in DOMAIN events[x][w] /\ s[i] = events[x][w][i]) \/ Fits(to, s[i])
       /\ s[i] = "stopped" => i = Len(s)

\* What then holds, and whose work has changed.
WorkKept(x, w, to) ==
  /\ (EventsTrue /\ AnswersTrue /\ HeardTrue /\ Closed /\ AnswerIsTrue)'
  /\ events' \in [Executions -> [Workers -> Seq(States)]]
  /\ work' \in [Workers -> [Executions -> WorkTypes]]
  /\ work'[w][x] = to
  /\ \A y \in Executions : \A v \in Workers : y # x \/ v # w => work'[v][y] = work[v][y]

LEMMA Worked ==
  ASSUME ExecutionInv, NEW x \in Executions, NEW w \in Workers, NEW to \in WorkTypes,
         NEW s \in Seq(States), WorksTo(x, w, to, s)
  PROVE  WorkKept(x, w, to)
  <1> USE DEF ExecutionInv, WorksTo
  <1>1. /\ work' \in [Workers -> [Executions -> WorkTypes]] /\ work'[w][x] = to
        /\ \A y \in Executions : \A v \in Workers : y # x \/ v # w => work'[v][y] = work[v][y]
    BY WorkOf
  <1>2. /\ events' \in [Executions -> [Workers -> Seq(States)]] /\ events'[x][w] = s
        /\ \A y \in Executions : \A v \in Workers : y # x \/ v # w => events'[y][v] = events[y][v]
    <2>1. TypeOK /\ EventsBecome(x, w, s)
      BY DEF EventsBecome
    <2>2. EventsAre(x, w, s)
      BY ONLY <2>1, EventsOf
    <2> QED
      BY <2>2 DEF EventsAre
  <1>3. \A y \in Executions : \A v \in Workers : Onward(work[v][y], work'[v][y])
    BY <1>1 DEF Onward
  <1>4. Outside
    BY <1>1, <1>2, <1>3 DEF Outside
  <1>5. ASSUME NEW y \in Executions, NEW v \in Workers, NEW e \in States, Says(y, v, e)
        PROVE  Says(y, v, e)'
    BY <1>3, <1>5, SaysOn
  <1>6. EventsTrue'
    <2> SUFFICES ASSUME NEW y \in Executions, NEW v \in Workers, NEW i \in DOMAIN events'[y][v],
                        NEW e \in States, e = events'[y][v][i]
                 PROVE  /\ Says(y, v, e)'
                        /\ e = "stopped" => i = Len(events'[y][v])
      <3>1. \A y \in Executions : \A v \in Workers : \A i \in DOMAIN events'[y][v] :
               events'[y][v][i] \in States
        BY <1>2
      <3> QED
        BY <3>1 DEF EventsTrue
    <2>1. CASE y = x /\ v = w
      <3>1. CASE i \in DOMAIN events[x][w] /\ e = events[x][w][i]
        <4>1. Says(y, v, e)
          BY <2>1, <3>1 DEF EventsTrue
        <4> QED
          BY <1>2, <1>5, <2>1, <4>1
      <3>2. CASE Fits(to, e)
        BY <1>1, <1>2, <2>1, <3>2 DEF Fits, Says
      <3> QED
        BY <1>2, <2>1, <3>1, <3>2
    <2>2. CASE y # x \/ v # w
      <3>1. Says(y, v, e) /\ (e = "stopped" => i = Len(events[y][v]))
        BY <1>2, <2>2 DEF EventsTrue
      <3> QED
        BY <1>2, <1>5, <2>2, <3>1
    <2> QED
      BY <2>1, <2>2
  <1> QED
    BY <1>1, <1>2, <1>4, <1>6, OutsideKeeps DEF WorkKept

\* Nothing has been posted that a work at this stage excludes.
LEMMA PostedSoFar ==
  ASSUME ExecutionInv, NEW x \in Executions, NEW w \in Workers
  PROVE  /\ events[x][w] \in Seq(States)
         /\ work[w][x] # "ended" => \A i \in DOMAIN events[x][w] : events[x][w][i] # "stopped"
         /\ work[w][x] = "none" => events[x][w] = <<>>
  <1>1. events[x][w] \in Seq(States)
    BY DEF ExecutionInv, TypeOK
  <1>2. \A i \in DOMAIN events[x][w] : Says(x, w, events[x][w][i]) /\ events[x][w][i] \in States
    BY <1>1 DEF ExecutionInv, EventsTrue
  <1>3. work[w][x] # "ended" => \A i \in DOMAIN events[x][w] : events[x][w][i] # "stopped"
    BY <1>2 DEF Says
  <1>4. ASSUME work[w][x] = "none" PROVE events[x][w] = <<>>
    <2>1. \A i \in DOMAIN events[x][w] : FALSE
      BY <1>2, <1>4 DEF Says, States, Taken
    <2>2. \A t \in Seq(States) : t # <<>> => 1 \in DOMAIN t
      OBVIOUS
    <2> QED
      BY <1>1, <2>1, <2>2
  <1> QED
    BY <1>1, <1>3, <1>4

\* A worker goes on and posts one event.
LEMMA WorkedAndPosted ==
  ASSUME ExecutionInv, NEW x \in Executions, NEW w \in Workers, NEW to \in WorkTypes,
         NEW e \in States, Fits(to, e), work[w][x] # "ended",
         Onward(work[w][x], to), to # work[w][x],
         work' = [work EXCEPT ![w][x] = to],
         Fire(x, w, e), UNCHANGED <<msgs, phase, future>>
  PROVE  WorkKept(x, w, to)
  <1> DEFINE s == Append(events[x][w], e)
  <1>1. events' = [events EXCEPT ![x][w] = s]
    BY DEF Fire
  <1>2. /\ events[x][w] \in Seq(States)
        /\ \A i \in DOMAIN events[x][w] : events[x][w][i] # "stopped"
    BY PostedSoFar
  <1>3. /\ s \in Seq(States) /\ Len(s) = Len(events[x][w]) + 1
        /\ \A i \in DOMAIN s :
             \/ i \in DOMAIN events[x][w] /\ s[i] = events[x][w][i] /\ s[i] # "stopped"
             \/ i = Len(events[x][w]) + 1 /\ s[i] = e
    BY <1>2, EventsGrow
  <1> HIDE DEF s
  <1>4. \A i \in DOMAIN s :
          /\ (i \in DOMAIN events[x][w] /\ s[i] = events[x][w][i]) \/ Fits(to, s[i])
          /\ s[i] = "stopped" => i = Len(s)
    BY <1>3
  <1>5. WorksTo(x, w, to, s)
    BY <1>1, <1>4 DEF WorksTo
  <1> QED
    BY <1>3, <1>5, Worked

\* A worker goes on and posts nothing.
LEMMA WorkedQuietly ==
  ASSUME ExecutionInv, NEW x \in Executions, NEW w \in Workers, NEW to \in WorkTypes,
         work[w][x] # "ended", Onward(work[w][x], to), to # work[w][x],
         work' = [work EXCEPT ![w][x] = to],
         UNCHANGED <<msgs, phase, future, events>>
  PROVE  WorkKept(x, w, to)
  <1> DEFINE s == events[x][w]
  <1>1. /\ s \in Seq(States)
        /\ \A i \in DOMAIN s : s[i] # "stopped"
    BY PostedSoFar
  <1>2. events \in [Executions -> [Workers -> Seq(States)]]
    BY DEF ExecutionInv, TypeOK
  <1>3. events' = [events EXCEPT ![x][w] = s]
    BY <1>2
  <1>4. \A i \in DOMAIN s :
          /\ (i \in DOMAIN events[x][w] /\ s[i] = events[x][w][i]) \/ Fits(to, s[i])
          /\ s[i] = "stopped" => i = Len(s)
    BY <1>1
  <1>5. WorksTo(x, w, to, s)
    BY <1>3, <1>4 DEF WorksTo
  <1> HIDE DEF s
  <1> QED
    BY <1>1, <1>5, Worked

\* A worker posts the error twice.
LEMMA WorkedAndFailed ==
  ASSUME ExecutionInv, NEW x \in Executions, NEW w \in Workers, work[w][x] = "running",
         Fail(x, w)
  PROVE  WorkKept(x, w, "ended")
  <1> DEFINE s == events[x][w] \o <<"errored", "errored">>
  <1>1. /\ work' = [work EXCEPT ![w][x] = "ended"] /\ events' = [events EXCEPT ![x][w] = s]
        /\ UNCHANGED <<msgs, phase, future>>
    BY DEF Fail
  <1>2. /\ events[x][w] \in Seq(States)
        /\ \A i \in DOMAIN events[x][w] : events[x][w][i] # "stopped"
    BY PostedSoFar
  <1>3. \A t \in Seq(States) :
          /\ t \o <<"errored", "errored">> \in Seq(States)
          /\ \A i \in DOMAIN (t \o <<"errored", "errored">>) :
               \/ i \in DOMAIN t /\ (t \o <<"errored", "errored">>)[i] = t[i]
               \/ (t \o <<"errored", "errored">>)[i] = "errored"
    BY DEF States
  <1>4. /\ s \in Seq(States)
        /\ \A i \in DOMAIN s : \/ i \in DOMAIN events[x][w] /\ s[i] = events[x][w][i] /\ s[i] # "stopped"
                               \/ s[i] = "errored"
    BY <1>2, <1>3
  <1> HIDE DEF s
  <1>5. Fits("ended", "errored")
    BY DEF Fits
  <1>6. \A i \in DOMAIN s :
          /\ (i \in DOMAIN events[x][w] /\ s[i] = events[x][w][i]) \/ Fits("ended", s[i])
          /\ s[i] = "stopped" => i = Len(s)
    BY <1>4, <1>5
  <1>7. "ended" \in WorkTypes /\ Onward(work[w][x], "ended") /\ "ended" # work[w][x]
    BY DEF WorkTypes, Onward
  <1>8. WorksTo(x, w, "ended", s)
    BY <1>1, <1>6, <1>7 DEF WorksTo
  <1> QED
    BY <1>4, <1>7, <1>8, Worked

\* The proposals left, and who they were sent to.
LEMMA ProposedKept ==
  ASSUME ExecutionInv, NEW x \in Executions, NEW w \in Workers,
         w \in msgs[x].sent, proposals' \subseteq proposals, [x |-> x, w |-> w] \notin proposals',
         UNCHANGED <<msgs, phase, future>>,
         \A y \in Executions : \A v \in Workers : y # x \/ v # w => work'[v][y] = work[v][y]
  PROVE  Proposed'
  <1> USE DEF ExecutionInv
  <1>1. ASSUME NEW p \in proposals' PROVE p.w \in msgs'[p.x].sent /\ work'[p.w][p.x] = "none"
    <2>1. p \in proposals /\ p \in [x : Executions, w : Workers]
      BY <1>1 DEF TypeOK
    <2>2. p.x # x \/ p.w # w
      BY <1>1, <2>1
    <2> QED
      BY <2>1, <2>2 DEF Proposed
  <1>2. \A y \in Executions : \A v \in Workers : work'[v][y] # "none" => v \in msgs'[y].sent
    BY DEF Proposed
  <1>3. \A y \in Executions : phase'[y] = "new" => msgs'[y] = Fresh /\ future'[y] = NoFuture
    BY DEF Proposed
  <1> QED
    BY <1>1, <1>2, <1>3 DEF Proposed

\* The queues, when what changes does not wait in one.
LEMMA QueuedKept ==
  ASSUME ExecutionInv, NEW x \in Executions, NEW w \in Workers, work[w][x] # "queued",
         UNCHANGED queue,
         \A y \in Executions : \A v \in Workers : y # x \/ v # w => work'[v][y] = work[v][y]
  PROVE  Queued'
  <1> SUFFICES ASSUME NEW v \in Workers, NEW k \in DOMAIN queue[v]
               PROVE  work'[v][queue[v][k]] = "queued"
    BY DEF ExecutionInv, Queued
  <1>1. queue[v][k] \in Executions /\ work[v][queue[v][k]] = "queued"
    BY DEF ExecutionInv, TypeOK, Queued
  <1> QED
    BY <1>1

\* The queue of a worker loses its head.
LEMMA QueueTaken ==
  ASSUME ExecutionInv, NEW w \in Workers, queue[w] # <<>>, queue' = [queue EXCEPT ![w] = Tail(@)],
         \A y \in Executions : \A v \in Workers : y # Head(queue[w]) \/ v # w => work'[v][y] = work[v][y]
  PROVE  /\ Head(queue[w]) \in Executions /\ work[w][Head(queue[w])] = "queued"
         /\ queue' \in [Workers -> Seq(Executions)]
         /\ Queued'
  <1> USE DEF ExecutionInv
  <1>1. queue[w] \in Seq(Executions)
    BY DEF TypeOK
  <1>2. \A s \in Seq(Executions) : s # <<>> =>
           /\ Head(s) = s[1] /\ 1 \in DOMAIN s /\ Tail(s) \in Seq(Executions)
           /\ \A i \in DOMAIN Tail(s) : i + 1 \in DOMAIN s /\ Tail(s)[i] = s[i + 1] /\ i \in Nat \ {0}
    OBVIOUS
  <1>3. /\ Head(queue[w]) = queue[w][1] /\ 1 \in DOMAIN queue[w] /\ Tail(queue[w]) \in Seq(Executions)
        /\ \A i \in DOMAIN Tail(queue[w]) :
             i + 1 \in DOMAIN queue[w] /\ Tail(queue[w])[i] = queue[w][i + 1] /\ i \in Nat \ {0}
    BY <1>1, <1>2
  <1>4. Head(queue[w]) \in Executions /\ work[w][Head(queue[w])] = "queued"
    BY <1>1, <1>3 DEF Queued
  <1>5. /\ queue' \in [Workers -> Seq(Executions)] /\ queue'[w] = Tail(queue[w])
        /\ \A v \in Workers \ {w} : queue'[v] = queue[v]
    BY <1>3 DEF TypeOK
  <1>6. ASSUME NEW v \in Workers, NEW k \in DOMAIN queue'[v]
        PROVE  /\ work'[v][queue'[v][k]] = "queued"
               /\ \A l \in DOMAIN queue'[v] : queue'[v][k] = queue'[v][l] => k = l
    <2>1. CASE v # w
      <3>1. queue[v][k] \in Executions /\ work[v][queue[v][k]] = "queued"
        BY <1>5, <1>6, <2>1 DEF TypeOK, Queued
      <3> QED
        BY <1>5, <1>6, <2>1, <3>1 DEF Queued
    <2>2. CASE v = w
      <3>1. queue'[w][k] = queue[w][k + 1] /\ k + 1 \in DOMAIN queue[w] /\ k \in Nat \ {0}
        BY <1>3, <1>5, <1>6, <2>2
      <3>2. queue[w][k + 1] # Head(queue[w])
        <4>1. k + 1 # 1
          BY <3>1
        <4> QED
          BY <1>3, <3>1, <4>1 DEF Queued
      <3>3. queue[w][k + 1] \in Executions /\ work[w][queue[w][k + 1]] = "queued"
        BY <1>1, <3>1 DEF Queued
      <3>4. ASSUME NEW l \in DOMAIN queue'[w], queue'[w][k] = queue'[w][l] PROVE k = l
        <4>1. queue'[w][l] = queue[w][l + 1] /\ l + 1 \in DOMAIN queue[w] /\ l \in Nat \ {0}
          BY <1>3, <1>5, <3>4
        <4>2. k + 1 = l + 1
          BY <3>1, <3>4, <4>1 DEF Queued
        <4> QED
          BY <3>1, <4>1, <4>2
      <3> QED
        BY <2>2, <3>1, <3>2, <3>3, <3>4
    <2> QED
      BY <2>1, <2>2
  <1> QED
    BY <1>4, <1>5, <1>6 DEF Queued

-----------------------------------------------------------------------------
\* Each step keeps the invariant

LEMMA AcceptKeeps ==
  ASSUME ExecutionInv, NEW x \in Executions, NEW w \in Workers, Accept(x, w)
  PROVE  ExecutionInv'
  <1> USE DEF ExecutionInv
  <1>1. /\ [x |-> x, w |-> w] \in proposals /\ proposals' = proposals \ {[x |-> x, w |-> w]}
        /\ UNCHANGED <<msgs, phase, future, queue>>
    BY DEF Accept
  <1>2. work[w][x] = "none" /\ w \in msgs[x].sent
    BY <1>1 DEF Proposed
  <1>3. PICK to \in {"refused", "accepted"}, e \in {"request_error", "enqueue"} :
           /\ Fire(x, w, e) /\ work' = [work EXCEPT ![w][x] = to]
           /\ e = "request_error" <=> to = "refused"
    BY DEF Accept
  <1>4. to \in WorkTypes /\ e \in States /\ Fits(to, e) /\ Onward(work[w][x], to) /\ to # work[w][x]
    BY <1>2, <1>3 DEF WorkTypes, States, Fits, Onward, Taken
  <1>5. /\ (EventsTrue /\ AnswersTrue /\ HeardTrue /\ Closed /\ AnswerIsTrue)'
        /\ events' \in [Executions -> [Workers -> Seq(States)]]
        /\ work' \in [Workers -> [Executions -> WorkTypes]]
        /\ \A y \in Executions : \A v \in Workers : y # x \/ v # w => work'[v][y] = work[v][y]
    BY <1>1, <1>2, <1>3, <1>4, WorkedAndPosted DEF WorkKept
  <1>6. Proposed'
    BY <1>1, <1>2, <1>5, ProposedKept
  <1>7. Queued'
    BY <1>1, <1>2, <1>5, QueuedKept
  <1>8. TypeOK'
    BY <1>1, <1>5 DEF TypeOK, WorkTypes
  <1> QED
    BY <1>5, <1>6, <1>7, <1>8

LEMMA EnqueueKeeps ==
  ASSUME ExecutionInv, NEW x \in Executions, NEW w \in Workers, Enqueue(x, w)
  PROVE  ExecutionInv'
  <1> USE DEF ExecutionInv
  <1>1. /\ work[w][x] = "accepted" /\ work' = [work EXCEPT ![w][x] = "queued"]
        /\ queue' = [queue EXCEPT ![w] = Append(@, x)]
        /\ UNCHANGED <<msgs, phase, future, proposals, events>>
    BY DEF Enqueue
  <1>2. "queued" \in WorkTypes /\ Onward(work[w][x], "queued") /\ "queued" # work[w][x]
    BY <1>1 DEF WorkTypes, Onward
  <1>4. /\ (EventsTrue /\ AnswersTrue /\ HeardTrue /\ Closed /\ AnswerIsTrue)'
        /\ events' \in [Executions -> [Workers -> Seq(States)]]
        /\ work' \in [Workers -> [Executions -> WorkTypes]] /\ work'[w][x] = "queued"
        /\ \A y \in Executions : \A v \in Workers : y # x \/ v # w => work'[v][y] = work[v][y]
    BY <1>1, <1>2, WorkedQuietly DEF WorkKept
  <1>5. w \in msgs[x].sent /\ [x |-> x, w |-> w] \notin proposals
    BY <1>1 DEF Proposed
  <1>6. Proposed'
    BY <1>1, <1>4, <1>5, ProposedKept
  <1>7. queue[w] \in Seq(Executions)
    BY DEF TypeOK
  <1>8. \A s \in Seq(Executions) :
          /\ Append(s, x) \in Seq(Executions)
          /\ \A i \in DOMAIN Append(s, x) :
               \/ i \in DOMAIN s /\ Append(s, x)[i] = s[i]
               \/ i = Len(s) + 1 /\ Append(s, x)[i] = x
    OBVIOUS
  <1>9. /\ queue' \in [Workers -> Seq(Executions)] /\ queue'[w] = Append(queue[w], x)
        /\ \A v \in Workers \ {w} : queue'[v] = queue[v]
    BY <1>1, <1>7, <1>8 DEF TypeOK
  <1>10. \A v \in Workers : \A k \in DOMAIN queue[v] :
           /\ queue[v][k] \in Executions /\ work[v][queue[v][k]] = "queued"
           /\ v # w \/ queue[v][k] # x
    BY <1>1 DEF TypeOK, Queued
  <1>11. Queued'
    <2> SUFFICES ASSUME NEW v \in Workers, NEW k \in DOMAIN queue'[v]
                 PROVE  /\ work'[v][queue'[v][k]] = "queued"
                        /\ \A l \in DOMAIN queue'[v] : queue'[v][k] = queue'[v][l] => k = l
      BY DEF Queued
    <2>1. CASE v # w
      <3>1. k \in DOMAIN queue[v] /\ queue'[v] = queue[v]
        BY <1>9, <2>1
      <3>2. work'[v][queue[v][k]] = "queued"
        <4>1. queue[v][k] \in Executions /\ work[v][queue[v][k]] = "queued"
          BY <1>10, <3>1
        <4> QED
          BY <1>4, <2>1, <4>1
      <3> QED
        BY <3>1, <3>2 DEF Queued
    <2>2. CASE v = w
      <3>1. \A i \in DOMAIN queue'[w] :
               \/ i \in DOMAIN queue[w] /\ queue'[w][i] = queue[w][i] /\ queue[w][i] # x
               \/ i = Len(queue[w]) + 1 /\ queue'[w][i] = x
        BY <1>7, <1>8, <1>9, <1>10
      <3>2. work'[w][queue'[w][k]] = "queued"
        <4>1. CASE queue'[w][k] = x
          BY <1>4, <4>1
        <4>2. CASE k \in DOMAIN queue[w] /\ queue'[w][k] = queue[w][k] /\ queue[w][k] # x
          <5>1. queue[w][k] \in Executions /\ work[w][queue[w][k]] = "queued"
            BY <1>10, <4>2
          <5> QED
            BY <1>4, <4>2, <5>1
        <4> QED
          BY <2>2, <3>1, <4>1, <4>2
      <3>3. \A l \in DOMAIN queue'[w] : queue'[w][k] = queue'[w][l] => k = l
        BY <2>2, <3>1 DEF Queued
      <3> QED
        BY <2>2, <3>2, <3>3
    <2> QED
      BY <2>1, <2>2
  <1>12. TypeOK'
    BY <1>1, <1>4, <1>9 DEF TypeOK, WorkTypes
  <1> QED
    BY <1>4, <1>6, <1>11, <1>12

LEMMA StartKeeps ==
  ASSUME ExecutionInv, NEW w \in Workers, Start(w)
  PROVE  ExecutionInv'
  <1> USE DEF ExecutionInv
  <1> DEFINE x == Head(queue[w])
  <1>1. /\ queue[w] # <<>> /\ queue' = [queue EXCEPT ![w] = Tail(@)]
        /\ work' = [work EXCEPT ![w][x] = "running"] /\ Fire(x, w, "started")
        /\ UNCHANGED <<msgs, phase, future, proposals>>
    BY DEF Start
  <1>2. queue[w] \in Seq(Executions) /\ x \in Executions
    <2>1. queue[w] \in Seq(Executions)
      BY DEF TypeOK
    <2> QED
      BY <1>1, <2>1
  <1> HIDE DEF x
  <1>3. \A y \in Executions : \A v \in Workers : y # x \/ v # w => work'[v][y] = work[v][y]
    BY <1>1, <1>2, WorkOf DEF WorkTypes
  <1>4. /\ work[w][x] = "queued"
        /\ queue' \in [Workers -> Seq(Executions)]
        /\ Queued'
    BY <1>1, <1>3, QueueTaken DEF x
  <1>5. /\ "running" \in WorkTypes /\ "started" \in States /\ Fits("running", "started")
        /\ Onward(work[w][x], "running") /\ "running" # work[w][x]
    BY <1>4 DEF WorkTypes, States, Fits, Onward, Taken
  <1>6. /\ (EventsTrue /\ AnswersTrue /\ HeardTrue /\ Closed /\ AnswerIsTrue)'
        /\ events' \in [Executions -> [Workers -> Seq(States)]]
        /\ work' \in [Workers -> [Executions -> WorkTypes]]
    BY <1>1, <1>2, <1>4, <1>5, WorkedAndPosted DEF WorkKept
  <1>7. w \in msgs[x].sent /\ [x |-> x, w |-> w] \notin proposals
    BY <1>2, <1>4 DEF Proposed
  <1>8. Proposed'
    BY <1>1, <1>2, <1>3, <1>7, ProposedKept
  <1>9. TypeOK'
    BY <1>1, <1>4, <1>6 DEF TypeOK, WorkTypes
  <1> QED
    BY <1>4, <1>6, <1>8, <1>9

LEMMA DropKeeps ==
  ASSUME ExecutionInv, NEW w \in Workers, Drop(w)
  PROVE  ExecutionInv'
  <1> USE DEF ExecutionInv
  <1> DEFINE x == Head(queue[w])
  <1>1. /\ queue[w] # <<>> /\ queue' = [queue EXCEPT ![w] = Tail(@)]
        /\ work' = [work EXCEPT ![w][x] = "dropped"]
        /\ UNCHANGED <<msgs, phase, future, proposals, events>>
    BY DEF Drop
  <1>2. queue[w] \in Seq(Executions) /\ x \in Executions
    <2>1. queue[w] \in Seq(Executions)
      BY DEF TypeOK
    <2> QED
      BY <1>1, <2>1
  <1> HIDE DEF x
  <1>3. \A y \in Executions : \A v \in Workers : y # x \/ v # w => work'[v][y] = work[v][y]
    BY <1>1, <1>2, WorkOf DEF WorkTypes
  <1>4. /\ work[w][x] = "queued"
        /\ queue' \in [Workers -> Seq(Executions)]
        /\ Queued'
    BY <1>1, <1>3, QueueTaken DEF x
  <1>5. /\ "dropped" \in WorkTypes /\ Onward(work[w][x], "dropped") /\ "dropped" # work[w][x]
    BY <1>4 DEF WorkTypes, Onward
  <1>7. /\ (EventsTrue /\ AnswersTrue /\ HeardTrue /\ Closed /\ AnswerIsTrue)'
        /\ events' \in [Executions -> [Workers -> Seq(States)]]
        /\ work' \in [Workers -> [Executions -> WorkTypes]]
    BY <1>1, <1>2, <1>4, <1>5, WorkedQuietly DEF WorkKept
  <1>8. w \in msgs[x].sent /\ [x |-> x, w |-> w] \notin proposals
    BY <1>2, <1>4 DEF Proposed
  <1>9. Proposed'
    BY <1>1, <1>2, <1>3, <1>8, ProposedKept
  <1>10. TypeOK'
    BY <1>1, <1>4, <1>7 DEF TypeOK, WorkTypes
  <1> QED
    BY <1>4, <1>7, <1>9, <1>10

LEMMA EndKeeps ==
  ASSUME ExecutionInv, NEW x \in Executions, NEW w \in Workers, Stop(x, w) \/ Fail(x, w)
  PROVE  ExecutionInv'
  <1> USE DEF ExecutionInv
  <1>1. /\ work[w][x] = "running" /\ work' = [work EXCEPT ![w][x] = "ended"]
        /\ UNCHANGED <<msgs, phase, future, proposals, queue>>
    BY DEF Stop, Fail, Running
  <1>2. /\ "ended" \in WorkTypes /\ Onward(work[w][x], "ended") /\ "ended" # work[w][x]
        /\ Fits("ended", "stopped") /\ Fits("ended", "errored")
        /\ "stopped" \in States /\ "errored" \in States
    BY <1>1 DEF WorkTypes, Onward, Fits, States
  <1>3. /\ (EventsTrue /\ AnswersTrue /\ HeardTrue /\ Closed /\ AnswerIsTrue)'
        /\ events' \in [Executions -> [Workers -> Seq(States)]]
        /\ work' \in [Workers -> [Executions -> WorkTypes]]
        /\ \A y \in Executions : \A v \in Workers : y # x \/ v # w => work'[v][y] = work[v][y]
    <2>1. CASE Stop(x, w)
      <3>1. Fire(x, w, "stopped")
        BY <2>1 DEF Stop
      <3>2. WorkKept(x, w, "ended")
        BY <1>1, <1>2, <3>1, WorkedAndPosted
      <3> QED
        BY <3>2 DEF WorkKept
    <2>2. CASE Fail(x, w)
      <3>1. WorkKept(x, w, "ended")
        BY <1>1, <2>2, WorkedAndFailed
      <3> QED
        BY <3>1 DEF WorkKept
    <2> QED
      BY <2>1, <2>2
  <1>4. w \in msgs[x].sent /\ [x |-> x, w |-> w] \notin proposals
    BY <1>1 DEF Proposed
  <1>5. Proposed'
    BY <1>1, <1>3, <1>4, ProposedKept
  <1>6. Queued'
    BY <1>1, <1>3, QueuedKept
  <1>7. TypeOK'
    BY <1>1, <1>3 DEF TypeOK, WorkTypes
  <1> QED
    BY <1>3, <1>5, <1>6, <1>7
-----------------------------------------------------------------------------
\* The caller's steps

\* What a message holds still is so when no work has changed.
LEMMA AnswersKept ==
  ASSUME ExecutionInv, NEW x \in Executions, NEW m \in Message, m.sent = msgs[x].sent,
         msgs' = [msgs EXCEPT ![x] = m], UNCHANGED work,
         TrueAnswers(x, m.responses), TrueAnswers(x, m.result)
  PROVE  /\ msgs' \in [Executions -> Message] /\ AnswersTrue'
         /\ \A y \in Executions : msgs'[y].sent = msgs[y].sent
         /\ \A y \in Executions : y # x => msgs'[y] = msgs[y]
  <1>1. msgs \in [Executions -> Message]
    BY DEF ExecutionInv, TypeOK
  <1>2. /\ msgs' \in [Executions -> Message] /\ msgs'[x] = m
        /\ \A y \in Executions : y # x => msgs'[y] = msgs[y]
    BY <1>1
  <1>3. \A y \in Executions : msgs'[y].sent = msgs[y].sent
    BY <1>2
  <1>4. \A y \in Executions : \A w, e : Says(y, w, e) => Says(y, w, e)'
    BY DEF Says
  <1>5. ASSUME NEW y \in Executions PROVE (TrueAnswers(y, msgs[y].responses) /\ TrueAnswers(y, msgs[y].result))'
    <2>1. TrueAnswers(y, msgs'[y].responses) /\ TrueAnswers(y, msgs'[y].result)
      BY <1>2 DEF ExecutionInv, AnswersTrue
    <2>2. \A answers : TrueAnswers(y, answers) =>
            \A i \in DOMAIN answers :
               /\ answers[i].node \in msgs'[y].sent /\ answers[i].state \in Passing
               /\ Says(y, answers[i].node, answers[i].state)'
      BY <1>3, <1>4 DEF TrueAnswers
    <2> QED
      BY <2>1, <2>2 DEF TrueAnswers
  <1> QED
    BY <1>2, <1>3, <1>5 DEF AnswersTrue

\* What ends a message fixes its answers.
LEMMA PostProcessed ==
  ASSUME NEW m \in Message, NEW why \in {"complete", "timeout"}
  PROVE  /\ PostProcess(m, why) \in Message
         /\ PostProcess(m, why).sent = m.sent /\ PostProcess(m, why).responses = m.responses
         /\ PostProcess(m, why).result \in {m.result, m.responses}
  BY DEF PostProcess, Message

\* An event makes a true answer.
LEMMA CollectedTrue ==
  ASSUME ExecutionInv, NEW x \in Executions, NEW w \in Workers, NEW e \in States, Says(x, w, e),
         w \in msgs[x].sent
  PROVE  /\ Collected(x, w, e) \in Message
         /\ Collected(x, w, e).sent = msgs[x].sent
         /\ TrueAnswers(x, Collected(x, w, e).responses)
         /\ TrueAnswers(x, Collected(x, w, e).result)
  <1> DEFINE m == msgs[x]
             res == [req |-> x, node |-> w, to |-> Caller, state |-> e, skipping |-> FALSE]
             k == Collected(x, w, e)
  <1>1. m \in Message /\ TrueAnswers(x, m.responses) /\ TrueAnswers(x, m.result)
    BY DEF ExecutionInv, TypeOK, AnswersTrue
  <1>2. CASE k = m
    BY <1>1, <1>2
  <1>3. CASE k = OnResults(m, res) /\ e \in Passing
    <2>1. res \in Answers
      BY DEF Answers
    <2>2. m.responses \in Seq(Answers)
      BY <1>1 DEF Message
    <2> DEFINE more == Append(m.responses, res)
    <2>3. /\ more \in Seq(Answers)
          /\ \A i \in DOMAIN more : \/ i \in DOMAIN m.responses /\ more[i] = m.responses[i]
                                    \/ more[i] = res
      <3> HIDE DEF res, m
      <3>1. \A s \in Seq(Answers) : \A a \in Answers :
              /\ Append(s, a) \in Seq(Answers)
              /\ \A i \in DOMAIN Append(s, a) : \/ i \in DOMAIN s /\ Append(s, a)[i] = s[i]
                                                \/ Append(s, a)[i] = a
        OBVIOUS
      <3> QED
        BY <2>1, <2>2, <3>1
    <2> HIDE DEF more, m
    <2>4. TrueAnswers(x, more)
      <3> SUFFICES ASSUME NEW i \in DOMAIN more
                   PROVE  /\ more[i].node \in msgs[x].sent /\ more[i].state \in Passing
                          /\ Says(x, more[i].node, more[i].state)
        BY DEF TrueAnswers
      <3>1. CASE more[i] = res
        <4>1. res.node = w /\ res.state = e
          OBVIOUS
        <4> QED
          BY <1>3, <3>1, <4>1
      <3>2. CASE i \in DOMAIN m.responses /\ more[i] = m.responses[i]
        BY <1>1, <3>2 DEF TrueAnswers
      <3> QED
        BY <2>3, <3>1, <3>2
    <2> DEFINE left == m.waiting \ {res.node}
               l == [m EXCEPT !.waiting = left, !.active = left # {}, !.responses = more,
                       !.passed = m.passed]
    <2>5. k = PostProcess(l, "complete") \/ k = l
      <3>1. ~ res.skipping
        OBVIOUS
      <3> QED
        BY <1>3, <3>1 DEF OnResults, more
    <2> HIDE DEF res
    <2>6. /\ k \in Message /\ k.sent = m.sent /\ k.responses = more
          /\ k.result \in {m.result, more}
      <3>1. left \subseteq Workers /\ (left # {}) \in BOOLEAN
        BY <1>1 DEF Message
      <3> HIDE DEF left
      <3>2. l \in Message /\ l.sent = m.sent /\ l.responses = more /\ l.result = m.result
        BY <1>1, <2>3, <3>1 DEF Message
      <3>3. k = l \/ k = PostProcess(l, "complete")
        BY <2>5
      <3> HIDE DEF k, l
      <3> QED
        BY <3>2, <3>3, PostProcessed
    <2> HIDE DEF k
    <2> QED
      BY <1>1, <2>4, <2>6 DEF k, m
  <1>4. k = m \/ (k = OnResults(m, res) /\ e \in Passing)
    BY DEF Collected
  <1> QED
    BY <1>2, <1>3, <1>4

\* Future g is the open future f that has heard event e of w, and is open unless all it
\* has heard of is the end.
HasHeard(f, g, w, e) ==
  /\ f.open /\ g.open = ~ IsFinished(g.states)
  /\ g \in [open : BOOLEAN, runnerId : BOOLEAN, states : Heard, results : SUBSET Workers]
  /\ DOMAIN g.states = DOMAIN f.states \cup {w}
  /\ g.states[w] = e
  /\ \A v \in DOMAIN f.states : v # w => g.states[v] = f.states[v]
  /\ g.results = Stopped(g)

LEMMA NotedWell ==
  ASSUME ExecutionInv, NEW x \in Executions, NEW w \in Workers, NEW e \in States,
         events[x][w] # <<>>
  PROVE  Noted(future[x], w, e) = future[x] \/ HasHeard(future[x], Noted(future[x], w, e), w, e)
  <1> DEFINE f == future[x]
             g == Noted(f, w, e)
             seen == [v \in DOMAIN f.states \cup {w} |-> IF v = w THEN e ELSE f.states[v]]
             done == IF e \in Terminal /\ HasData(e) THEN f.results \cup {w} ELSE f.results
  <1>1. /\ f.states \in Heard /\ f.results \subseteq Workers /\ f.open \in BOOLEAN
        /\ f.results = Stopped(f)
    BY DEF ExecutionInv, TypeOK, Closed
  <1>2. PICK some \in SUBSET Workers : f.states \in [some -> States]
    BY <1>1 DEF Heard
  <1>3. w \in DOMAIN f.states => f.states[w] # "stopped"
    BY DEF ExecutionInv, HeardTrue
  <1>4. g = f \/ (f.open /\ g = [open |-> ~ IsFinished(seen), runnerId |-> TRUE, states |-> seen,
                                 results |-> done])
    BY DEF Noted
  <1> HIDE DEF f, g
  <1>5. /\ DOMAIN seen = DOMAIN f.states \cup {w} /\ seen[w] = e
        /\ \A v \in DOMAIN f.states : v # w => seen[v] = f.states[v]
    OBVIOUS
  <1>6. seen \in Heard
    <2>1. some \cup {w} \in SUBSET Workers /\ seen \in [some \cup {w} -> States]
      BY <1>2
    <2> HIDE DEF seen
    <2> QED
      BY <2>1 DEF Heard
  <1>7. done = {v \in DOMAIN seen : seen[v] = "stopped"} /\ done \subseteq Workers
    <2>1. e \in Terminal /\ HasData(e) <=> e = "stopped"
      BY DEF Terminal, HasData
    <2>2. f.results = {v \in DOMAIN f.states : f.states[v] = "stopped"}
      BY <1>1 DEF Stopped
    <2> HIDE DEF seen
    <2> QED
      BY <1>1, <1>3, <1>5, <2>1, <2>2
  <1> HIDE DEF seen, done
  <1>8. (~ IsFinished(seen)) \in BOOLEAN
    OBVIOUS
  <1>9. ASSUME f.open, g = [open |-> ~ IsFinished(seen), runnerId |-> TRUE, states |-> seen,
                            results |-> done]
        PROVE  /\ g.open = ~ IsFinished(g.states)
               /\ g.states = seen /\ g.results = done
               /\ g \in [open : BOOLEAN, runnerId : BOOLEAN, states : Heard, results : SUBSET Workers]
    BY <1>6, <1>7, <1>8, <1>9
  <1>10. CASE f.open /\ g = [open |-> ~ IsFinished(seen), runnerId |-> TRUE, states |-> seen,
                             results |-> done]
    BY <1>5, <1>7, <1>9, <1>10 DEF f, g, Stopped, HasHeard
  <1>11. CASE g = f
    BY <1>11 DEF f, g
  <1> QED
    BY <1>4, <1>10, <1>11

LEMMA DeliverKeeps ==
  ASSUME ExecutionInv, NEW x \in Executions, NEW w \in Workers, Deliver(x, w)
  PROVE  ExecutionInv'
  <1>1. /\ events[x][w] # <<>>
        /\ events' = [events EXCEPT ![x][w] = Tail(@)]
        /\ msgs' = [msgs EXCEPT ![x] = Collected(x, w, Head(events[x][w]))]
        /\ future' = [future EXCEPT ![x] = Noted(@, w, Head(events[x][w]))]
        /\ UNCHANGED <<phase, proposals, work, queue>>
    BY DEF Deliver
  <1>2. TypeOK
    BY DEF ExecutionInv
  <1>3. events[x][w] \in Seq(States)
    BY <1>2 DEF TypeOK
  <1>4. PICK e \in States, s \in Seq(States) :
          /\ e = Head(events[x][w]) /\ s = Tail(events[x][w])
          /\ e = events[x][w][1] /\ 1 \in DOMAIN events[x][w]
          /\ Len(s) = Len(events[x][w]) - 1 /\ DOMAIN s = 1 .. Len(s) /\ Len(events[x][w]) \in Nat
          /\ \A i \in DOMAIN s : i + 1 \in DOMAIN events[x][w] /\ s[i] = events[x][w][i + 1]
          /\ Len(events[x][w]) = 1 => s = <<>>
    BY <1>1, <1>3, EventsTaken
  <1>5. Says(x, w, e) /\ (e = "stopped" => s = <<>>)
    BY <1>4 DEF ExecutionInv, EventsTrue
  <1>6. work[w][x] # "none" /\ w \in msgs[x].sent /\ phase[x] # "new"
    <2>1. work[w][x] # "none"
      BY <1>4, <1>5 DEF Says, States, Taken
    <2>2. w \in msgs[x].sent
      BY <2>1 DEF ExecutionInv, Proposed
    <2> QED
      BY <2>1, <2>2 DEF ExecutionInv, Proposed, Fresh
  <1>7. /\ events' \in [Executions -> [Workers -> Seq(States)]] /\ events'[x][w] = s
        /\ \A y \in Executions : \A v \in Workers : y # x \/ v # w => events'[y][v] = events[y][v]
    <2>1. s \in Seq(States) /\ EventsBecome(x, w, s)
      BY <1>1, <1>4 DEF EventsBecome
    <2>2. EventsAre(x, w, s)
      BY ONLY <1>2, <2>1, EventsOf
    <2> QED
      BY <2>2 DEF EventsAre
  <1>8. /\ msgs' \in [Executions -> Message] /\ AnswersTrue'
        /\ \A y \in Executions : msgs'[y].sent = msgs[y].sent
        /\ \A y \in Executions : y # x => msgs'[y] = msgs[y]
    <2>1. PICK m \in Message : /\ m = Collected(x, w, e) /\ m.sent = msgs[x].sent
                               /\ TrueAnswers(x, m.responses) /\ TrueAnswers(x, m.result)
      BY <1>5, <1>6, CollectedTrue
    <2>2. msgs' = [msgs EXCEPT ![x] = m] /\ UNCHANGED work
      BY <1>1, <1>4, <2>1
    <2> QED
      BY <2>1, <2>2, AnswersKept
  <1>9. PICK g : /\ g = Noted(future[x], w, e) /\ future' = [future EXCEPT ![x] = g]
    BY <1>1, <1>4
  <1>10. g = future[x] \/ HasHeard(future[x], g, w, e)
    BY <1>1, <1>9, NotedWell
  <1>11. /\ future' \in [Executions -> [open : BOOLEAN, runnerId : BOOLEAN, states : Heard,
                                        results : SUBSET Workers]]
         /\ future'[x] = g /\ \A y \in Executions : y # x => future'[y] = future[y]
    BY <1>2, <1>9, <1>10 DEF TypeOK, HasHeard
  <1>12. TypeOK'
    BY <1>1, <1>2, <1>7, <1>8, <1>11 DEF TypeOK
  <1>13. Proposed'
    <2>1. proposals \subseteq [x : Executions, w : Workers]
      BY <1>2 DEF TypeOK
    <2>2. \A p \in proposals' : p.w \in msgs'[p.x].sent /\ work'[p.w][p.x] = "none"
      BY <1>1, <1>8, <2>1 DEF ExecutionInv, Proposed
    <2>3. \A y \in Executions : \A v \in Workers : work'[v][y] # "none" => v \in msgs'[y].sent
      BY <1>1, <1>8 DEF ExecutionInv, Proposed
    <2>4. \A y \in Executions : phase'[y] = "new" => msgs'[y] = Fresh /\ future'[y] = NoFuture
      BY <1>1, <1>6, <1>8, <1>11 DEF ExecutionInv, Proposed
    <2> QED
      BY <2>2, <2>3, <2>4 DEF Proposed
  <1>14. Queued'
    BY <1>1 DEF ExecutionInv, Queued
  <1>15. \A y \in Executions : \A v, d : Says(y, v, d)' <=> Says(y, v, d)
    BY <1>1 DEF Says
  <1>16. EventsTrue'
    <2> SUFFICES ASSUME NEW y \in Executions, NEW v \in Workers, NEW i \in DOMAIN events'[y][v]
                 PROVE  /\ Says(y, v, events[y][v][i])'
                        /\ events'[y][v][i] = "stopped" => i = Len(events'[y][v])
      BY DEF EventsTrue
    <2>1. CASE y = x /\ v = w
      <3>1. i \in 1 .. Len(s) /\ i + 1 \in DOMAIN events[x][w] /\ s[i] = events[x][w][i + 1]
        BY <1>4, <1>7, <2>1
      <3>2. PICK j \in DOMAIN events[x][w] : j = i + 1
        BY <3>1
      <3>3. Says(x, w, events[x][w][j]) /\ (events[x][w][j] = "stopped" => j = Len(events[x][w]))
        BY DEF ExecutionInv, EventsTrue
      <3>4. j = Len(events[x][w]) => i = Len(s)
        BY <1>4, <3>1, <3>2
      <3> QED
        BY <1>1, <1>7, <2>1, <3>1, <3>2, <3>3, <3>4 DEF Says
    <2>2. CASE y # x \/ v # w
      BY <1>1, <1>7, <2>2 DEF ExecutionInv, EventsTrue, Says
    <2> QED
      BY <2>1, <2>2
  <1>17. HeardTrue'
    <2> SUFFICES ASSUME NEW y \in Executions, NEW v \in DOMAIN future'[y].states
                 PROVE  /\ Says(y, v, future[y].states[v])'
                        /\ future'[y].states[v] = "stopped" => events'[y][v] = <<>>
      BY DEF HeardTrue
    <2>1. CASE v \in DOMAIN future[y].states /\ future'[y].states[v] = future[y].states[v]
      <3>1. /\ Says(y, v, future[y].states[v])
            /\ future[y].states[v] = "stopped" => events[y][v] = <<>>
        BY <2>1 DEF ExecutionInv, HeardTrue
      <3>2. v \in Workers
        BY <1>2, <2>1 DEF TypeOK, Heard
      <3>3. future[y].states[v] = "stopped" => events'[y][v] = <<>>
        BY <1>1, <1>7, <3>1, <3>2
      <3> QED
        BY <1>1, <2>1, <3>1, <3>3 DEF Says
    <2>2. CASE y = x /\ v = w /\ future'[y].states[v] = e
      BY <1>1, <1>5, <1>7, <2>2 DEF Says
    <2> QED
      BY <1>10, <1>11, <2>1, <2>2 DEF HasHeard
  <1>18. Closed'
    <2> SUFFICES ASSUME NEW y \in Executions
                 PROVE  /\ future'[y].results = Stopped(future'[y])
                        /\ phase[y] \in {"waits", "awaits", "results"} /\ ~ future'[y].open
                             => DOMAIN future'[y].states # {} /\ IsFinished(future'[y].states)
                        /\ phase[y] = "results" => ~ future'[y].open
      BY <1>1 DEF Closed, Stopped, IsFinished
    <2>1. CASE future'[y] = future[y]
      BY <2>1 DEF ExecutionInv, Closed
    <2>2. CASE y = x /\ future[x].open /\ g.open = ~ IsFinished(g.states)
               /\ w \in DOMAIN g.states /\ g.results = Stopped(g)
      BY <1>11, <2>2 DEF ExecutionInv, Closed
    <2> QED
      BY <1>10, <1>11, <2>1, <2>2 DEF HasHeard
  <1>19. AnswerIsTrue'
    BY <1>1, <1>8 DEF ExecutionInv, AnswerIsTrue
  <1> QED
    BY <1>8, <1>12, <1>13, <1>14, <1>16, <1>17, <1>18, <1>19 DEF ExecutionInv

\* A call goes on to phase p, with message m and its future open or not.
CallsOn(x, m, p, open) ==
  /\ m.sent = msgs[x].sent /\ TrueAnswers(x, m.responses) /\ TrueAnswers(x, m.result)
  /\ msgs' = [msgs EXCEPT ![x] = m] /\ phase' = [phase EXCEPT ![x] = p]
  /\ future' = [future EXCEPT ![x].open = open]
  /\ UNCHANGED <<proposals, events, work, queue>>
  /\ p \in {"waits", "awaits", "results"} /\ ~ open
       => phase[x] \in {"waits", "awaits", "results"} /\ ~ future[x].open
  /\ p = "results" => ~ open
  /\ p \in {"accepted", "awaits", "results"} => \E w \in msgs[x].sent : work[w][x] \in Taken
  /\ p = "refused" => \E w \in msgs[x].sent : work[w][x] = "refused"

LEMMA CallerKeeps ==
  ASSUME ExecutionInv, NEW x \in Executions, NEW m \in Message, NEW open \in BOOLEAN,
         NEW p \in {"asks", "waits", "silence", "refused", "accepted", "awaits", "results"},
         CallsOn(x, m, p, open)
  PROVE  ExecutionInv'
  <1> USE DEF CallsOn
  <1>1. TypeOK
    BY DEF ExecutionInv
  <1>2. /\ msgs' \in [Executions -> Message] /\ AnswersTrue'
        /\ \A y \in Executions : msgs'[y].sent = msgs[y].sent
        /\ \A y \in Executions : y # x => msgs'[y] = msgs[y]
    <2>1. UNCHANGED work
      OBVIOUS
    <2> QED
      BY <2>1, AnswersKept
  <1>3. /\ phase' \in [Executions -> {"new", "asks", "waits", "silence", "refused", "accepted",
                                      "awaits", "results"}]
        /\ phase'[x] = p /\ \A y \in Executions : y # x => phase'[y] = phase[y]
    <2>1. /\ phase \in [Executions -> {"new", "asks", "waits", "silence", "refused", "accepted",
                                        "awaits", "results"}]
          /\ phase' = [phase EXCEPT ![x] = p]
      BY <1>1 DEF TypeOK
    <2> QED
      BY ONLY <2>1
  <1>4. /\ future' \in [Executions -> [open : BOOLEAN, runnerId : BOOLEAN, states : Heard,
                                       results : SUBSET Workers]]
        /\ future'[x].open = open
        /\ \A y \in Executions : /\ y # x => future'[y] = future[y]
                                 /\ future'[y].states = future[y].states
                                 /\ future'[y].results = future[y].results
    <2>1. /\ future \in [Executions -> [open : BOOLEAN, runnerId : BOOLEAN, states : Heard,
                                        results : SUBSET Workers]]
          /\ future' = [future EXCEPT ![x].open = open]
      BY <1>1 DEF TypeOK
    <2> QED
      BY ONLY <2>1, open \in BOOLEAN, x \in Executions
  <1>5. TypeOK'
    BY <1>1, <1>2, <1>3, <1>4 DEF TypeOK
  <1>6. Proposed'
    <2>1. proposals \subseteq [x : Executions, w : Workers]
      BY <1>1 DEF TypeOK
    <2>2. \A q \in proposals' : q.w \in msgs'[q.x].sent /\ work'[q.w][q.x] = "none"
      BY <1>2, <2>1 DEF ExecutionInv, Proposed
    <2>3. \A y \in Executions : \A v \in Workers : work'[v][y] # "none" => v \in msgs'[y].sent
      BY <1>2 DEF ExecutionInv, Proposed
    <2>4. \A y \in Executions : phase'[y] = "new" => msgs'[y] = Fresh /\ future'[y] = NoFuture
      BY <1>2, <1>3, <1>4 DEF ExecutionInv, Proposed
    <2> QED
      BY <2>2, <2>3, <2>4 DEF Proposed
  <1>7. Queued' /\ EventsTrue'
    BY DEF ExecutionInv, Queued, EventsTrue, Says
  <1>8. HeardTrue'
    BY <1>4 DEF ExecutionInv, HeardTrue, Says
  <1>9. Closed'
    <2> SUFFICES ASSUME NEW y \in Executions
                 PROVE  /\ future'[y].results = Stopped(future'[y])
                        /\ phase'[y] \in {"waits", "awaits", "results"} /\ ~ future'[y].open
                             => DOMAIN future'[y].states # {} /\ IsFinished(future'[y].states)
                        /\ phase'[y] = "results" => ~ future'[y].open
      BY DEF Closed, Stopped, IsFinished
    <2>1. CASE y = x
      BY <1>3, <1>4, <2>1 DEF ExecutionInv, Closed, Stopped
    <2>2. CASE y # x
      BY <1>3, <1>4, <2>2 DEF ExecutionInv, Closed
    <2> QED
      BY <2>1, <2>2
  <1>10. AnswerIsTrue'
    BY <1>2, <1>3 DEF ExecutionInv, AnswerIsTrue, Taken
  <1> QED
    BY <1>2, <1>5, <1>6, <1>7, <1>8, <1>9, <1>10 DEF ExecutionInv

\* What a call that is not new is known by.
LEMMA Calling ==
  ASSUME ExecutionInv, NEW x \in Executions
  PROVE  /\ msgs[x] \in Message /\ TrueAnswers(x, msgs[x].responses) /\ TrueAnswers(x, msgs[x].result)
         /\ future = [future EXCEPT ![x].open = future[x].open] /\ future[x].open \in BOOLEAN
         /\ phase = [phase EXCEPT ![x] = phase[x]] /\ msgs = [msgs EXCEPT ![x] = msgs[x]]
         /\ phase[x] \in {"new", "asks", "waits", "silence", "refused", "accepted", "awaits", "results"}
         /\ msgs[x].phase # "new" => phase[x] # "new"
         /\ phase[x] = "results" => ~ future[x].open
         /\ phase[x] \in {"accepted", "awaits", "results"} => \E w \in msgs[x].sent : work[w][x] \in Taken
         /\ phase[x] = "refused" => \E w \in msgs[x].sent : work[w][x] = "refused"
  <1>1. TypeOK
    BY DEF ExecutionInv
  <1>2. /\ msgs[x] \in Message
        /\ future = [future EXCEPT ![x].open = future[x].open] /\ future[x].open \in BOOLEAN
        /\ phase = [phase EXCEPT ![x] = phase[x]] /\ msgs = [msgs EXCEPT ![x] = msgs[x]]
        /\ phase[x] \in {"new", "asks", "waits", "silence", "refused", "accepted", "awaits", "results"}
    BY <1>1 DEF TypeOK
  <1>3. msgs[x].phase # "new" => phase[x] # "new"
    BY DEF ExecutionInv, Proposed, Fresh
  <1> QED
    BY <1>2, <1>3 DEF ExecutionInv, AnswersTrue, Closed, AnswerIsTrue, Taken

LEMMA TimeoutKeeps ==
  ASSUME ExecutionInv, NEW x \in Executions, Timeout(x)
  PROVE  ExecutionInv'
  <1>1. /\ msgs[x].phase = "waiting" /\ msgs' = [msgs EXCEPT ![x] = PostProcess(msgs[x], "timeout")]
        /\ UNCHANGED <<phase, future, proposals, events, work, queue>>
    BY DEF Timeout
  <1>2. PICK m \in Message : /\ m = PostProcess(msgs[x], "timeout") /\ m.sent = msgs[x].sent
                             /\ m.responses = msgs[x].responses
                             /\ m.result \in {msgs[x].result, msgs[x].responses}
    BY Calling, PostProcessed
  <1>3. PICK p \in {"asks", "waits", "silence", "refused", "accepted", "awaits", "results"}, open \in BOOLEAN :
          p = phase[x] /\ open = future[x].open
    BY <1>1, Calling
  <1>4. phase' = [phase EXCEPT ![x] = p] /\ future' = [future EXCEPT ![x].open = open]
    BY <1>1, <1>3, Calling
  <1>5. msgs' = [msgs EXCEPT ![x] = m] /\ TrueAnswers(x, m.responses) /\ TrueAnswers(x, m.result)
    BY <1>1, <1>2, Calling
  <1>6. /\ p \in {"waits", "awaits", "results"} /\ ~ open
             => phase[x] \in {"waits", "awaits", "results"} /\ ~ future[x].open
        /\ p = "results" => ~ open
        /\ p \in {"accepted", "awaits", "results"} => \E w \in msgs[x].sent : work[w][x] \in Taken
        /\ p = "refused" => \E w \in msgs[x].sent : work[w][x] = "refused"
    BY <1>3, Calling
  <1>7. CallsOn(x, m, p, open)
    BY <1>1, <1>2, <1>4, <1>5, <1>6 DEF CallsOn
  <1> QED
    BY <1>7, CallerKeeps

LEMMA DecideKeeps ==
  ASSUME ExecutionInv, NEW x \in Executions, Decide(x)
  PROVE  ExecutionInv'
  <1>1. /\ phase[x] \in {"asks", "waits"}
        /\ msgs' = [msgs EXCEPT ![x] = Unregistered(msgs[x])]
        /\ UNCHANGED <<proposals, events, work, queue>>
    BY DEF Decide
  <1>2. PICK m \in Message : /\ m = Unregistered(msgs[x]) /\ m.sent = msgs[x].sent
                             /\ m.responses = msgs[x].responses /\ m.result = msgs[x].result
    <2>1. msgs[x] \in Message
      BY Calling
    <2> DEFINE k == Unregistered(msgs[x])
    <2>2. /\ k \in Message /\ k.sent = msgs[x].sent
          /\ k.responses = msgs[x].responses /\ k.result = msgs[x].result
      BY <2>1 DEF Unregistered, Message
    <2> HIDE DEF k
    <2> QED
      BY <2>2 DEF k
  <1>3. PICK p \in {"silence", "refused", "accepted", "awaits"}, open \in BOOLEAN :
          /\ phase' = [phase EXCEPT ![x] = p] /\ future' = [future EXCEPT ![x].open = open]
          /\ p = "awaits" => open = future[x].open /\ phase[x] = "waits"
          /\ p # "silence" => msgs[x].result # <<>>
          /\ p \in {"accepted", "awaits"} => msgs[x].result[1].state # "request_error"
          /\ p = "refused" => msgs[x].result[1].state = "request_error"
    <2>1. CASE msgs[x].result = <<>>
      BY <2>1, Calling DEF Decide
    <2>2. CASE msgs[x].result # <<>> /\ Refused(x)
      BY <2>2 DEF Decide, Refused
    <2>3. CASE msgs[x].result # <<>> /\ ~ Refused(x)
      BY <1>1, <2>3, Calling DEF Decide, Refused
    <2> QED
      BY <2>1, <2>2, <2>3
  <1>4. ASSUME msgs[x].result # <<>>
        PROVE  /\ msgs[x].result[1].node \in msgs[x].sent
               /\ msgs[x].result[1].state \in {"request_error", "enqueue"}
               /\ Says(x, msgs[x].result[1].node, msgs[x].result[1].state)
    <2>1. msgs[x].result \in Seq(Answers)
      BY Calling DEF Message
    <2>2. \A s \in Seq(Answers) : s # <<>> => 1 \in DOMAIN s
      OBVIOUS
    <2>3. 1 \in DOMAIN msgs[x].result
      BY <1>4, <2>1, <2>2
    <2> QED
      BY <2>3, Calling DEF TrueAnswers, Passing
  <1>5. p \in {"accepted", "awaits"} => \E w \in msgs[x].sent : work[w][x] \in Taken
    BY <1>3, <1>4 DEF Says
  <1>6. p = "refused" => \E w \in msgs[x].sent : work[w][x] = "refused"
    BY <1>3, <1>4 DEF Says
  <1>7. /\ p \in {"waits", "awaits", "results"} /\ ~ open
             => phase[x] \in {"waits", "awaits", "results"} /\ ~ future[x].open
        /\ p \in {"asks", "waits", "silence", "refused", "accepted", "awaits", "results"}
        /\ p # "results"
    BY <1>3
  <1>8. msgs' = [msgs EXCEPT ![x] = m] /\ TrueAnswers(x, m.responses) /\ TrueAnswers(x, m.result)
    BY <1>1, <1>2, Calling
  <1>9. CallsOn(x, m, p, open)
    BY <1>1, <1>2, <1>3, <1>5, <1>6, <1>7, <1>8 DEF CallsOn
  <1> QED
    BY <1>7, <1>9, CallerKeeps

LEMMA ReturnKeeps ==
  ASSUME ExecutionInv, NEW x \in Executions, Return(x)
  PROVE  ExecutionInv'
  <1>1. /\ phase[x] = "awaits" /\ ~ future[x].open /\ phase' = [phase EXCEPT ![x] = "results"]
        /\ UNCHANGED <<msgs, future, proposals, events, work, queue>>
    BY DEF Return
  <1>2. PICK open \in BOOLEAN, m \in Message : open = future[x].open /\ m = msgs[x]
    BY Calling
  <1>3. /\ msgs' = [msgs EXCEPT ![x] = m] /\ future' = [future EXCEPT ![x].open = open]
        /\ m.sent = msgs[x].sent /\ TrueAnswers(x, m.responses) /\ TrueAnswers(x, m.result)
        /\ \E w \in msgs[x].sent : work[w][x] \in Taken
    BY <1>1, <1>2, Calling
  <1>4. CallsOn(x, m, "results", open)
    BY <1>1, <1>2, <1>3 DEF CallsOn
  <1> QED
    BY <1>4, CallerKeeps

LEMMA ProposeKeeps ==
  ASSUME ExecutionInv, NEW x \in Executions, NEW targets \in Targets[x], NEW waits \in Waits[x],
         Propose(x, targets, waits)
  PROVE  ExecutionInv'
  <1>1. /\ phase[x] = "new"
        /\ phase' = [phase EXCEPT ![x] = IF waits THEN "waits" ELSE "asks"]
        /\ future' = [future EXCEPT ![x].open = waits]
        /\ msgs' = [msgs EXCEPT ![x] = Posted(Addressed(msgs[x], targets, FALSE))]
        /\ proposals' = proposals \cup {[x |-> x, w |-> w] : w \in targets}
        /\ UNCHANGED <<events, work, queue>>
    BY DEF Propose
  <1>2. targets \subseteq Workers /\ targets # {} /\ waits \in BOOLEAN
    BY TaskExecutionAssumption
  <1>3. TypeOK
    BY DEF ExecutionInv
  <1>4. /\ msgs[x] = Fresh /\ future[x] = NoFuture /\ \A w \in Workers : work[w][x] = "none"
        /\ \A p \in proposals : p.x # x
    <2>1. msgs[x] = Fresh /\ future[x] = NoFuture
      BY <1>1 DEF ExecutionInv, Proposed
    <2> QED
      BY <2>1 DEF ExecutionInv, Proposed, Fresh
  <1>5. PICK m \in Message : /\ msgs' = [msgs EXCEPT ![x] = m] /\ m.sent = targets
                             /\ m.responses = <<>> /\ m.result = <<>>
    <2> DEFINE k == [phase |-> "waiting", sent |-> targets, waiting |-> targets,
                     responses |-> <<>>, passed |-> {}, patient |-> FALSE, active |-> TRUE,
                     listening |-> TRUE, result |-> <<>>, cause |-> "none"]
    <2>1. Posted(Addressed(Fresh, targets, FALSE)) = k
      BY <1>2 DEF Posted, Addressed, Fresh
    <2>2. k \in Message /\ k.sent = targets /\ k.responses = <<>> /\ k.result = <<>>
      BY <1>2 DEF Message, Fresh
    <2> HIDE DEF k
    <2> QED
      BY <1>1, <1>4, <2>1, <2>2
  <1>6. /\ msgs' \in [Executions -> Message] /\ msgs'[x] = m
        /\ \A y \in Executions : y # x => msgs'[y] = msgs[y]
    BY <1>3, <1>5 DEF TypeOK
  <1>7. /\ phase' \in [Executions -> {"new", "asks", "waits", "silence", "refused", "accepted",
                                      "awaits", "results"}]
        /\ phase'[x] = (IF waits THEN "waits" ELSE "asks")
        /\ \A y \in Executions : y # x => phase'[y] = phase[y]
    BY <1>1, <1>3 DEF TypeOK
  <1>8. /\ future' \in [Executions -> [open : BOOLEAN, runnerId : BOOLEAN, states : Heard,
                                       results : SUBSET Workers]]
        /\ future'[x].open = waits /\ DOMAIN future'[x].states = {} /\ future'[x].results = {}
        /\ \A y \in Executions : y # x => future'[y] = future[y]
    <2>1. future \in [Executions -> [open : BOOLEAN, runnerId : BOOLEAN, states : Heard,
                                     results : SUBSET Workers]]
      BY <1>3 DEF TypeOK
    <2>2. DOMAIN future[x].states = {} /\ future[x].results = {}
      BY <1>4 DEF NoFuture
    <2> QED
      BY <1>1, <1>2, <2>1, <2>2
  <1>9. TypeOK'
    <2>1. proposals' \subseteq [x : Executions, w : Workers]
      BY <1>1, <1>2, <1>3 DEF TypeOK
    <2>2. /\ events' \in [Executions -> [Workers -> Seq(States)]]
          /\ work' \in [Workers -> [Executions ->
               {"none", "refused", "accepted", "queued", "running", "ended", "dropped"}]]
          /\ queue' \in [Workers -> Seq(Executions)]
      BY <1>1, <1>3 DEF TypeOK
    <2> QED
      BY <1>6, <1>7, <1>8, <2>1, <2>2 DEF TypeOK
  <1>10. Proposed'
    <2>1. proposals \subseteq [x : Executions, w : Workers]
      BY <1>3 DEF TypeOK
    <2>2. ASSUME NEW p \in proposals' PROVE p.w \in msgs'[p.x].sent /\ work'[p.w][p.x] = "none"
      <3>1. CASE p \in proposals
        <4>1. p.x \in Executions /\ p.x # x
          BY <1>4, <2>1, <3>1
        <4> QED
          BY <1>1, <1>6, <3>1, <4>1 DEF ExecutionInv, Proposed
      <3>2. CASE p \in {[x |-> x, w |-> w] : w \in targets}
        <4>1. PICK w \in targets : p = [x |-> x, w |-> w]
          BY <3>2
        <4>2. p.x = x /\ p.w \in targets /\ p.w \in Workers
          BY <1>2, <4>1
        <4> QED
          BY <1>1, <1>4, <1>5, <1>6, <4>2
      <3> QED
        BY <1>1, <2>2, <3>1, <3>2
    <2>3. \A y \in Executions : \A v \in Workers : work'[v][y] # "none" => v \in msgs'[y].sent
      BY <1>1, <1>4, <1>6 DEF ExecutionInv, Proposed
    <2>4. \A y \in Executions : phase'[y] = "new" => msgs'[y] = Fresh /\ future'[y] = NoFuture
      BY <1>6, <1>7, <1>8 DEF ExecutionInv, Proposed
    <2> QED
      BY <2>2, <2>3, <2>4 DEF Proposed
  <1>11. Queued' /\ EventsTrue'
    BY <1>1 DEF ExecutionInv, Queued, EventsTrue, Says
  <1>12. AnswersTrue'
    <2> SUFFICES ASSUME NEW y \in Executions
                 PROVE  (TrueAnswers(y, msgs[y].responses) /\ TrueAnswers(y, msgs[y].result))'
      BY DEF AnswersTrue
    <2>1. CASE y = x
      BY <1>5, <1>6, <2>1 DEF TrueAnswers
    <2>2. CASE y # x
      <3>1. msgs'[y] = msgs[y] /\ \A w, e : Says(y, w, e)' <=> Says(y, w, e)
        BY <1>1, <1>6, <2>2 DEF Says
      <3>2. TrueAnswers(y, msgs[y].responses) /\ TrueAnswers(y, msgs[y].result)
        BY DEF ExecutionInv, AnswersTrue
      <3> QED
        BY <3>1, <3>2 DEF TrueAnswers
    <2> QED
      BY <2>1, <2>2
  <1>13. HeardTrue'
    <2> SUFFICES ASSUME NEW y \in Executions, NEW v \in DOMAIN future'[y].states
                 PROVE  /\ Says(y, v, future[y].states[v])'
                        /\ future'[y].states[v] = "stopped" => events'[y][v] = <<>>
      BY DEF HeardTrue
    <2>1. future'[y] = future[y]
      BY <1>8
    <2> QED
      BY <1>1, <2>1 DEF ExecutionInv, HeardTrue, Says
  <1>14. Closed'
    <2> SUFFICES ASSUME NEW y \in Executions
                 PROVE  /\ future'[y].results = Stopped(future'[y])
                        /\ phase'[y] \in {"waits", "awaits", "results"} /\ ~ future'[y].open
                             => DOMAIN future'[y].states # {} /\ IsFinished(future'[y].states)
                        /\ phase'[y] = "results" => ~ future'[y].open
      BY DEF Closed, Stopped, IsFinished
    <2>1. CASE y = x
      BY <1>7, <1>8, <2>1 DEF Stopped
    <2>2. CASE y # x
      BY <1>7, <1>8, <2>2 DEF ExecutionInv, Closed
    <2> QED
      BY <2>1, <2>2
  <1>15. AnswerIsTrue'
    BY <1>1, <1>6, <1>7 DEF ExecutionInv, AnswerIsTrue
  <1> QED
    BY <1>9, <1>10, <1>11, <1>12, <1>13, <1>14, <1>15 DEF ExecutionInv

-----------------------------------------------------------------------------
\* The invariant, and what follows from it

LEMMA InitOK == Init => ExecutionInv
  <1> SUFFICES ASSUME Init PROVE ExecutionInv
    OBVIOUS
  <1> USE DEF Init
  <1>1. Fresh \in Message
    BY DEF Fresh, Message
  <1>2. NoFuture \in [open : BOOLEAN, runnerId : BOOLEAN, states : Heard, results : SUBSET Workers]
    <2>1. [w \in {} |-> "none"] \in [{} -> States]
      OBVIOUS
    <2>2. [w \in {} |-> "none"] \in Heard
      BY <2>1 DEF Heard
    <2> QED
      BY <2>2 DEF NoFuture
  <1>3. TypeOK
    BY <1>1, <1>2 DEF TypeOK
  <1>4. Proposed /\ Queued /\ EventsTrue /\ AnswersTrue /\ AnswerIsTrue
    BY DEF Proposed, Queued, EventsTrue, AnswersTrue, TrueAnswers, AnswerIsTrue, Fresh
  <1>5. HeardTrue /\ Closed
    BY DEF HeardTrue, Closed, NoFuture, Stopped
  <1> QED
    BY <1>3, <1>4, <1>5 DEF ExecutionInv

LEMMA StepOK == ExecutionInv /\ [Next]_vars => ExecutionInv'
  <1> SUFFICES ASSUME ExecutionInv, [Next]_vars PROVE ExecutionInv'
    OBVIOUS
  <1>1. CASE UNCHANGED vars
    <2> USE <1>1 DEF vars, Says
    <2>1. TypeOK' /\ Proposed' /\ Queued'
      BY DEF ExecutionInv, TypeOK, Proposed, Queued
    <2>2. EventsTrue' /\ AnswersTrue'
      <3>1. EventsTrue'
        BY DEF ExecutionInv, EventsTrue
      <3>2. AnswersTrue'
        <4>1. AnswersTrue /\ UNCHANGED <<msgs, work>>
          BY DEF ExecutionInv
        <4> QED
          BY ONLY <4>1 DEF AnswersTrue, TrueAnswers, Says
      <3> QED
        BY <3>1, <3>2
    <2>3. HeardTrue' /\ Closed' /\ AnswerIsTrue'
      BY DEF ExecutionInv, HeardTrue, Closed, Stopped, IsFinished, AnswerIsTrue
    <2> QED
      BY <2>1, <2>2, <2>3 DEF ExecutionInv
  <1>2. ASSUME NEW x \in Executions, NEW targets \in Targets[x], NEW waits \in Waits[x],
               Propose(x, targets, waits)
        PROVE  ExecutionInv'
    BY <1>2, ProposeKeeps
  <1>3. ASSUME NEW x \in Executions, Timeout(x) \/ Decide(x) \/ Return(x) PROVE ExecutionInv'
    BY <1>3, TimeoutKeeps, DecideKeeps, ReturnKeeps
  <1>4. ASSUME NEW w \in Workers, Start(w) \/ Drop(w) PROVE ExecutionInv'
    BY <1>4, StartKeeps, DropKeeps
  <1>5. ASSUME NEW x \in Executions, NEW w \in Workers,
               Accept(x, w) \/ Enqueue(x, w) \/ Deliver(x, w) \/ Stop(x, w) \/ Fail(x, w)
        PROVE  ExecutionInv'
    BY <1>5, AcceptKeeps, EnqueueKeeps, DeliverKeeps, EndKeeps
  <1> QED
    BY <1>1, <1>2, <1>3, <1>4, <1>5 DEF Next, Serve

\* What is on the bus, in the messages and in the futures is true of the workers, and a
\* future closes with the end of all it has heard of (TaskFuture.onTaskEvent).
THEOREM ExecutionInvariant == Spec => []ExecutionInv
  <1> QED
    BY InitOK, StepOK, PTL DEF Spec

\* Messages, futures, events and queues have their types.
THEOREM Types == Spec => []TypeOK
  <1>1. ExecutionInv => TypeOK
    BY DEF ExecutionInv
  <1> QED
    BY <1>1, ExecutionInvariant, PTL

\* executeOnWorker goes on only with a task that a worker it asked has accepted, and tells
\* of a refusal only when there was one.
THEOREM Answer == Spec => []AnswerIsTrue
  <1>1. ExecutionInv => AnswerIsTrue
    BY DEF ExecutionInv
  <1> QED
    BY <1>1, ExecutionInvariant, PTL

\* When the await() of the future returns, the task has come to its end at every worker
\* heard of, the results are those of the ones that did not fail, and a single target has
\* been heard of.
THEOREM Results == Spec => []ResultsAreIn
  <1>1. ASSUME ExecutionInv, NEW x \in Executions, phase[x] = "results"
        PROVE  LET heard == future[x].states IN
               /\ DOMAIN heard # {}
               /\ \A w \in DOMAIN heard : work[w][x] \in {"ended", "refused"}
               /\ future[x].results = {w \in DOMAIN heard : heard[w] = "stopped"}
               /\ Cardinality(msgs[x].sent) = 1 => DOMAIN heard = msgs[x].sent
    <2> DEFINE heard == future[x].states
    <2>1. /\ DOMAIN heard # {} /\ \A w \in DOMAIN heard : heard[w] \in Terminal
          /\ future[x].results = {w \in DOMAIN heard : heard[w] = "stopped"}
      BY <1>1 DEF ExecutionInv, Closed, IsFinished, Stopped
    <2>2. \A w \in DOMAIN heard : work[w][x] \in {"ended", "refused"}
      BY <1>1, <2>1 DEF ExecutionInv, HeardTrue, Says, Terminal
    <2>3. DOMAIN heard \subseteq Workers
      BY <1>1 DEF ExecutionInv, TypeOK, Heard
    <2>4. DOMAIN heard \subseteq msgs[x].sent
      BY <1>1, <2>2, <2>3 DEF ExecutionInv, Proposed
    <2>5. ASSUME Cardinality(msgs[x].sent) = 1 PROVE DOMAIN heard = msgs[x].sent
      <3>1. msgs[x].sent \subseteq Workers
        BY <1>1 DEF ExecutionInv, TypeOK, Message
      <3>2. IsFiniteSet(msgs[x].sent)
        BY <3>1, TaskExecutionAssumption, FS_Subset
      <3>3. PICK w : msgs[x].sent = {w}
        BY <2>5, <3>2, FS_Singleton
      <3> QED
        BY <2>1, <2>4, <3>3
    <2> QED
      BY <2>1, <2>2, <2>5
  <1>2. ExecutionInv => ResultsAreIn
    BY <1>1 DEF ResultsAreIn
  <1> QED
    BY <1>2, ExecutionInvariant, PTL

-----------------------------------------------------------------------------
\* The refinement of RemoteCall

\* What the caller of RemoteCall sees, and the work.
Asked == [x \in Executions |-> msgs[x].sent]
Outcomes == [x \in Executions |-> Outcome(x)]
Jobs == [w \in Workers |-> [x \in Executions |-> Job(w, x)]]
Got == [x \in Executions |-> IF phase[x] = "results" THEN future[x].results ELSE {}]

\* The job that a piece of work is seen as.
Seen(stage, job) ==
  \/ stage \in {"accepted", "queued", "running", "dropped"} /\ job = "taken"
  \/ stage = "ended" /\ job = "done"
  \/ stage = "refused" /\ job = "refused"

WorkBecomes(w, x, stage) == work' = [work EXCEPT ![w][x] = stage]

\* A step of one piece of work is one of its job.
LEMMA JobStep ==
  ASSUME TypeOK, NEW w \in Workers, NEW x \in Executions, NEW stage, NEW job,
         WorkBecomes(w, x, stage), Seen(stage, job)
  PROVE  /\ Jobs' = [Jobs EXCEPT ![w][x] = job]
         /\ Job(w, x) = job => Jobs' = Jobs
  <1> DEFINE new == [v \in Workers |-> [y \in Executions |->
                       IF v = w /\ y = x THEN job ELSE Job(v, y)]]
  <1>1. ASSUME NEW v \in Workers, NEW y \in Executions
        PROVE  work'[v][y] = IF v = w /\ y = x THEN stage ELSE work[v][y]
    BY DEF TypeOK, WorkBecomes
  <1>2. ASSUME NEW v \in Workers, NEW y \in Executions
        PROVE  Job(v, y)' = IF v = w /\ y = x THEN job ELSE Job(v, y)
    <2>1. CASE v = w /\ y = x
      BY <1>1, <2>1 DEF Job, Seen
    <2>2. CASE ~ (v = w /\ y = x)
      <3>1. work'[v][y] = work[v][y]
        BY <1>1, <2>2
      <3>2. Job(v, y)' = Job(v, y)
        BY <3>1 DEF Job
      <3> QED
        BY <2>2, <3>2
    <2> QED
      BY <2>1, <2>2
  <1>3. Jobs' = new
    BY <1>2 DEF Jobs
  <1>4. new = [Jobs EXCEPT ![w][x] = job]
    BY DEF Jobs
  <1>5. ASSUME Job(w, x) = job PROVE new = Jobs
    BY <1>5 DEF Jobs
  <1> QED
    BY <1>3, <1>4, <1>5

\* What leaves the phases, the targets and the results as they are is not seen by the caller.
LEMMA CallerUnchanged ==
  ASSUME UNCHANGED phase, \A x \in Executions : msgs'[x].sent = msgs[x].sent,
         \A x \in Executions : phase[x] = "results" => future'[x].results = future[x].results
  PROVE  UNCHANGED <<Asked, Outcomes, Got>>
  BY DEF Asked, Outcomes, Outcome, Got

\* An event collected leaves the targets of its message.
LEMMA CollectedSent ==
  ASSUME TypeOK, NEW x \in Executions, NEW w \in Workers, NEW e \in States
  PROVE  Collected(x, w, e).sent = msgs[x].sent
  <1>1. msgs[x] \in Message
    BY DEF TypeOK
  <1> QED
    BY <1>1 DEF Collected, OnResults, PostProcess, Message

\* The steps of the abstract call, in these words.
LEMMA AbstractSteps ==
  /\ Call!vars = <<Asked, Outcomes, Jobs, Got>>
  /\ Call!vars' = <<Asked', Outcomes', Jobs', Got'>>
  /\ \A x \in Executions, w \in Workers :
       /\ \A how \in {"refused", "taken"} :
            w \in msgs[x].sent /\ work[w][x] = "none" /\ Jobs' = [Jobs EXCEPT ![w][x] = how]
              /\ UNCHANGED <<Asked, Outcomes, Got>> => Call!Next
       /\ work[w][x] = "running" /\ Jobs' = [Jobs EXCEPT ![w][x] = "done"]
            /\ UNCHANGED <<Asked, Outcomes, Got>> => Call!Next
  <1>1. Call!vars = <<Asked, Outcomes, Jobs, Got>> /\ Call!vars' = <<Asked', Outcomes', Jobs', Got'>>
    BY DEF Call!vars, Asked, Outcomes, Jobs, Got
  <1>2. ASSUME NEW x \in Executions, NEW w \in Workers, NEW how \in {"refused", "taken"},
               w \in msgs[x].sent, work[w][x] = "none", Jobs' = [Jobs EXCEPT ![w][x] = how],
               UNCHANGED <<Asked, Outcomes, Got>>
        PROVE  Call!Next
    <2>1. Job(w, x) = "none"
      BY <1>2 DEF Job
    <2>2. Call!Answer(w, x, how)
      BY <1>2, <2>1 DEF Call!Answer, Asked, Outcomes, Jobs, Got
    <2> QED
      BY <2>2 DEF Call!Next
  <1>3. ASSUME NEW x \in Executions, NEW w \in Workers,
               work[w][x] = "running", Jobs' = [Jobs EXCEPT ![w][x] = "done"],
               UNCHANGED <<Asked, Outcomes, Got>>
        PROVE  Call!Next
    <2>1. Job(w, x) = "taken"
      BY <1>3 DEF Job
    <2>2. Call!Finish(w, x)
      BY <1>3, <2>1 DEF Call!Finish, Asked, Outcomes, Jobs, Got
    <2> QED
      BY <2>2 DEF Call!Next
  <1> QED
    BY <1>1, <1>2, <1>3

LEMMA ProposeMaps ==
  ASSUME ExecutionInv, NEW x \in Executions, NEW targets \in Targets[x], NEW waits \in Waits[x],
         Propose(x, targets, waits)
  PROVE  Call!Next
  <1>1. TypeOK /\ phase[x] = "new" /\ UNCHANGED work
    BY DEF ExecutionInv, Propose
  <1>2. targets \in SUBSET Workers
    BY TaskExecutionAssumption
  <1>3. Asked' = [Asked EXCEPT ![x] = targets]
    <2> DEFINE m == Posted(Addressed(msgs[x], targets, FALSE))
    <2>1. msgs[x] \in Message
      BY <1>1 DEF TypeOK
    <2>2. m.sent = targets
      BY <2>1 DEF Posted, Addressed, PostProcess, Message
    <2>3. msgs' = [msgs EXCEPT ![x] = m]
      BY DEF Propose
    <2> HIDE DEF m
    <2>4. \A y \in Executions : msgs'[y].sent = IF y = x THEN targets ELSE msgs[y].sent
      BY <1>1, <2>2, <2>3 DEF TypeOK
    <2> QED
      BY <2>4 DEF Asked
  <1>4. \A y \in Executions : /\ y # x => phase'[y] = phase[y]
                              /\ phase'[x] \in {"asks", "waits"}
                              /\ future'[y].results = future[y].results
    BY <1>1 DEF Propose, TypeOK
  <1>5. Outcomes' = [Outcomes EXCEPT ![x] = "pending"]
    <2>1. \A y \in Executions : Outcome(y)' = IF y = x THEN "pending" ELSE Outcome(y)
      BY <1>4 DEF Outcome
    <2> QED
      BY <2>1 DEF Outcomes
  <1>6. Got' = Got /\ Jobs' = Jobs
    BY <1>1, <1>4 DEF Got, Jobs, Job
  <1>7. Outcome(x) = "none"
    BY <1>1 DEF Outcome
  <1>8. Call!Call(x, targets)
    BY <1>3, <1>5, <1>6, <1>7 DEF Call!Call, Call!Becomes, Asked, Outcomes, Jobs, Got
  <1> QED
    BY <1>2, <1>8 DEF Call!Next

LEMMA WorkerMaps ==
  ASSUME ExecutionInv, NEW x \in Executions, NEW w \in Workers,
         Accept(x, w) \/ Enqueue(x, w) \/ Stop(x, w) \/ Fail(x, w)
  PROVE  Call!Next \/ UNCHANGED Call!vars
  <1>1. TypeOK /\ UNCHANGED <<msgs, phase, future>>
    BY DEF ExecutionInv, Accept, Enqueue, Stop, Fail
  <1>2. UNCHANGED <<Asked, Outcomes, Got>>
    BY <1>1, CallerUnchanged
  <1>3. CASE Accept(x, w)
    <2>1. w \in msgs[x].sent /\ work[w][x] = "none"
      BY <1>3 DEF Accept, ExecutionInv, Proposed
    <2>2. CASE work' = [work EXCEPT ![w][x] = "refused"]
      <3>1. WorkBecomes(w, x, "refused") /\ Seen("refused", "refused")
        BY <2>2 DEF WorkBecomes, Seen
      <3>2. Jobs' = [Jobs EXCEPT ![w][x] = "refused"]
        BY <1>1, <3>1, JobStep
      <3> QED
        BY <1>2, <2>1, <3>2, AbstractSteps
    <2>3. CASE work' = [work EXCEPT ![w][x] = "accepted"]
      <3>1. WorkBecomes(w, x, "accepted") /\ Seen("accepted", "taken")
        BY <2>3 DEF WorkBecomes, Seen
      <3>2. Jobs' = [Jobs EXCEPT ![w][x] = "taken"]
        BY <1>1, <3>1, JobStep
      <3> QED
        BY <1>2, <2>1, <3>2, AbstractSteps
    <2> QED
      BY <1>3, <2>2, <2>3 DEF Accept
  <1>4. CASE Enqueue(x, w)
    <2>1. work[w][x] = "accepted" /\ work' = [work EXCEPT ![w][x] = "queued"]
      BY <1>4 DEF Enqueue
    <2>2. Job(w, x) = "taken"
      BY <2>1 DEF Job
    <2>3. WorkBecomes(w, x, "queued") /\ Seen("queued", "taken")
      BY <2>1 DEF WorkBecomes, Seen
    <2>4. Jobs' = Jobs
      BY <1>1, <2>2, <2>3, JobStep
    <2> QED
      BY <1>2, <2>4, AbstractSteps
  <1>5. CASE Stop(x, w) \/ Fail(x, w)
    <2>1. work[w][x] = "running" /\ work' = [work EXCEPT ![w][x] = "ended"]
      BY <1>5 DEF Stop, Fail, Running
    <2>2. WorkBecomes(w, x, "ended") /\ Seen("ended", "done")
      BY <2>1 DEF WorkBecomes, Seen
    <2>3. Jobs' = [Jobs EXCEPT ![w][x] = "done"]
      BY <1>1, <2>2, JobStep
    <2> QED
      BY <1>2, <2>1, <2>3, AbstractSteps
  <1> QED
    BY <1>3, <1>4, <1>5

LEMMA QueueMaps ==
  ASSUME ExecutionInv, NEW w \in Workers, Start(w) \/ Drop(w)
  PROVE  UNCHANGED Call!vars
  <1>1. TypeOK /\ UNCHANGED <<msgs, phase, future>>
    BY DEF ExecutionInv, Start, Drop
  <1>2. UNCHANGED <<Asked, Outcomes, Got>>
    BY <1>1, CallerUnchanged
  <1> DEFINE x == Head(queue[w])
  <1>3. x \in Executions /\ work[w][x] = "queued"
    <2>1. queue[w] \in Seq(Executions) /\ queue[w] # <<>>
      BY <1>1 DEF TypeOK, Start, Drop
    <2>2. 1 \in DOMAIN queue[w] /\ x = queue[w][1] /\ x \in Executions
      BY <2>1
    <2> QED
      BY <2>2 DEF ExecutionInv, Queued
  <1>4. PICK stage \in {"running", "dropped"} : work' = [work EXCEPT ![w][x] = stage]
    BY DEF Start, Drop
  <1> HIDE DEF x
  <1>5. Job(w, x) = "taken" /\ WorkBecomes(w, x, stage) /\ Seen(stage, "taken")
    BY <1>3, <1>4 DEF Job, WorkBecomes, Seen
  <1>6. Jobs' = Jobs
    BY <1>1, <1>3, <1>5, JobStep
  <1> QED
    BY <1>2, <1>6, AbstractSteps

LEMMA QuietMaps ==
  ASSUME ExecutionInv, NEW x \in Executions,
         Timeout(x) \/ \E w \in Workers : Deliver(x, w)
  PROVE  UNCHANGED Call!vars
  <1>1. TypeOK /\ UNCHANGED <<phase, work>>
    BY DEF ExecutionInv, Timeout, Deliver
  <1>2. Jobs' = Jobs
    BY <1>1 DEF Jobs, Job
  <1>3. CASE Timeout(x)
    <2> DEFINE m == PostProcess(msgs[x], "timeout")
    <2>1. m.sent = msgs[x].sent
      BY <1>1, PostProcessed DEF TypeOK
    <2>2. msgs' = [msgs EXCEPT ![x] = m] /\ UNCHANGED future
      BY <1>3 DEF Timeout
    <2> HIDE DEF m
    <2>3. \A y \in Executions : msgs'[y].sent = msgs[y].sent
      BY <1>1, <2>1, <2>2 DEF TypeOK
    <2> QED
      BY <1>1, <1>2, <2>2, <2>3, CallerUnchanged, AbstractSteps
  <1>4. ASSUME NEW w \in Workers, Deliver(x, w) PROVE UNCHANGED Call!vars
    <2> DEFINE e == Head(events[x][w])
               m == Collected(x, w, e)
               f == Noted(future[x], w, e)
    <2>1. e \in States
      <3>1. events[x][w] \in Seq(States) /\ events[x][w] # <<>>
        BY <1>1, <1>4 DEF TypeOK, Deliver
      <3> QED
        BY <3>1
    <2>2. m.sent = msgs[x].sent
      BY <1>1, <2>1, CollectedSent
    <2>3. phase[x] = "results" => f = future[x]
      BY DEF ExecutionInv, Closed, Noted
    <2>4. msgs' = [msgs EXCEPT ![x] = m] /\ future' = [future EXCEPT ![x] = f]
      BY <1>4 DEF Deliver
    <2> HIDE DEF e, m, f
    <2>5. \A y \in Executions : msgs'[y].sent = msgs[y].sent
      BY <1>1, <2>2, <2>4 DEF TypeOK
    <2>6. \A y \in Executions : phase[y] = "results" => future'[y].results = future[y].results
      BY <1>1, <2>3, <2>4 DEF TypeOK
    <2> QED
      BY <1>1, <1>2, <2>5, <2>6, CallerUnchanged, AbstractSteps
  <1> QED
    BY <1>3, <1>4

LEMMA DecideMaps ==
  ASSUME ExecutionInv, ExecutionInv', NEW x \in Executions, Decide(x)
  PROVE  Call!Next
  <1>1. /\ TypeOK /\ phase[x] \in {"asks", "waits"} /\ UNCHANGED work
        /\ msgs' = [msgs EXCEPT ![x] = Unregistered(msgs[x])]
    BY DEF ExecutionInv, Decide
  <1>2. \A y \in Executions : msgs'[y].sent = msgs[y].sent
    <2> DEFINE m == Unregistered(msgs[x])
    <2>1. m.sent = msgs[x].sent
      BY <1>1 DEF Unregistered, TypeOK, Message
    <2> HIDE DEF m
    <2> QED
      BY <1>1, <2>1 DEF TypeOK, m
  <1>3. PICK next \in {"silence", "refused", "awaits", "accepted"} :
          phase' = [phase EXCEPT ![x] = next]
    <2>1. CASE msgs[x].result = <<>>
      BY <2>1 DEF Decide
    <2>2. CASE msgs[x].result # <<>> /\ Refused(x)
      BY <2>2 DEF Decide
    <2>3. CASE msgs[x].result # <<>> /\ ~ Refused(x)
      BY <2>3 DEF Decide
    <2> QED
      BY <2>1, <2>2, <2>3
  <1>4. \A y \in Executions : phase'[y] = IF y = x THEN next ELSE phase[y]
    BY <1>1, <1>3 DEF TypeOK
  <1> DEFINE end == IF next = "awaits" THEN "accepted" ELSE next
  <1>5. Outcomes' = [Outcomes EXCEPT ![x] = end]
    <2>1. \A y \in Executions : Outcome(y)' = IF y = x THEN end ELSE Outcome(y)
      BY <1>4 DEF Outcome
    <2> HIDE DEF end
    <2> QED
      BY <2>1 DEF Outcomes
  <1>6. Asked' = Asked /\ Jobs' = Jobs
    BY <1>1, <1>2 DEF Asked, Jobs, Job
  <1>7. Got' = Got
    <2>1. \A y \in Executions : phase'[y] = "results" <=> phase[y] = "results"
      BY <1>1, <1>4
    <2>2. \A y \in Executions : future'[y].results = future[y].results
      <3>1. PICK open \in BOOLEAN : future' = [future EXCEPT ![x].open = open]
        <4>1. future = [future EXCEPT ![x].open = future[x].open] /\ future[x].open \in BOOLEAN
          BY Calling
        <4>2. future' = future \/ future' = [future EXCEPT ![x].open = FALSE]
          BY DEF Decide
        <4> QED
          BY <4>1, <4>2
      <3> QED
        BY <1>1, <3>1 DEF TypeOK
    <2> QED
      BY <2>1, <2>2 DEF Got
  <1>8. Outcome(x) = "pending"
    BY <1>1 DEF Outcome
  <1>9. next = "refused" => \E w \in msgs[x].sent : Job(w, x) = "refused"
    <2>1. next = "refused" => \E w \in msgs'[x].sent : work'[w][x] = "refused"
      BY <1>4 DEF ExecutionInv, AnswerIsTrue
    <2> QED
      BY <1>1, <1>2, <2>1 DEF Job
  <1>10. next \in {"accepted", "awaits"} => \E w \in msgs[x].sent : Job(w, x) \in {"taken", "done"}
    <2>1. next \in {"accepted", "awaits"} => \E w \in msgs'[x].sent : work'[w][x] \in Taken
      BY <1>4 DEF ExecutionInv, AnswerIsTrue, Taken
    <2> QED
      BY <1>1, <1>2, <2>1 DEF Job, Taken
  <1>11. msgs[x].sent \subseteq Workers
    BY <1>1 DEF TypeOK, Message
  <1>12. Call!Conclude(x, end)
    <2>1. \/ end = "silence"
          \/ end = "refused" /\ \E w \in Asked[x] : Jobs[w][x] = "refused"
          \/ end = "accepted" /\ \E w \in Asked[x] : Jobs[w][x] \in {"taken", "done"}
      BY <1>9, <1>10, <1>11 DEF Asked, Jobs
    <2> HIDE DEF end
    <2> QED
      BY <1>5, <1>6, <1>7, <1>8, <2>1
         DEF Call!Conclude, Call!Becomes, Call!Taken, Asked, Outcomes, Jobs, Got
  <1> QED
    BY <1>12 DEF Call!Next

LEMMA ReturnMaps ==
  ASSUME ExecutionInv, NEW x \in Executions, Return(x)
  PROVE  Call!Next
  <1>1. /\ TypeOK /\ phase[x] = "awaits" /\ ~ future[x].open
        /\ phase' = [phase EXCEPT ![x] = "results"] /\ UNCHANGED <<msgs, future, work>>
    BY DEF ExecutionInv, Return
  <1>2. \A y \in Executions : phase'[y] = IF y = x THEN "results" ELSE phase[y]
    BY <1>1 DEF TypeOK
  <1> DEFINE f == future[x]
             heard == DOMAIN f.states
  <1>3. /\ heard # {} /\ \A w \in heard : f.states[w] \in Terminal
        /\ f.results = {w \in heard : f.states[w] = "stopped"}
    BY <1>1 DEF ExecutionInv, Closed, IsFinished, Stopped
  <1>4. heard \subseteq Workers
    BY <1>1 DEF TypeOK, Heard
  <1>5. /\ \A w \in heard : work[w][x] \in {"ended", "refused"}
        /\ \A w \in f.results : w \in heard /\ work[w][x] = "ended"
    BY <1>3 DEF ExecutionInv, HeardTrue, Says, Terminal
  <1>6. heard \subseteq msgs[x].sent
    BY <1>4, <1>5 DEF ExecutionInv, Proposed
  <1> HIDE DEF heard
  <1>7. Outcomes' = [Outcomes EXCEPT ![x] = "results"]
    <2>1. \A y \in Executions : Outcome(y)' = IF y = x THEN "results" ELSE Outcome(y)
      BY <1>2 DEF Outcome
    <2> QED
      BY <2>1 DEF Outcomes
  <1>8. Asked' = Asked /\ Jobs' = Jobs
    BY <1>1 DEF Asked, Jobs, Job
  <1>9. Got' = [Got EXCEPT ![x] = f.results]
    BY <1>1, <1>2 DEF Got
  <1>10. Outcome(x) = "accepted"
    BY <1>1 DEF Outcome
  <1>11. /\ \A w \in heard : Jobs[w][x] \in {"done", "refused"}
         /\ f.results \subseteq {w \in heard : Jobs[w][x] = "done"}
    BY <1>4, <1>5 DEF Jobs, Job
  <1> HIDE DEF f
  <1>12. PICK some, got : some = heard /\ got = f.results
    OBVIOUS
  <1>13. Call!Return(x, some, got)
    BY <1>3, <1>7, <1>8, <1>9, <1>10, <1>11, <1>12
       DEF Call!Return, Call!Becomes, Asked, Outcomes, Jobs, Got
  <1>14. some \in SUBSET Asked[x] /\ got \in SUBSET Asked[x]
    BY <1>5, <1>6, <1>12 DEF Asked
  <1> QED
    BY <1>13, <1>14 DEF Call!Next, Asked

\* The executor, its futures and the workers keep what RemoteCall promises: no step of the bus, a
\* timer or a queue lets a worker execute twice or unasked, or tells the caller what is not so.
THEOREM Implementation == Spec => ImplementsCall
  <1>1. ASSUME Init PROVE Call!Init
    <2>1. \A x \in Executions : msgs[x].sent = {} /\ phase[x] = "new"
      BY <1>1 DEF Init, Fresh
    <2>2. \A w \in Workers, x \in Executions : work[w][x] = "none"
      BY <1>1 DEF Init
    <2> QED
      BY <2>1, <2>2 DEF Call!Init, Outcome, Job
  <1>2. ASSUME ExecutionInv, ExecutionInv', [Next]_vars PROVE [Call!Next]_(Call!vars)
    <2>1. CASE UNCHANGED vars
      <3>1. UNCHANGED <<Asked, Outcomes, Jobs, Got>>
        BY <2>1 DEF vars, Asked, Outcomes, Outcome, Jobs, Job, Got
      <3> QED
        BY <3>1, AbstractSteps
    <2>2. CASE Next
      BY <1>2, <2>2, ProposeMaps, WorkerMaps, QueueMaps, QuietMaps, DecideMaps, ReturnMaps
         DEF Next, Serve
    <2> QED
      BY <1>2, <2>1, <2>2
  <1> QED
    BY <1>1, <1>2, ExecutionInvariant, PTL DEF Spec, ImplementsCall, Call!Spec
=============================================================================
