---------------------------- MODULE TaskLogProofs ----------------------------
(***************************************************************************)
(* Proofs about TaskLog for any workers, monitors and failures: in the end *)
(* there is one row per target, and it says that the run has stopped.      *)
(***************************************************************************)
EXTENDS TaskLog, FiniteSetTheorems, FunctionTheorems, TLAPS

\* The row with number n is the first of target w in R.
IsFirst(R, w, n) ==
  /\ \E r \in R : r.row = n /\ r.target = w
  /\ \A r \in R : r.target = w => n <= r.row

\* A number is of one row in R.
OneEach(R) == \A q, r \in R : q.row = r.row => q = r

\* A save of p is going to come.
More(p) ==
  \/ p \in Workers /\ run[p] \in {"new", "started", "running"}
  \/ p \in Monitors /\ \E w \in Workers \ {p} : run[w] # "over" \/ events[p][w] # <<>>

-----------------------------------------------------------------------------
\* The rows: each target has its first one, and every save that has found any knows the
\* first of each target.
RowsKept ==
  /\ OneEach(rows)
  /\ rows # {} => \A w \in Workers : \E n \in Nat : IsFirst(rows, w, n)

FoundFits(s) ==
  /\ OneEach(s.found)
  /\ s.at = "find" => s.found = {}
  /\ s.at = "remove" => s.found # {}
  /\ s.found # {} =>
       /\ rows # {}
       /\ \A w \in Workers : \A n \in Nat : IsFirst(rows, w, n) => IsFirst(s.found, w, n)
       /\ \A q \in s.found : \A r \in rows : q.row = r.row => q.target = r.target

FoundKept == \A p \in Processes : \A s \in saving[p] : FoundFits(s)

\* A save of p may still make rows: it has found none.
Blank(p) == rows = {} \/ \E s \in saving[p] : s.at = "save" /\ s.found = {}

\* What p, before or at its first save, has heard of w: it begins with "started", and the
\* word of a run that is over is on its way or waits.
HeardOf(p, w) ==
  /\ waiting[p] = <<>> /\ events[p][w] # <<>> => events[p][w][1] = "started"
  /\ run[w] # "new" => events[p][w] # <<>> \/ waiting[p] # <<>>
  /\ run[w] = "over" =>
       \/ Len(events[p][w]) > 1
       \/ waiting[p] # <<>> /\ (events[p][w] # <<>> \/ waiting[p][1] # <<>>)

\* p is before or at its first save, and behind that waits what its runner goes on with.
AtFirstSave(p) ==
  /\ timers[p] = <<>> /\ Len(waiting[p]) <= 1 /\ semaphore[p] = Len(waiting[p])
  /\ waiting[p] # <<>> => saving[p] # {}
  /\ \A s \in saving[p] : s.sem = 1 /\ s.state = "started" /\ s.found = {} /\ saving[p] = {s}
  /\ p \in Workers /\ run[p] \in {"running", "stopped", "over"} =>
       waiting[p] # <<>> /\ waiting[p][1] # <<>>
  /\ p \in Monitors => \A w \in Workers \ {p} : HeardOf(p, w)

FirstSaves == \A p \in Processes : Blank(p) => AtFirstSave(p)

\* p is going to find the row n and to remove it, or a save of it has failed.
WillRemove(p, n) ==
  \/ \E s \in saving[p] :
       \/ s.at \in {"failed", "find"}
       \/ s.at \in {"save", "remove"} /\ n \in ToRemove(s)
  \/ saving[p] = {} /\ (\A k \in DOMAIN waiting[p] : waiting[p][k] = <<>>) /\ More(p)

ExtrasGo ==
  \A r \in rows : IsFirst(rows, r.target, r.row) \/ \E p \in Processes : WillRemove(p, r.row)

\* What a monitor will hear last of a run that is over is that it has stopped.
EventsInOrder ==
  \A m \in Monitors : \A w \in Workers \ {m} :
    run[w] = "over" /\ events[m][w] # <<>> => events[m][w][Len(events[m][w])] = "stopped"

\* A monitor hears nothing of the runner of its own process.
NotToItself == \A m \in Monitors \cap Workers : events[m][m] = <<>>

LogInv == TypeInvariant /\ RowsKept /\ FoundKept /\ NotToItself /\ FirstSaves /\ ExtrasGo

-----------------------------------------------------------------------------
\* Without a clean-up under a save, the saves of p come one after the other.
InTurn(p) ==
  /\ \A s \in saving[p] : s.sem = semaphore[p] /\ saving[p] = {s}
  /\ \A k \in DOMAIN waiting[p] : waiting[p][k] # <<>> => k = semaphore[p] /\ saving[p] # {}

\* The last that p has asked for, unless there is more to come.
EndsStopped(p) ==
  \/ More(p)
  \/ /\ \A k \in DOMAIN waiting[p] :
          waiting[p][k] # <<>> => waiting[p][k][Len(waiting[p][k])] = "stopped"
     /\ \A s \in saving[p] : \/ s.state = "stopped" \/ s.at = "failed"
                             \/ waiting[p][s.sem] # <<>>

\* p is going to write "stopped" to the first rows, or a save of it has failed.
WillStop(p) ==
  \/ \E s \in saving[p] :
       \/ s.at = "failed"
       \/ s.state = "stopped" /\ (s.at = "find" \/ (s.at = "save" /\ s.found # {}))
       \/ waiting[p][s.sem] # <<>> /\ waiting[p][s.sem][Len(waiting[p][s.sem])] = "stopped"
  \/ More(p)

FirstsStopped == \A r \in rows : IsFirst(rows, r.target, r.row) => r.state = "stopped"

StopInv ==
  /\ EventsInOrder
  /\ \A p \in Processes \ disturbed : InTurn(p) /\ EndsStopped(p)
  /\ disturbed = {} => FirstsStopped \/ \E p \in Processes : WillStop(p)

-----------------------------------------------------------------------------
\* Rows

\* The same rows, whatever they say.
SameRows(R, Q) ==
  /\ \A r \in R : \E q \in Q : q.row = r.row /\ q.target = r.target
  /\ \A q \in Q : \E r \in R : q.row = r.row /\ q.target = r.target

LEMMA SameFirsts ==
  ASSUME NEW R, NEW Q, SameRows(R, Q), NEW w, NEW n
  PROVE  IsFirst(R, w, n) <=> IsFirst(Q, w, n)
  BY DEF SameRows, IsFirst

LEMMA OneFirst ==
  ASSUME NEW R, NEW w, NEW n \in Nat, NEW k \in Nat, IsFirst(R, w, n), IsFirst(R, w, k)
  PROVE  n = k
  <1>1. n <= k /\ k <= n
    BY DEF IsFirst
  <1> QED
    BY <1>1

\* What is chosen of each target is its first row.
LEMMA FirstIsKept ==
  ASSUME NEW s, OneEach(s.found), \A r \in s.found : r.row \in Nat, NEW w, NEW n \in Nat,
         IsFirst(s.found, w, n)
  PROVE  Kept(s, w) \in s.found /\ Kept(s, w).row = n /\ Kept(s, w).target = w
  <1>1. PICK r \in s.found : r.row = n /\ r.target = w
    BY DEF IsFirst
  <1>2. \A q \in FoundFor(s, w) : r.row <= q.row
    BY <1>1 DEF FoundFor, IsFirst
  <1>3. r \in FoundFor(s, w)
    BY <1>1 DEF FoundFor
  <1> DEFINE k == Kept(s, w)
  <1>4. k \in FoundFor(s, w) /\ \A q \in FoundFor(s, w) : k.row <= q.row
    BY <1>2, <1>3 DEF Kept
  <1> HIDE DEF k
  <1>5. k \in s.found /\ k.target = w /\ k.row <= n /\ n <= k.row
    BY <1>1, <1>2, <1>3, <1>4 DEF FoundFor
  <1>6. k.row = n
    BY <1>5
  <1> QED
    BY <1>5, <1>6 DEF k

\* Removed are the rows beside the first of their target, and no first one.
LEMMA ExtrasRemoved ==
  ASSUME NEW s, OneEach(s.found), \A r \in s.found : r.row \in Nat /\ r.target \in Workers,
         \A w \in Workers : \E n \in Nat : IsFirst(s.found, w, n)
  PROVE  /\ \A w \in Workers : \A n \in Nat : IsFirst(s.found, w, n) => n \notin ToRemove(s)
         /\ \A r \in s.found : IsFirst(s.found, r.target, r.row) \/ r.row \in ToRemove(s)
  <1>1. ASSUME NEW w \in Workers, NEW n \in Nat, IsFirst(s.found, w, n), n \in ToRemove(s)
        PROVE  FALSE
    <2>1. PICK q \in s.found : q.row = n /\ q # Kept(s, q.target)
      BY <1>1 DEF ToRemove
    <2>2. Kept(s, w) \in s.found /\ Kept(s, w).row = n /\ Kept(s, w).target = w
      BY <1>1, FirstIsKept
    <2>3. q = Kept(s, w)
      BY <2>1, <2>2 DEF OneEach
    <2> QED
      BY <2>1, <2>2, <2>3
  <1>2. ASSUME NEW r \in s.found, ~ IsFirst(s.found, r.target, r.row)
        PROVE  r.row \in ToRemove(s)
    <2>1. PICK n \in Nat : IsFirst(s.found, r.target, n)
      OBVIOUS
    <2>2. Kept(s, r.target).row = n
      BY <2>1, FirstIsKept
    <2>3. r # Kept(s, r.target)
      BY <1>2, <2>1, <2>2
    <2> QED
      BY <2>3 DEF ToRemove
  <1> QED
    BY <1>1, <1>2

\* One row is made for each target, with a number of its own.
LEMMA RowsMade ==
  ASSUME TypeInvariant, NEW s, s.found = {}
  PROVE  LET n == rowNr + Cardinality(Missing(s)) IN
         /\ Missing(s) = Workers /\ n \in Nat /\ rowNr <= n
         /\ \A r \in NewRows(s) : /\ r = [row |-> r.row, target |-> r.target, state |-> s.state]
                                  /\ r.row \in rowNr + 1 .. n /\ r.target \in Workers
         /\ \A w \in Workers : \E r \in NewRows(s) : r.target = w
         /\ \A q, r \in NewRows(s) : q.row = r.row \/ q.target = r.target => q = r
  <1>1. Missing(s) = Workers
    BY DEF Missing, FoundFor
  <1> DEFINE c == Cardinality(Workers)
  <1>2. c \in Nat /\ Bijection(1 .. c, Workers) # {}
    BY TaskLogAssumption, FS_CardinalityType DEF ExistsBijection
  <1> DEFINE order == CHOOSE o \in Bijection(1 .. c, Workers) : TRUE
  <1>3. order \in Bijection(1 .. c, Workers)
    BY <1>2
  <1>4. NewRows(s) = {[row |-> rowNr + k, target |-> order[k], state |-> s.state] : k \in 1 .. c}
    BY <1>1 DEF NewRows, NumberedAbove
  <1> HIDE DEF c, order
  <1>5. /\ order \in [1 .. c -> Workers]
        /\ \A i, j \in 1 .. c : order[i] = order[j] => i = j
        /\ \A w \in Workers : \E i \in 1 .. c : order[i] = w
    BY <1>3 DEF Bijection, Injection, Surjection, IsInjective
  <1>6. rowNr \in Nat
    BY DEF TypeInvariant
  <1>7. \A r \in NewRows(s) : \E k \in 1 .. c :
          r = [row |-> rowNr + k, target |-> order[k], state |-> s.state]
    BY <1>4
  <1>8. \A r \in NewRows(s) : /\ r = [row |-> r.row, target |-> r.target, state |-> s.state]
                              /\ r.row \in rowNr + 1 .. rowNr + c /\ r.target \in Workers
    <2> SUFFICES ASSUME NEW r \in NewRows(s)
                 PROVE  /\ r = [row |-> r.row, target |-> r.target, state |-> s.state]
                        /\ r.row \in rowNr + 1 .. rowNr + c /\ r.target \in Workers
      OBVIOUS
    <2>1. PICK k \in 1 .. c : r = [row |-> rowNr + k, target |-> order[k], state |-> s.state]
      BY <1>7
    <2>2. r.row = rowNr + k /\ r.target = order[k]
      BY <2>1
    <2>3. rowNr + k \in rowNr + 1 .. rowNr + c
      BY <1>2, <1>6
    <2> QED
      BY <1>5, <2>1, <2>2, <2>3
  <1>9. ASSUME NEW w \in Workers PROVE \E r \in NewRows(s) : r.target = w
    <2>1. PICK k \in 1 .. c : order[k] = w
      BY <1>5
    <2> DEFINE r == [row |-> rowNr + k, target |-> order[k], state |-> s.state]
    <2>2. r \in NewRows(s) /\ r.target = w
      BY <1>4, <2>1
    <2> QED
      BY <2>2
  <1>10. ASSUME NEW q \in NewRows(s), NEW r \in NewRows(s), q.row = r.row \/ q.target = r.target
         PROVE  q = r
    <2>1. PICK i \in 1 .. c : q = [row |-> rowNr + i, target |-> order[i], state |-> s.state]
      BY <1>7
    <2>2. PICK j \in 1 .. c : r = [row |-> rowNr + j, target |-> order[j], state |-> s.state]
      BY <1>7
    <2>3. /\ q.row = rowNr + i /\ r.row = rowNr + j
          /\ q.target = order[i] /\ r.target = order[j]
      BY <2>1, <2>2
    <2>4. rowNr + i = rowNr + j => i = j
      BY <1>2, <1>6
    <2>5. i = j
      BY <1>5, <1>10, <2>3, <2>4
    <2> QED
      BY <2>1, <2>2, <2>5
  <1>11. rowNr + c \in Nat /\ rowNr <= rowNr + c
    BY <1>2, <1>6
  <1> QED
    BY <1>1, <1>8, <1>9, <1>10, <1>11 DEF c

-----------------------------------------------------------------------------
\* The semaphores

LEMMA QueueSet ==
  ASSUME NEW Q \in Seq(Seq(States)), NEW n \in DOMAIN Q, NEW x \in Seq(States)
  PROVE  /\ [Q EXCEPT ![n] = x] \in Seq(Seq(States))
         /\ Len([Q EXCEPT ![n] = x]) = Len(Q) /\ DOMAIN [Q EXCEPT ![n] = x] = DOMAIN Q
         /\ [Q EXCEPT ![n] = x][n] = x
         /\ \A k \in DOMAIN Q \ {n} : [Q EXCEPT ![n] = x][k] = Q[k]
  OBVIOUS

LEMMA QueueMade ==
  ASSUME NEW Q \in Seq(Seq(States))
  PROVE  /\ Append(Q, <<>>) \in Seq(Seq(States)) /\ Len(Append(Q, <<>>)) = Len(Q) + 1
         /\ DOMAIN Append(Q, <<>>) = 1 .. Len(Q) + 1 /\ DOMAIN Q = 1 .. Len(Q) /\ Len(Q) \in Nat
         /\ Append(Q, <<>>)[Len(Q) + 1] = <<>>
         /\ \A k \in DOMAIN Q : Append(Q, <<>>)[k] = Q[k]
  <1>1. <<>> \in Seq(States)
    OBVIOUS
  <1> QED
    BY <1>1

\* What save() does: the states wait behind those that use semaphore n, or the first of
\* them holds it.
Adds(p, n, states) ==
  /\ n = IF semaphore[p] = 0 THEN Len(waiting[p]) + 1 ELSE semaphore[p]
  /\ semaphore' = [semaphore EXCEPT ![p] = n]
  /\ waiting' \in [Processes -> Seq(Seq(States))]
  /\ DOMAIN waiting'[p] = DOMAIN waiting[p] \cup {n}
  /\ Len(waiting'[p]) = IF semaphore[p] = 0 THEN n ELSE Len(waiting[p])
  /\ \A k \in DOMAIN waiting[p] \ {n} : waiting'[p][k] = waiting[p][k]
  /\ \A q \in Processes \ {p} : waiting'[q] = waiting[q]
  /\ \/ /\ InUse(p, n) /\ semaphore[p] = n /\ n \in DOMAIN waiting[p] /\ saving' = saving
        /\ waiting'[p][n] = waiting[p][n] \o states
     \/ /\ ~ InUse(p, n) /\ waiting'[p][n] = Tail(states)
        /\ saving' = [saving EXCEPT ![p] = @ \cup {Holding(n, Head(states))}]
  /\ UNCHANGED <<timers, disturbed>>

LEMMA SaveAdds ==
  ASSUME TypeInvariant, NEW p \in Processes, NEW states \in Seq(States), states # <<>>,
         Save(p, states)
  PROVE  \E n \in Nat \ {0} : Adds(p, n, states)
  <1> DEFINE Q == waiting[p]
             n == IF semaphore[p] = 0 THEN Len(Q) + 1 ELSE semaphore[p]
             queues == IF semaphore[p] = 0 THEN Append(Q, <<>>) ELSE Q
  <1>1. /\ Q \in Seq(Seq(States)) /\ waiting \in [Processes -> Seq(Seq(States))]
        /\ semaphore \in [Processes -> Nat] /\ semaphore[p] \in {0} \cup DOMAIN Q
        /\ \A s \in saving[p] : s.sem \in DOMAIN Q
    BY DEF TypeInvariant
  <1>2. /\ semaphore' = [semaphore EXCEPT ![p] = n]
        /\ \/ /\ InUse(p, n) /\ saving' = saving
              /\ waiting' = [waiting EXCEPT ![p] = [queues EXCEPT ![n] = @ \o states]]
           \/ /\ ~ InUse(p, n)
              /\ saving' = [saving EXCEPT ![p] = @ \cup {Holding(n, Head(states))}]
              /\ waiting' = [waiting EXCEPT ![p] = [queues EXCEPT ![n] = Tail(states)]]
        /\ UNCHANGED <<timers, disturbed>>
    BY DEF Save
  <1>3. /\ queues \in Seq(Seq(States)) /\ DOMAIN queues = DOMAIN Q \cup {n} /\ n \in Nat \ {0}
        /\ Len(queues) = IF semaphore[p] = 0 THEN n ELSE Len(Q)
        /\ \A k \in DOMAIN Q \ {n} : queues[k] = Q[k]
        /\ semaphore[p] # 0 => n = semaphore[p] /\ n \in DOMAIN Q /\ queues[n] = Q[n]
        /\ semaphore[p] = 0 => n \notin DOMAIN Q
    <2>1. CASE semaphore[p] = 0
      <3>1. /\ Append(Q, <<>>) \in Seq(Seq(States)) /\ Len(Append(Q, <<>>)) = Len(Q) + 1
            /\ DOMAIN Append(Q, <<>>) = 1 .. Len(Q) + 1 /\ DOMAIN Q = 1 .. Len(Q)
            /\ Len(Q) \in Nat
            /\ \A k \in DOMAIN Q : Append(Q, <<>>)[k] = Q[k]
        BY <1>1, QueueMade
      <3>2. n = Len(Q) + 1 /\ queues = Append(Q, <<>>)
        BY <2>1
      <3>3. /\ 1 .. Len(Q) + 1 = (1 .. Len(Q)) \cup {Len(Q) + 1} /\ Len(Q) + 1 \in Nat \ {0}
            /\ Len(Q) + 1 \notin 1 .. Len(Q)
        BY <3>1
      <3> HIDE DEF Q, n, queues
      <3> QED
        BY <2>1, <3>1, <3>2, <3>3
    <2>2. CASE semaphore[p] # 0
      <3>1. n = semaphore[p] /\ queues = Q /\ n \in DOMAIN Q
        BY <1>1, <2>2
      <3>2. DOMAIN Q \subseteq Nat \ {0}
        BY <1>1
      <3> HIDE DEF Q, n, queues
      <3> QED
        BY <1>1, <2>2, <3>1, <3>2
    <2> QED
      BY <2>1, <2>2
  <1>4. InUse(p, n) => semaphore[p] = n /\ n \in DOMAIN Q
    BY <1>1, <1>3 DEF InUse
  <1> HIDE DEF Q, n, queues
  <1>5. PICK x \in Seq(States) :
          /\ waiting' = [waiting EXCEPT ![p] = [queues EXCEPT ![n] = x]]
          /\ \/ InUse(p, n) /\ x = Q[n] \o states /\ saving' = saving
             \/ /\ ~ InUse(p, n) /\ x = Tail(states)
                /\ saving' = [saving EXCEPT ![p] = @ \cup {Holding(n, Head(states))}]
    <2>1. CASE InUse(p, n)
      <3>1. /\ saving' = saving /\ waiting' = [waiting EXCEPT ![p] = [queues EXCEPT ![n] = @ \o states]]
            /\ queues[n] = Q[n] /\ Q[n] \in Seq(States) /\ n \in DOMAIN queues
        BY <1>1, <1>2, <1>3, <1>4, <2>1
      <3>2. Q[n] \o states \in Seq(States)
        BY <3>1
      <3>3. [queues EXCEPT ![n] = @ \o states] = [queues EXCEPT ![n] = Q[n] \o states]
        BY <3>1
      <3> QED
        BY <2>1, <3>1, <3>2, <3>3
    <2>2. CASE ~ InUse(p, n)
      <3>1. Tail(states) \in Seq(States)
        OBVIOUS
      <3> QED
        BY <1>2, <2>2, <3>1
    <2> QED
      BY <2>1, <2>2
  <1> DEFINE R == [queues EXCEPT ![n] = x]
  <1>6. /\ R \in Seq(Seq(States)) /\ Len(R) = Len(queues) /\ DOMAIN R = DOMAIN queues
        /\ R[n] = x /\ \A k \in DOMAIN queues \ {n} : R[k] = queues[k]
    BY <1>3, QueueSet
  <1> HIDE DEF R
  <1>7. /\ waiting' \in [Processes -> Seq(Seq(States))] /\ waiting'[p] = R
        /\ \A q \in Processes \ {p} : waiting'[q] = waiting[q]
    BY <1>1, <1>5, <1>6 DEF R
  <1>8. n = IF semaphore[p] = 0 THEN Len(waiting[p]) + 1 ELSE semaphore[p]
    BY DEF n, Q
  <1>9. Adds(p, n, states)
    BY <1>2, <1>3, <1>4, <1>5, <1>6, <1>7, <1>8 DEF Adds, Q
  <1> QED
    BY <1>3, <1>9

\* What release() does: the first that waits holds the semaphore, or a timer is set.
Frees(p, s) ==
  /\ waiting' \in [Processes -> Seq(Seq(States))] /\ DOMAIN waiting'[p] = DOMAIN waiting[p]
  /\ Len(waiting'[p]) = Len(waiting[p])
  /\ \A q \in Processes \ {p} : waiting'[q] = waiting[q]
  /\ \A k \in DOMAIN waiting[p] \ {s.sem} : waiting'[p][k] = waiting[p][k]
  /\ \/ /\ waiting[p][s.sem] = <<>> /\ waiting'[p] = waiting[p]
        /\ saving' = [saving EXCEPT ![p] = @ \ {s}]
        /\ timers' = [timers EXCEPT ![p] = Append(@, s.sem)]
     \/ /\ waiting[p][s.sem] # <<>> /\ waiting'[p][s.sem] = Tail(waiting[p][s.sem])
        /\ saving' = [saving EXCEPT ![p] = (@ \ {s}) \cup {Holding(s.sem, Head(waiting[p][s.sem]))}]
        /\ UNCHANGED timers
  /\ UNCHANGED <<semaphore, disturbed>>

LEMMA ReleaseFrees ==
  ASSUME TypeInvariant, NEW p \in Processes, NEW s \in saving[p], Release(p, s)
  PROVE  Frees(p, s)
  <1> DEFINE Q == waiting[p]
  <1>1. /\ waiting \in [Processes -> Seq(Seq(States))] /\ Q \in Seq(Seq(States))
        /\ s.sem \in DOMAIN Q /\ Q[s.sem] \in Seq(States)
    BY DEF TypeInvariant
  <1>2. CASE Q[s.sem] = <<>>
    <2>1. waiting' = waiting
      BY <1>2 DEF Release
    <2> QED
      BY <1>1, <1>2, <2>1 DEF Release, Frees
  <1>3. CASE Q[s.sem] # <<>>
    <2> DEFINE x == Tail(Q[s.sem])
               R == [Q EXCEPT ![s.sem] = x]
    <2>1. x \in Seq(States)
      BY <1>1, <1>3
    <2>2. waiting' = [waiting EXCEPT ![p] = R]
      BY <1>1, <1>3 DEF Release, Served
    <2> HIDE DEF x
    <2>3. /\ R \in Seq(Seq(States)) /\ Len(R) = Len(Q) /\ DOMAIN R = DOMAIN Q
          /\ R[s.sem] = x /\ \A k \in DOMAIN Q \ {s.sem} : R[k] = Q[k]
      BY <1>1, <2>1, QueueSet
    <2> HIDE DEF R
    <2>4. /\ waiting' \in [Processes -> Seq(Seq(States))] /\ waiting'[p] = R
          /\ \A q \in Processes \ {p} : waiting'[q] = waiting[q]
      BY <1>1, <2>2, <2>3
    <2>5. /\ saving' = [saving EXCEPT ![p] = (@ \ {s}) \cup {Holding(s.sem, Head(Q[s.sem]))}]
          /\ UNCHANGED <<timers, semaphore, disturbed>>
      BY <1>3 DEF Release, Served
    <2> QED
      BY <1>3, <2>3, <2>4, <2>5 DEF Frees, x
  <1> QED
    BY <1>2, <1>3

-----------------------------------------------------------------------------
\* Types

LEMMA RowsWiden ==
  ASSUME rowNr \in Nat, rowNr' \in Nat, rowNr <= rowNr'
  PROVE  Row \subseteq Row' /\ Holder \subseteq Holder'
  <1>1. 1 .. rowNr \subseteq 1 .. rowNr'
    OBVIOUS
  <1>2. Row \subseteq Row'
    BY <1>1 DEF Row
  <1> QED
    BY <1>2 DEF Holder

RowTypes == rowNr \in Nat /\ rows \subseteq Row

LockTypes ==
  /\ waiting \in [Processes -> Seq(Seq(States))]
  /\ semaphore \in [Processes -> Nat] /\ timers \in [Processes -> Seq(Nat)]
  /\ saving \in [Processes -> SUBSET Holder] /\ disturbed \subseteq Processes
  /\ \A p \in Processes :
       /\ semaphore[p] \in {0} \cup DOMAIN waiting[p]
       /\ \A k \in DOMAIN timers[p] : timers[p][k] \in DOMAIN waiting[p]
       /\ \A s \in saving[p] : s.sem \in DOMAIN waiting[p]

RunTypes ==
  /\ run \in [Workers -> {"new", "started", "running", "stopped", "over"}]
  /\ progress \in [Workers -> 0 .. MaxProgress]
  /\ events \in [Monitors -> [Workers -> Seq(States)]]

LEMMA TypeParts == TypeInvariant <=> RunTypes /\ RowTypes /\ LockTypes
  BY DEF TypeInvariant, RunTypes, RowTypes, LockTypes

\* Setting the saves of one process.
LEMMA SavesSet ==
  ASSUME saving \in [Processes -> SUBSET Holder], Holder \subseteq Holder', NEW p \in Processes,
         NEW S \in SUBSET Holder', saving' = [saving EXCEPT ![p] = S]
  PROVE  /\ saving' \in [Processes -> SUBSET Holder'] /\ saving'[p] = S
         /\ \A q \in Processes \ {p} : saving'[q] = saving[q]
  OBVIOUS

LEMMA AddsTyped ==
  ASSUME TypeInvariant, NEW p \in Processes, NEW n \in Nat \ {0}, NEW states \in Seq(States),
         states # <<>>, Adds(p, n, states), UNCHANGED rowNr
  PROVE  LockTypes'
  <1>1. LockTypes /\ Holder \subseteq Holder'
    BY TypeParts, RowsWiden DEF RowTypes
  <1> DEFINE h == Holding(n, Head(states))
  <1>2. h \in Holder /\ h.sem = n
    BY DEF Holding, Holder
  <1> HIDE DEF h
  <1>3. saving' \in [Processes -> SUBSET Holder']
        /\ \A q \in Processes : \A s \in saving'[q] : s \in saving[q] \/ (q = p /\ s.sem = n)
    <2>1. CASE saving' = saving
      BY <1>1, <2>1 DEF LockTypes
    <2>2. CASE saving' = [saving EXCEPT ![p] = @ \cup {h}]
      <3>1. saving \in [Processes -> SUBSET Holder]
        BY <1>1 DEF LockTypes
      <3>2. saving[p] \cup {h} \in SUBSET Holder'
        BY <1>1, <1>2, <3>1
      <3>3. saving' = [saving EXCEPT ![p] = saving[p] \cup {h}]
        BY <2>2, <3>1
      <3>4. /\ saving' \in [Processes -> SUBSET Holder'] /\ saving'[p] = saving[p] \cup {h}
            /\ \A q \in Processes \ {p} : saving'[q] = saving[q]
        BY ONLY <1>1, <3>1, <3>2, <3>3, p \in Processes, SavesSet
      <3> QED
        BY <1>2, <3>4
    <2> QED
      BY <2>1, <2>2 DEF Adds, h
  <1>4. semaphore' \in [Processes -> Nat] /\ semaphore'[p] = n
        /\ \A q \in Processes \ {p} : semaphore'[q] = semaphore[q]
    BY <1>1 DEF LockTypes, Adds
  <1>5. \A q \in Processes : DOMAIN waiting[q] \subseteq DOMAIN waiting'[q]
    BY DEF Adds
  <1>6. n \in DOMAIN waiting'[p] /\ waiting' \in [Processes -> Seq(Seq(States))]
        /\ UNCHANGED <<timers, disturbed>>
    BY DEF Adds
  <1> QED
    BY <1>1, <1>3, <1>4, <1>5, <1>6 DEF LockTypes

LEMMA FreesTyped ==
  ASSUME TypeInvariant, NEW p \in Processes, NEW s \in saving[p], Frees(p, s),
         rowNr' \in Nat, rowNr <= rowNr'
  PROVE  LockTypes'
  <1>1. LockTypes /\ Holder \subseteq Holder' /\ saving \in [Processes -> SUBSET Holder]
    BY TypeParts, RowsWiden DEF RowTypes, LockTypes
  <1>2. s.sem \in DOMAIN waiting[p] /\ s.sem \in Nat /\ waiting[p][s.sem] \in Seq(States)
    BY <1>1 DEF LockTypes, Holder
  <1> DEFINE h == Holding(s.sem, Head(waiting[p][s.sem]))
  <1>3. waiting[p][s.sem] # <<>> => h \in Holder /\ h.sem = s.sem
    BY <1>2 DEF Holding, Holder
  <1> HIDE DEF h
  <1>4. saving' \in [Processes -> SUBSET Holder']
        /\ \A q \in Processes : \A t \in saving'[q] : t \in saving[q] \/ (q = p /\ t.sem = s.sem)
    <2>1. PICK S \in SUBSET Holder' : /\ saving' = [saving EXCEPT ![p] = S]
                                     /\ \A t \in S : t \in saving[p] \/ t.sem = s.sem
      <3>1. CASE waiting[p][s.sem] = <<>>
        <4>1. saving[p] \ {s} \in SUBSET Holder' /\ saving' = [saving EXCEPT ![p] = saving[p] \ {s}]
          BY <1>1, <3>1 DEF Frees
        <4> QED
          BY <4>1
      <3>2. CASE waiting[p][s.sem] # <<>>
        <4> DEFINE S == (saving[p] \ {s}) \cup {h}
        <4>1. saving' = [saving EXCEPT ![p] = S]
          BY <1>1, <3>2 DEF Frees, h
        <4>2. S \in SUBSET Holder' /\ \A t \in S : t \in saving[p] \/ t.sem = s.sem
          BY <1>1, <1>3, <3>2
        <4> QED
          BY <4>1, <4>2
      <3> QED
        BY <3>1, <3>2
    <2>2. /\ saving' \in [Processes -> SUBSET Holder'] /\ saving'[p] = S
          /\ \A q \in Processes \ {p} : saving'[q] = saving[q]
      BY <1>1, <2>1, SavesSet
    <2> QED
      BY <2>1, <2>2
  <1>5. timers' \in [Processes -> Seq(Nat)]
        /\ \A q \in Processes : \A k \in DOMAIN timers'[q] :
              (k \in DOMAIN timers[q] /\ timers'[q][k] = timers[q][k]) \/ (q = p /\ timers'[q][k] = s.sem)
    <2>1. CASE timers' = timers
      BY <1>1, <2>1 DEF LockTypes
    <2>2. CASE timers' = [timers EXCEPT ![p] = Append(@, s.sem)]
      <3>1. timers[p] \in Seq(Nat)
        BY <1>1 DEF LockTypes
      <3>2. /\ Append(timers[p], s.sem) \in Seq(Nat)
            /\ \A k \in DOMAIN Append(timers[p], s.sem) :
                  \/ k \in DOMAIN timers[p] /\ Append(timers[p], s.sem)[k] = timers[p][k]
                  \/ Append(timers[p], s.sem)[k] = s.sem
        BY <1>2, <3>1
      <3> QED
        BY <1>1, <2>2, <3>2 DEF LockTypes
    <2> QED
      BY <2>1, <2>2 DEF Frees
  <1>6. \A q \in Processes : DOMAIN waiting'[q] = DOMAIN waiting[q]
    BY DEF Frees
  <1>7. waiting' \in [Processes -> Seq(Seq(States))] /\ UNCHANGED <<semaphore, disturbed>>
    BY DEF Frees
  <1> QED
    BY <1>1, <1>2, <1>4, <1>5, <1>6, <1>7 DEF LockTypes

-----------------------------------------------------------------------------
\* What a save does to the rows

\* What a save has found is of the types of rows.
LEMMA FoundTypes ==
  ASSUME TypeInvariant, NEW p \in Processes, NEW s \in saving[p]
  PROVE  /\ s \in Holder /\ s.sem \in DOMAIN waiting[p] /\ s.state \in States
         /\ s.found \subseteq Row
         /\ \A r \in s.found : r.row \in Nat /\ r.target \in Workers
         /\ \A r \in rows : r.row \in Nat /\ r.row <= rowNr /\ r.target \in Workers
         /\ rowNr \in Nat
  <1>1. s \in Holder /\ s.sem \in DOMAIN waiting[p] /\ rows \subseteq Row /\ rowNr \in Nat
    BY DEF TypeInvariant
  <1>2. s.found \subseteq Row /\ s.state \in States
    BY <1>1 DEF Holder
  <1>3. \A r \in Row : r.row \in Nat /\ r.row <= rowNr /\ r.target \in Workers
    BY <1>1 DEF Row
  <1> QED
    BY <1>1, <1>2, <1>3

\* A save that has found any rows keeps the first row of each target.
LEMMA FoundFirsts ==
  ASSUME TypeInvariant, RowsKept, FoundKept, NEW p \in Processes, NEW s \in saving[p],
         s.found # {}
  PROVE  /\ \A w \in Workers : \E n \in Nat :
              /\ IsFirst(rows, w, n) /\ IsFirst(s.found, w, n)
              /\ Kept(s, w) \in s.found /\ Kept(s, w).row = n /\ Kept(s, w).target = w
         /\ Missing(s) = {}
         /\ \A w \in Workers : \A n \in Nat : IsFirst(rows, w, n) => n \notin ToRemove(s)
         /\ \A r \in s.found : IsFirst(rows, r.target, r.row) \/ r.row \in ToRemove(s)
  <1>1. /\ OneEach(s.found) /\ rows # {}
        /\ \A w \in Workers : \A n \in Nat : IsFirst(rows, w, n) => IsFirst(s.found, w, n)
    BY DEF FoundKept, FoundFits
  <1>2. \A w \in Workers : \E n \in Nat : IsFirst(rows, w, n)
    BY <1>1 DEF RowsKept
  <1>3. \A r \in s.found : r.row \in Nat /\ r.target \in Workers
    BY FoundTypes
  <1>4. \A w \in Workers : \E n \in Nat :
          /\ IsFirst(rows, w, n) /\ IsFirst(s.found, w, n)
          /\ Kept(s, w) \in s.found /\ Kept(s, w).row = n /\ Kept(s, w).target = w
    BY <1>1, <1>2, <1>3, FirstIsKept
  <1>5. Missing(s) = {}
    BY <1>4 DEF Missing, FoundFor
  <1>6. /\ \A w \in Workers : \A n \in Nat : IsFirst(s.found, w, n) => n \notin ToRemove(s)
        /\ \A r \in s.found : IsFirst(s.found, r.target, r.row) \/ r.row \in ToRemove(s)
    <2>1. \A w \in Workers : \E n \in Nat : IsFirst(s.found, w, n)
      BY <1>4
    <2> QED
      BY <1>1, <1>3, <2>1, ExtrasRemoved
  <1>7. \A r \in s.found : IsFirst(s.found, r.target, r.row) => IsFirst(rows, r.target, r.row)
    <2> SUFFICES ASSUME NEW r \in s.found, IsFirst(s.found, r.target, r.row)
                 PROVE  IsFirst(rows, r.target, r.row)
      OBVIOUS
    <2>1. PICK n \in Nat : IsFirst(rows, r.target, n) /\ IsFirst(s.found, r.target, n)
      BY <1>3, <1>4
    <2>2. n = r.row
      BY <1>3, <2>1, OneFirst
    <2> QED
      BY <2>1, <2>2
  <1> QED
    BY <1>1, <1>4, <1>5, <1>6, <1>7

\* A save that has found rows writes its state to the first ones, and makes none.
LEMMA StoreWrites ==
  ASSUME TypeInvariant, RowsKept, FoundKept, NEW p \in Processes, NEW s \in saving[p],
         s.found # {}, Store(p, s)
  PROVE  /\ rowNr' = rowNr /\ rows' \subseteq Row /\ SameRows(rows, rows') /\ OneEach(rows')
         /\ \A r \in rows' : IsFirst(rows', r.target, r.row) => r.state = s.state
  <1>1. /\ \A w \in Workers : \E n \in Nat :
              /\ IsFirst(rows, w, n) /\ Kept(s, w) \in s.found
              /\ Kept(s, w).row = n /\ Kept(s, w).target = w
        /\ Missing(s) = {}
    BY FoundFirsts
  <1>2. /\ s.state \in States /\ s.found \subseteq Row /\ rowNr \in Nat /\ rows \subseteq Row
        /\ \A r \in rows : r.row \in Nat /\ r.target \in Workers
    BY FoundTypes DEF TypeInvariant
  <1>3. NewRows(s) = {} /\ Cardinality(Missing(s)) = 0
    <2>1. Cardinality(Missing(s)) = 0
      BY <1>1, FS_EmptySet
    <2>2. 1 .. 0 = {}
      OBVIOUS
    <2> QED
      BY <2>1, <2>2 DEF NewRows, NumberedAbove
  <1>4. \A q \in Written(s) : \E w \in Workers : q = [Kept(s, w) EXCEPT !.state = s.state]
    BY <1>1 DEF Written
  <1>5. \A q \in Written(s) : /\ q \in Row /\ q.state = s.state
                              /\ IsFirst(rows, q.target, q.row)
    <2> SUFFICES ASSUME NEW q \in Written(s)
                 PROVE  q \in Row /\ q.state = s.state /\ IsFirst(rows, q.target, q.row)
      OBVIOUS
    <2>1. PICK w \in Workers : q = [Kept(s, w) EXCEPT !.state = s.state]
      BY <1>4
    <2>2. Kept(s, w) \in Row /\ IsFirst(rows, Kept(s, w).target, Kept(s, w).row)
      BY <1>1, <1>2
    <2> HIDE DEF Kept
    <2> QED
      BY <1>2, <2>1, <2>2 DEF Row
  <1>6. \A w \in Workers : \A n \in Nat : IsFirst(rows, w, n) => \E q \in Written(s) : q.row = n
    <2> SUFFICES ASSUME NEW w \in Workers, NEW n \in Nat, IsFirst(rows, w, n)
                 PROVE  \E q \in Written(s) : q.row = n
      OBVIOUS
    <2> DEFINE q == [Kept(s, w) EXCEPT !.state = s.state]
    <2>1. q \in Written(s)
      BY <1>1 DEF Written
    <2>2. PICK k \in Nat : IsFirst(rows, w, k) /\ Kept(s, w) \in s.found /\ Kept(s, w).row = k
      BY <1>1
    <2>3. k = n
      BY <2>2, OneFirst
    <2>4. Kept(s, w) \in Row
      BY <1>2, <2>2
    <2>5. q.row = n
      BY <2>2, <2>3, <2>4 DEF Row
    <2> QED
      BY <2>1, <2>5
  <1>7. /\ rows' = {r \in rows : \A q \in Written(s) : q.row # r.row} \cup Written(s)
        /\ rowNr' = rowNr
    BY <1>2, <1>3 DEF Store
  <1>8. \A q \in Written(s) : \E r \in rows : r.row = q.row /\ r.target = q.target
    BY <1>5 DEF IsFirst
  <1>9. OneEach(rows)
    BY DEF RowsKept
  <1>10. SameRows(rows, rows')
    <2>1. ASSUME NEW r \in rows PROVE \E q \in rows' : q.row = r.row /\ q.target = r.target
      <3>1. CASE \E q \in Written(s) : q.row = r.row
        BY <1>7, <1>8, <1>9, <3>1 DEF OneEach
      <3>2. CASE \A q \in Written(s) : q.row # r.row
        BY <1>7, <3>2
      <3> QED
        BY <3>1, <3>2
    <2> QED
      BY <1>7, <1>8, <2>1 DEF SameRows
  <1>11. OneEach(rows')
    <2> SUFFICES ASSUME NEW q \in rows', NEW r \in rows', q.row = r.row PROVE q = r
      BY DEF OneEach
    <2>1. CASE q \in Written(s) /\ r \in Written(s)
      <3>1. q.target = r.target
        BY <1>8, <1>9, <2>1 DEF OneEach
      <3>2. q.state = r.state /\ q \in Row /\ r \in Row
        BY <1>5, <2>1
      <3> QED
        BY <3>1, <3>2 DEF Row
    <2>2. CASE q \notin Written(s) \/ r \notin Written(s)
      BY <1>7, <1>9, <2>2 DEF OneEach
    <2> QED
      BY <2>1, <2>2
  <1>12. \A r \in rows' : IsFirst(rows', r.target, r.row) => r.state = s.state
    <2> SUFFICES ASSUME NEW r \in rows', IsFirst(rows', r.target, r.row)
                 PROVE  r.state = s.state
      OBVIOUS
    <2>1. IsFirst(rows, r.target, r.row)
      BY <1>10, SameFirsts
    <2>2. r \in Row
      BY <1>2, <1>5, <1>7
    <2>3. r.target \in Workers /\ r.row \in Nat
      BY <1>2, <2>2 DEF Row
    <2>4. \E q \in Written(s) : q.row = r.row
      BY <1>6, <2>1, <2>3
    <2> QED
      BY <1>5, <1>7, <2>4
  <1> QED
    BY <1>2, <1>5, <1>7, <1>10, <1>11, <1>12

\* A save that has found none makes a row for each target.
LEMMA StoreMakes ==
  ASSUME TypeInvariant, NEW p \in Processes, NEW s \in saving[p], s.found = {}, Store(p, s)
  PROVE  /\ rowNr' \in Nat /\ rowNr <= rowNr' /\ rows' = rows \cup NewRows(s)
         /\ ToRemove(s) = {} /\ Release(p, s)
         /\ \A r \in NewRows(s) : /\ r = [row |-> r.row, target |-> r.target, state |-> s.state]
                                  /\ r.row \in rowNr + 1 .. rowNr' /\ r.target \in Workers
         /\ \A w \in Workers : \E r \in NewRows(s) : r.target = w
         /\ \A q, r \in NewRows(s) : q.row = r.row \/ q.target = r.target => q = r
  <1>1. /\ Missing(s) = Workers
        /\ rowNr + Cardinality(Missing(s)) \in Nat
        /\ rowNr <= rowNr + Cardinality(Missing(s))
        /\ \A r \in NewRows(s) : /\ r = [row |-> r.row, target |-> r.target, state |-> s.state]
                                 /\ r.row \in rowNr + 1 .. rowNr + Cardinality(Missing(s))
                                 /\ r.target \in Workers
        /\ \A w \in Workers : \E r \in NewRows(s) : r.target = w
        /\ \A q, r \in NewRows(s) : q.row = r.row \/ q.target = r.target => q = r
    BY RowsMade
  <1>2. Written(s) = {}
    BY <1>1 DEF Written
  <1>3. ToRemove(s) = {}
    BY DEF ToRemove
  <1> QED
    BY <1>1, <1>2, <1>3 DEF Store

-----------------------------------------------------------------------------
\* Types

LEMMA BecomesTyped ==
  ASSUME TypeInvariant, NEW p \in Processes, NEW s \in saving[p], NEW t, Becomes(p, s, t),
         rowNr' \in Nat, rowNr <= rowNr', t \in Holder', t.sem = s.sem
  PROVE  LockTypes'
  <1>1. LockTypes /\ Holder \subseteq Holder' /\ saving \in [Processes -> SUBSET Holder]
    BY TypeParts, RowsWiden DEF RowTypes, LockTypes
  <1>2. (saving[p] \ {s}) \cup {t} \in SUBSET Holder'
    BY <1>1
  <1>3. saving' = [saving EXCEPT ![p] = (saving[p] \ {s}) \cup {t}]
    BY <1>1 DEF Becomes
  <1>4. /\ saving' \in [Processes -> SUBSET Holder'] /\ saving'[p] = (saving[p] \ {s}) \cup {t}
        /\ \A q \in Processes \ {p} : saving'[q] = saving[q]
    BY ONLY <1>1, <1>2, <1>3, p \in Processes, SavesSet
  <1>5. UNCHANGED <<semaphore, waiting, timers, disturbed>>
    BY DEF Becomes
  <1> QED
    BY <1>1, <1>4, <1>5 DEF LockTypes

\* The steps of a save keep the types.
LEMMA SavingTyped ==
  ASSUME TypeInvariant, RowsKept, FoundKept, NEW p \in Processes, NEW s \in saving[p],
         Find(p, s) \/ Store(p, s) \/ Discard(p, s) \/ Fail(p, s)
  PROVE  TypeInvariant'
  <1>1. RunTypes'
    BY TypeParts DEF RunTypes, Find, Store, Discard, Fail
  <1>2. s \in Holder /\ s.found \subseteq Row /\ rowNr \in Nat /\ rows \subseteq Row
    BY FoundTypes DEF TypeInvariant
  <1>3. CASE Find(p, s)
    <2>1. rows' = rows /\ rowNr' = rowNr /\ Becomes(p, s, [s EXCEPT !.at = "save", !.found = rows])
      BY <1>3 DEF Find
    <2>2. [s EXCEPT !.at = "save", !.found = rows] \in Holder
          /\ [s EXCEPT !.at = "save", !.found = rows].sem = s.sem
      BY <1>2 DEF Holder
    <2>3. rowNr' \in Nat /\ rowNr <= rowNr'
      BY <1>2, <2>1
    <2>4. [s EXCEPT !.at = "save", !.found = rows] \in Holder'
      BY <1>2, <2>2, <2>3, RowsWiden
    <2>5. LockTypes'
      BY <2>1, <2>2, <2>3, <2>4, BecomesTyped
    <2> QED
      BY <1>1, <1>2, <2>1, <2>5, TypeParts DEF RowTypes, Row, TypeInvariant, RunTypes, LockTypes
  <1>4. CASE Fail(p, s)
    <2>1. rows' = rows /\ rowNr' = rowNr /\ Becomes(p, s, [s EXCEPT !.at = "failed"])
      BY <1>4 DEF Fail
    <2>2. [s EXCEPT !.at = "failed"] \in Holder /\ [s EXCEPT !.at = "failed"].sem = s.sem
      BY <1>2 DEF Holder
    <2>3. rowNr' \in Nat /\ rowNr <= rowNr'
      BY <1>2, <2>1
    <2>4. [s EXCEPT !.at = "failed"] \in Holder'
      BY <1>2, <2>2, <2>3, RowsWiden
    <2>5. LockTypes'
      BY <2>1, <2>2, <2>3, <2>4, BecomesTyped
    <2> QED
      BY <1>1, <1>2, <2>1, <2>5 DEF RowTypes, Row, TypeInvariant, RunTypes, LockTypes
  <1>5. CASE Discard(p, s)
    <2>1. rows' \subseteq rows /\ rowNr' = rowNr /\ Release(p, s)
      BY <1>5 DEF Discard
    <2>2. rowNr' \in Nat /\ rowNr <= rowNr'
      BY <1>2, <2>1
    <2>3. LockTypes'
      BY <2>1, <2>2, ReleaseFrees, FreesTyped
    <2> QED
      BY <1>1, <1>2, <2>1, <2>3 DEF RowTypes, Row, TypeInvariant, RunTypes, LockTypes
  <1>6. CASE Store(p, s)
    <2>1. rowNr' \in Nat /\ rowNr <= rowNr' /\ rows' \subseteq Row'
      <3>1. CASE s.found # {}
        <4>1. rowNr' = rowNr /\ rows' \subseteq Row
          BY <1>6, <3>1, StoreWrites
        <4> QED
          BY <1>2, <4>1 DEF Row
      <3>2. CASE s.found = {}
        <4>1. /\ rowNr' \in Nat /\ rowNr <= rowNr' /\ rows' = rows \cup NewRows(s)
              /\ \A r \in NewRows(s) : /\ r = [row |-> r.row, target |-> r.target, state |-> s.state]
                                       /\ r.row \in rowNr + 1 .. rowNr' /\ r.target \in Workers
          BY <1>6, <3>2, StoreMakes
        <4>2. rows \subseteq Row'
          BY <1>2, <4>1, RowsWiden
        <4>3. rowNr + 1 .. rowNr' \subseteq 1 .. rowNr' /\ s.state \in States
          BY <1>2, <4>1 DEF Holder
        <4>4. \A r \in NewRows(s) : r \in Row'
          BY <4>1, <4>3 DEF Row
        <4> QED
          BY <4>1, <4>2, <4>4
      <3> QED
        BY <3>1, <3>2
    <2>2. CASE Release(p, s)
      <3>1. LockTypes'
        BY <2>1, <2>2, ReleaseFrees, FreesTyped
      <3> QED
        BY <1>1, <2>1, <3>1 DEF TypeInvariant, RunTypes, LockTypes
    <2>3. CASE Becomes(p, s, [s EXCEPT !.at = "remove"])
      <3>1. [s EXCEPT !.at = "remove"] \in Holder /\ [s EXCEPT !.at = "remove"].sem = s.sem
        BY <1>2 DEF Holder
      <3>2. [s EXCEPT !.at = "remove"] \in Holder'
        BY <1>2, <2>1, <3>1, RowsWiden
      <3>3. LockTypes'
        BY <2>1, <2>3, <3>1, <3>2, BecomesTyped
      <3> QED
        BY <1>1, <2>1, <3>3 DEF TypeInvariant, RunTypes, LockTypes
    <2> QED
      BY <1>6, <2>2, <2>3 DEF Store
  <1> QED
    BY <1>3, <1>4, <1>5, <1>6

\* What a clean-up leaves of the semaphores.
Cleans(p) ==
  /\ waiting' \in [Processes -> Seq(Seq(States))] /\ DOMAIN waiting'[p] = DOMAIN waiting[p]
  /\ \A q \in Processes \ {p} : waiting'[q] = waiting[q]
  /\ \E n \in DOMAIN waiting[p] :
       /\ waiting'[p][n] \in {waiting[p][n], <<>>}
       /\ \A k \in DOMAIN waiting[p] \ {n} : waiting'[p][k] = waiting[p][k]
       /\ disturbed' = IF InUse(p, n) \/ InUse(p, semaphore[p]) THEN disturbed \cup {p}
                                                              ELSE disturbed
  /\ timers[p] # <<>> /\ timers' = [timers EXCEPT ![p] = Tail(@)]
  /\ semaphore' = [semaphore EXCEPT ![p] = 0]
  /\ UNCHANGED saving

LEMMA CleanupCleans ==
  ASSUME TypeInvariant, NEW p \in Processes, Cleanup(p)
  PROVE  Cleans(p)
  <1> DEFINE Q == waiting[p]
             n == Head(timers[p])
  <1>1. /\ waiting \in [Processes -> Seq(Seq(States))] /\ Q \in Seq(Seq(States))
        /\ timers[p] \in Seq(Nat) /\ \A k \in DOMAIN timers[p] : timers[p][k] \in DOMAIN Q
    BY DEF TypeInvariant
  <1>2. n \in DOMAIN Q
    BY <1>1 DEF Cleanup
  <1>3. waiting' = waiting \/ waiting' = [waiting EXCEPT ![p] = [Q EXCEPT ![n] = <<>>]]
    BY <1>1 DEF Cleanup
  <1>4. /\ disturbed' = IF InUse(p, n) \/ InUse(p, semaphore[p]) THEN disturbed \cup {p}
                                                               ELSE disturbed
        /\ timers[p] # <<>> /\ timers' = [timers EXCEPT ![p] = Tail(@)]
        /\ semaphore' = [semaphore EXCEPT ![p] = 0]
        /\ UNCHANGED saving
    BY DEF Cleanup
  <1> DEFINE R == [Q EXCEPT ![n] = <<>>]
  <1> HIDE DEF n
  <1>5. /\ R \in Seq(Seq(States)) /\ DOMAIN R = DOMAIN Q
        /\ R[n] = <<>> /\ \A k \in DOMAIN Q \ {n} : R[k] = Q[k]
    <2>1. <<>> \in Seq(States)
      OBVIOUS
    <2> QED
      BY <1>1, <1>2, <2>1, QueueSet
  <1> HIDE DEF R
  <1>6. waiting' = waiting \/ waiting' = [waiting EXCEPT ![p] = R]
    BY <1>3 DEF R
  <1>7. /\ waiting' \in [Processes -> Seq(Seq(States))] /\ DOMAIN waiting'[p] = DOMAIN Q
        /\ \A q \in Processes \ {p} : waiting'[q] = waiting[q]
        /\ waiting'[p][n] \in {Q[n], <<>>}
        /\ \A k \in DOMAIN Q \ {n} : waiting'[p][k] = Q[k]
    <2>1. CASE waiting' = waiting
      BY <1>1, <2>1
    <2>2. CASE waiting' = [waiting EXCEPT ![p] = R]
      BY <1>1, <1>5, <2>2
    <2> QED
      BY <1>6, <2>1, <2>2
  <1> HIDE DEF Q
  <1>8. \E i \in DOMAIN Q :
          /\ waiting'[p][i] \in {Q[i], <<>>}
          /\ \A k \in DOMAIN Q \ {i} : waiting'[p][k] = Q[k]
          /\ disturbed' = IF InUse(p, i) \/ InUse(p, semaphore[p]) THEN disturbed \cup {p}
                                                                 ELSE disturbed
    BY <1>2, <1>4, <1>7
  <1> QED
    BY <1>4, <1>7, <1>8 DEF Cleans, Q

LEMMA CleanupTyped ==
  ASSUME TypeInvariant, NEW p \in Processes, Cleanup(p)
  PROVE  TypeInvariant'
  <1>1. Cleans(p) /\ UNCHANGED <<run, progress, events, rows, rowNr>>
    BY CleanupCleans DEF Cleanup
  <1>2. RunTypes' /\ RowTypes' /\ Holder' = Holder
    BY <1>1, TypeParts DEF RunTypes, RowTypes, Row, Holder
  <1>3. LockTypes
    BY TypeParts
  <1>4. /\ timers' \in [Processes -> Seq(Nat)]
        /\ \A q \in Processes : \A k \in DOMAIN timers'[q] :
              \E i \in DOMAIN timers[q] : timers'[q][k] = timers[q][i]
    <2>1. timers[p] \in Seq(Nat) /\ timers[p] # <<>> /\ timers \in [Processes -> Seq(Nat)]
      BY <1>1, <1>3 DEF LockTypes, Cleans
    <2>2. /\ Tail(timers[p]) \in Seq(Nat)
          /\ \A k \in DOMAIN Tail(timers[p]) :
                k + 1 \in DOMAIN timers[p] /\ Tail(timers[p])[k] = timers[p][k + 1]
      BY <2>1
    <2> QED
      BY <1>1, <2>1, <2>2 DEF Cleans
  <1>5. /\ semaphore' \in [Processes -> Nat] /\ semaphore'[p] = 0
        /\ \A q \in Processes \ {p} : semaphore'[q] = semaphore[q]
    BY <1>1, <1>3 DEF LockTypes, Cleans
  <1>6. disturbed' \subseteq Processes /\ saving' = saving
    BY <1>1, <1>3 DEF LockTypes, Cleans
  <1>7. /\ waiting' \in [Processes -> Seq(Seq(States))]
        /\ \A q \in Processes : DOMAIN waiting'[q] = DOMAIN waiting[q]
    BY <1>1 DEF Cleans
  <1>8. saving' \in [Processes -> SUBSET Holder']
        /\ \A q \in Processes : \A s \in saving'[q] : s.sem \in DOMAIN waiting'[q]
    BY <1>2, <1>3, <1>6, <1>7 DEF LockTypes
  <1>9. \A q \in Processes :
          /\ semaphore'[q] \in {0} \cup DOMAIN waiting'[q]
          /\ \A k \in DOMAIN timers'[q] : timers'[q][k] \in DOMAIN waiting'[q]
    <2> SUFFICES ASSUME NEW q \in Processes
                 PROVE  /\ semaphore'[q] \in {0} \cup DOMAIN waiting'[q]
                        /\ \A k \in DOMAIN timers'[q] : timers'[q][k] \in DOMAIN waiting'[q]
      OBVIOUS
    <2>1. /\ semaphore[q] \in {0} \cup DOMAIN waiting[q]
          /\ \A k \in DOMAIN timers[q] : timers[q][k] \in DOMAIN waiting[q]
      BY <1>3 DEF LockTypes
    <2>2. semaphore'[q] \in {0} \cup DOMAIN waiting'[q]
      BY <1>5, <1>7, <2>1
    <2>3. \A k \in DOMAIN timers'[q] : timers'[q][k] \in DOMAIN waiting'[q]
      BY <1>4, <1>7, <2>1
    <2> QED
      BY <2>2, <2>3
  <1>10. LockTypes'
    BY <1>4, <1>5, <1>6, <1>7, <1>8, <1>9 DEF LockTypes
  <1> QED
    BY <1>2, <1>10 DEF TypeInvariant, RunTypes, RowTypes, LockTypes

-----------------------------------------------------------------------------
\* The steps of the runners and the monitors

\* What happens to what the monitor q hears of the runner of v.
Hears(q, v) ==
  \/ /\ events'[q][v] = events[q][v]
     /\ run'[v] = run[v] \/ (run[v] # "new" /\ run'[v] # "over")
  \/ \E e \in States :
       /\ events'[q][v] = Append(events[q][v], e)
       /\ e = "started" \/ run[v] # "new"
       /\ run'[v] = "over" => run[v] # "new" /\ e = "stopped"

\* With the step of its runner, the process p asks for these saves.
AsksFor(p, states) ==
  \/ run[p] = "started" /\ run'[p] = "running" /\ states = <<"started", "running">>
  \/ run[p] = "running" /\ run'[p] = "running" /\ states = <<"running">>
  \/ run[p] = "running" /\ run'[p] = "stopped" /\ states = <<"running", "stopped">>

\* The runner of w goes on, without a save or with some.
Silent(w) ==
  /\ UNCHANGED lockVars
  /\ (run[w] = "new" /\ run'[w] = "started") \/ (run[w] = "stopped" /\ run'[w] = "over")

Runs(w) ==
  /\ RunTypes' /\ NotToItself' /\ UNCHANGED <<rows, rowNr>>
  /\ \A v \in Workers \ {w} : run'[v] = run[v]
  /\ \A q \in Monitors : \A v \in Workers \ {q} : Hears(q, v)
  /\ \/ Silent(w)
     \/ \E states \in Seq(States) : states # <<>> /\ AsksFor(w, states) /\ Save(w, states)

LEMMA Posted ==
  ASSUME RunTypes, NEW w \in Workers, NEW e \in States, Post(w, e)
  PROVE  /\ events' \in [Monitors -> [Workers -> Seq(States)]]
         /\ \A q \in Monitors : \A v \in Workers :
              events'[q][v] = IF v = w /\ q # w THEN Append(events[q][v], e) ELSE events[q][v]
  <1>1. events \in [Monitors -> [Workers -> Seq(States)]]
    BY DEF RunTypes
  <1>2. events' = [m \in Monitors |->
                     IF m = w THEN events[m] ELSE [events[m] EXCEPT ![w] = Append(@, e)]]
    BY DEF Post
  <1>3. ASSUME NEW q \in Monitors
        PROVE  /\ events'[q] \in [Workers -> Seq(States)]
               /\ \A v \in Workers :
                    events'[q][v] = IF v = w /\ q # w THEN Append(events[q][v], e)
                                                      ELSE events[q][v]
    <2>1. events[q] \in [Workers -> Seq(States)] /\ Append(events[q][w], e) \in Seq(States)
      BY <1>1
    <2>2. events'[q] = IF q = w THEN events[q] ELSE [events[q] EXCEPT ![w] = Append(@, e)]
      BY <1>2
    <2> QED
      BY <2>1, <2>2
  <1> QED
    BY <1>2, <1>3

LEMMA RunnerSteps ==
  ASSUME TypeInvariant, NotToItself, NEW w \in Workers,
         Started(w) \/ Begin(w) \/ Update(w) \/ Stop(w) \/ Over(w)
  PROVE  Runs(w)
  <1>1. RunTypes /\ run \in [Workers -> {"new", "started", "running", "stopped", "over"}]
        /\ progress \in [Workers -> 0 .. MaxProgress]
        /\ events \in [Monitors -> [Workers -> Seq(States)]]
    BY TypeParts DEF RunTypes
  <1>2. /\ UNCHANGED <<rows, rowNr>>
        /\ \A v \in Workers \ {w} : run'[v] = run[v]
        /\ run' \in [Workers -> {"new", "started", "running", "stopped", "over"}]
    BY <1>1 DEF Started, Begin, Update, Stop, Over, GoesTo
  <1>3. progress' \in [Workers -> 0 .. MaxProgress]
    <2>1. CASE Update(w)
      <3>1. progress[w] \in 0 .. MaxProgress /\ progress[w] < MaxProgress
        BY <1>1, <2>1 DEF Update
      <3>2. progress[w] + 1 \in 0 .. MaxProgress
        BY <3>1, TaskLogAssumption
      <3> QED
        BY <1>1, <2>1, <3>2 DEF Update
    <2> QED
      BY <1>1, <2>1 DEF Started, Begin, Stop, Over
  <1>4. CASE events' = events /\ (Begin(w) \/ Stop(w))
    <2>1. run[w] # "new" /\ run'[w] # "over"
      BY <1>1, <1>4 DEF Begin, Stop, GoesTo
    <2>2. \A q \in Monitors : \A v \in Workers \ {q} : Hears(q, v)
      BY <1>2, <1>4, <2>1 DEF Hears
    <2>3. RunTypes' /\ NotToItself'
      BY <1>1, <1>2, <1>3, <1>4 DEF RunTypes, NotToItself
    <2>4. \E states \in Seq(States) : states # <<>> /\ AsksFor(w, states) /\ Save(w, states)
      <3>1. <<"started", "running">> \in Seq(States) /\ <<"running", "stopped">> \in Seq(States)
        BY DEF States
      <3> QED
        BY <1>1, <1>4, <3>1 DEF Begin, Stop, GoesTo, AsksFor
    <2> QED
      BY <1>2, <2>2, <2>3, <2>4 DEF Runs
  <1>5. CASE Started(w) \/ Update(w) \/ Over(w)
    <2>1. PICK e \in States : /\ Post(w, e)
                              /\ e = "started" \/ run[w] # "new"
                              /\ run'[w] = "over" => run[w] # "new" /\ e = "stopped"
      BY <1>1, <1>5 DEF Started, Update, Over, GoesTo, States
    <2>2. /\ events' \in [Monitors -> [Workers -> Seq(States)]]
          /\ \A q \in Monitors : \A v \in Workers :
               events'[q][v] = IF v = w /\ q # w THEN Append(events[q][v], e) ELSE events[q][v]
      BY <1>1, <2>1, Posted
    <2>3. \A q \in Monitors : \A v \in Workers \ {q} : Hears(q, v)
      BY <1>2, <2>1, <2>2 DEF Hears
    <2>4. RunTypes' /\ NotToItself'
      BY <1>2, <1>3, <2>2 DEF RunTypes, NotToItself
    <2>5. \/ Silent(w)
          \/ \E states \in Seq(States) : states # <<>> /\ AsksFor(w, states) /\ Save(w, states)
      <3>1. <<"running">> \in Seq(States)
        BY DEF States
      <3> QED
        BY <1>1, <1>5, <3>1 DEF Started, Update, Over, GoesTo, AsksFor, Silent
    <2> QED
      BY <1>2, <2>3, <2>4, <2>5 DEF Runs
  <1> QED
    BY <1>4, <1>5 DEF Begin, Stop

\* A monitor takes an event and asks for a save.
Takes(m, w) ==
  /\ RunTypes' /\ NotToItself' /\ UNCHANGED <<run, rows, rowNr>> /\ w # m
  /\ \A q \in Monitors \ {m} : events'[q] = events[q]
  /\ \A v \in Workers \ {w} : events'[m][v] = events[m][v]
  /\ events[m][w] \in Seq(States) /\ events[m][w] # <<>>
  /\ events'[m][w] = Tail(events[m][w])
  /\ Save(m, <<Head(events[m][w])>>)

LEMMA MonitorSteps ==
  ASSUME TypeInvariant, NotToItself, NEW m \in Monitors, NEW w \in Workers, Monitor(m, w)
  PROVE  Takes(m, w)
  <1>1. RunTypes /\ events \in [Monitors -> [Workers -> Seq(States)]]
    BY TypeParts DEF RunTypes
  <1>2. /\ events[m][w] # <<>> /\ events[m] \in [Workers -> Seq(States)]
        /\ events[m][w] \in Seq(States) /\ Tail(events[m][w]) \in Seq(States)
    BY <1>1 DEF Monitor
  <1>3. events' = [events EXCEPT ![m] = [events[m] EXCEPT ![w] = Tail(events[m][w])]]
    BY <1>1 DEF Monitor
  <1>4. /\ events' \in [Monitors -> [Workers -> Seq(States)]]
        /\ \A q \in Monitors \ {m} : events'[q] = events[q]
        /\ \A v \in Workers \ {w} : events'[m][v] = events[m][v]
        /\ events'[m][w] = Tail(events[m][w])
    BY <1>1, <1>2, <1>3
  <1>5. w # m
    BY <1>2 DEF NotToItself
  <1>6. UNCHANGED <<run, progress, rows, rowNr>> /\ Save(m, <<Head(events[m][w])>>)
    BY DEF Monitor
  <1>7. RunTypes' /\ NotToItself'
    BY <1>1, <1>4, <1>5, <1>6 DEF RunTypes, NotToItself
  <1> QED
    BY <1>2, <1>4, <1>5, <1>6, <1>7 DEF Takes

\* The part of the semaphores that a request for saves changes.
LEMMA RequestTyped ==
  ASSUME TypeInvariant, RunTypes', UNCHANGED <<rows, rowNr>>, NEW p \in Processes,
         NEW states \in Seq(States), states # <<>>, Save(p, states)
  PROVE  TypeInvariant' /\ \E n \in Nat \ {0} : Adds(p, n, states)
  <1>1. PICK n \in Nat \ {0} : Adds(p, n, states)
    BY SaveAdds
  <1>2. LockTypes'
    BY <1>1, AddsTyped
  <1>3. RowTypes'
    BY TypeParts DEF RowTypes, Row
  <1> QED
    BY <1>1, <1>2, <1>3 DEF TypeInvariant, RunTypes, RowTypes, LockTypes

LEMMA SilentTyped ==
  ASSUME TypeInvariant, RunTypes', UNCHANGED <<lockVars, rows, rowNr>>
  PROVE  TypeInvariant'
  <1>1. RowTypes' /\ LockTypes'
    BY TypeParts DEF RowTypes, LockTypes, lockVars, Row, Holder
  <1> QED
    BY <1>1 DEF TypeInvariant, RunTypes, RowTypes, LockTypes

LEMMA HeadTyped ==
  ASSUME NEW Q \in Seq(States), Q # <<>>
  PROVE  /\ Head(Q) \in States /\ <<Head(Q)>> \in Seq(States) /\ <<Head(Q)>> # <<>>
         /\ Head(Q) = Q[1] /\ Tail(Q) \in Seq(States) /\ Len(Tail(Q)) = Len(Q) - 1
         /\ Len(Q) \in Nat /\ Len(Q) > 0
         /\ Tail(Q) = <<>> => Q[1] = Q[Len(Q)]
         /\ Tail(Q) # <<>> => Tail(Q)[Len(Tail(Q))] = Q[Len(Q)] /\ Len(Q) > 1
  <1> DEFINE T == Tail(Q)
             n == Len(Q)
  <1>1. n \in Nat /\ n > 0 /\ Head(Q) = Q[1] /\ Q[1] \in States
    OBVIOUS
  <1>2. T \in Seq(States) /\ Len(T) = n - 1 /\ \A i \in 1 .. n - 1 : T[i] = Q[i + 1]
    OBVIOUS
  <1>3. <<Head(Q)>> \in Seq(States) /\ <<Head(Q)>> # <<>>
    BY <1>1
  <1> HIDE DEF T, n
  <1>4. T = <<>> => n = 1
    <2>1. T = <<>> => Len(T) = 0
      OBVIOUS
    <2> QED
      BY <1>1, <1>2, <2>1
  <1>5. ASSUME T # <<>> PROVE T[Len(T)] = Q[n] /\ n > 1
    <2>1. Len(T) # 0
      BY <1>2, <1>5
    <2>2. n - 1 \in 1 .. n - 1 /\ (n - 1) + 1 = n /\ n > 1
      BY <1>1, <1>2, <2>1
    <2> QED
      BY <1>2, <2>2
  <1> QED
    BY <1>1, <1>2, <1>3, <1>4, <1>5 DEF T, n

-----------------------------------------------------------------------------
\* The kinds of steps there are

Request(p, states) ==
  /\ states \in Seq(States) /\ states # <<>> /\ UNCHANGED <<rows, rowNr>>
  /\ \E n \in Nat \ {0} : Adds(p, n, states)

Step ==
  \/ \E w \in Workers : Runs(w) /\ Silent(w)
  \/ \E w \in Workers : \E states : Runs(w) /\ AsksFor(w, states) /\ Request(w, states)
  \/ \E m \in Monitors : \E w \in Workers : Takes(m, w) /\ Request(m, <<Head(events[m][w])>>)
  \/ \E p \in Processes : \E s \in saving[p] :
       Find(p, s) \/ Store(p, s) \/ Discard(p, s) \/ Fail(p, s)
  \/ \E p \in Processes : Cleanup(p) /\ Cleans(p)

LEMMA StepKinds ==
  ASSUME TypeInvariant, RowsKept, FoundKept, NotToItself, Next
  PROVE  TypeInvariant' /\ NotToItself' /\ Step
  <1>1. ASSUME NEW w \in Workers, Started(w) \/ Begin(w) \/ Update(w) \/ Stop(w) \/ Over(w)
        PROVE  /\ TypeInvariant' /\ NotToItself' /\ Runs(w)
               /\ \/ Silent(w)
                  \/ \E states : AsksFor(w, states) /\ Request(w, states)
    <2>1. Runs(w) /\ RunTypes' /\ NotToItself' /\ UNCHANGED <<rows, rowNr>> /\ w \in Processes
      BY <1>1, RunnerSteps DEF Runs, Processes
    <2>2. CASE Silent(w)
      <3>1. UNCHANGED <<lockVars, rows, rowNr>>
        BY <2>1, <2>2 DEF Silent
      <3>2. TypeInvariant'
        BY <2>1, <3>1, SilentTyped
      <3> QED
        BY <2>1, <2>2, <3>2
    <2>3. CASE \E states \in Seq(States) : states # <<>> /\ AsksFor(w, states) /\ Save(w, states)
      <3>1. PICK states \in Seq(States) : states # <<>> /\ AsksFor(w, states) /\ Save(w, states)
        BY <2>3
      <3>2. TypeInvariant' /\ \E n \in Nat \ {0} : Adds(w, n, states)
        BY <2>1, <3>1, RequestTyped
      <3> QED
        BY <2>1, <3>1, <3>2 DEF Request
    <2> QED
      BY <2>1, <2>2, <2>3 DEF Runs
  <1>2. ASSUME NEW m \in Monitors, NEW w \in Workers, Monitor(m, w)
        PROVE  /\ TypeInvariant' /\ NotToItself' /\ Takes(m, w)
               /\ Request(m, <<Head(events[m][w])>>)
    <2>1. Takes(m, w) /\ m \in Processes
      BY <1>2, MonitorSteps DEF Processes
    <2>2. /\ <<Head(events[m][w])>> \in Seq(States) /\ <<Head(events[m][w])>> # <<>>
          /\ RunTypes' /\ NotToItself' /\ UNCHANGED <<rows, rowNr>>
          /\ Save(m, <<Head(events[m][w])>>)
      BY <2>1, HeadTyped DEF Takes
    <2>3. TypeInvariant' /\ \E n \in Nat \ {0} : Adds(m, n, <<Head(events[m][w])>>)
      BY <2>1, <2>2, RequestTyped
    <2> QED
      BY <2>1, <2>2, <2>3 DEF Request
  <1>3. ASSUME NEW p \in Processes, NEW s \in saving[p],
               Find(p, s) \/ Store(p, s) \/ Discard(p, s) \/ Fail(p, s)
        PROVE  TypeInvariant' /\ NotToItself'
    BY <1>3, SavingTyped DEF Find, Store, Discard, Fail, NotToItself
  <1>4. ASSUME NEW p \in Processes, Cleanup(p)
        PROVE  TypeInvariant' /\ NotToItself' /\ Cleans(p)
    BY <1>4, CleanupTyped, CleanupCleans DEF Cleanup, NotToItself
  <1> QED
    BY <1>1, <1>2, <1>3, <1>4 DEF Next, Saving, Step

-----------------------------------------------------------------------------
\* The rows after a step

\* The first rows stay, and what is there was there before or has a number of its own.
Carried ==
  /\ rows # {} => /\ rows' # {}
                  /\ \A w \in Workers : \A n \in Nat : IsFirst(rows', w, n) <=> IsFirst(rows, w, n)
  /\ \A r \in rows' : r.row > rowNr \/ \E q \in rows : q.row = r.row /\ q.target = r.target

LEMMA SameCarried ==
  ASSUME RowsKept, UNCHANGED rows
  PROVE  Carried /\ RowsKept'
  BY DEF Carried, RowsKept

\* A change of the rows that keeps the first ones.
LEMMA FirstsCarried ==
  ASSUME RowsKept, OneEach(rows'), rows # {}, rows' # {},
         \A w \in Workers : \A n \in Nat : IsFirst(rows', w, n) <=> IsFirst(rows, w, n)
  PROVE  RowsKept'
  BY DEF RowsKept

LEMMA WriteCarried ==
  ASSUME TypeInvariant, RowsKept, FoundKept, NEW p \in Processes, NEW s \in saving[p],
         s.found # {}, Store(p, s)
  PROVE  Carried /\ RowsKept'
  <1>1. SameRows(rows, rows') /\ OneEach(rows')
    BY StoreWrites
  <1>2. rows # {}
    BY DEF FoundKept, FoundFits
  <1>3. rows' # {} /\ \A r \in rows' : \E q \in rows : q.row = r.row /\ q.target = r.target
    BY <1>1, <1>2 DEF SameRows
  <1>4. \A w \in Workers : \A n \in Nat : IsFirst(rows', w, n) <=> IsFirst(rows, w, n)
    BY <1>1, SameFirsts
  <1> QED
    BY <1>1, <1>2, <1>3, <1>4, FirstsCarried DEF Carried

LEMMA MakeCarried ==
  ASSUME TypeInvariant, RowsKept, NEW p \in Processes, NEW s \in saving[p],
         s.found = {}, Store(p, s)
  PROVE  /\ Carried /\ RowsKept' /\ (Workers # {} => rows' # {})
         /\ rows = {} => \A r \in rows' : IsFirst(rows', r.target, r.row)
         /\ \A r \in rows' : r \in rows \/ r.row > rowNr
  <1> DEFINE New == NewRows(s)
  <1>1. /\ rows' = rows \cup New /\ rowNr \in Nat
        /\ \A r \in New : r.row \in Nat /\ r.row > rowNr /\ r.target \in Workers
        /\ \A w \in Workers : \E r \in New : r.target = w
        /\ \A q, r \in New : q.row = r.row \/ q.target = r.target => q = r
    <2>1. /\ rowNr' \in Nat /\ rows' = rows \cup New
          /\ \A r \in New : r.row \in rowNr + 1 .. rowNr' /\ r.target \in Workers
          /\ \A w \in Workers : \E r \in New : r.target = w
          /\ \A q, r \in New : q.row = r.row \/ q.target = r.target => q = r
      BY StoreMakes
    <2>2. rowNr \in Nat
      BY DEF TypeInvariant
    <2>3. \A k \in rowNr + 1 .. rowNr' : k \in Nat /\ k > rowNr
      BY <2>1, <2>2
    <2> QED
      BY <2>1, <2>2, <2>3
  <1>2. \A r \in rows : r.row \in Nat /\ r.row <= rowNr /\ r.target \in Workers
    BY FoundTypes
  <1> HIDE DEF New
  <1>3. OneEach(rows')
    <2>1. OneEach(rows)
      BY DEF RowsKept
    <2> QED
      BY <1>1, <1>2, <2>1 DEF OneEach
  <1>4. /\ Workers # {} => rows' # {}
        /\ \A r \in rows' : r \in rows \/ r.row > rowNr
    BY <1>1
  <1>5. CASE rows = {}
    <2>1. ASSUME NEW r \in rows' PROVE IsFirst(rows', r.target, r.row)
      <3>1. r \in New /\ rows' = New
        BY <1>1, <1>5
      <3>2. \A q \in New : q.target = r.target => q = r
        BY <1>1, <3>1
      <3>3. r.row \in Nat
        BY <1>1, <3>1
      <3> QED
        BY <3>1, <3>2, <3>3 DEF IsFirst
    <2>2. \A w \in Workers : \E n \in Nat : IsFirst(rows', w, n)
      <3> SUFFICES ASSUME NEW w \in Workers PROVE \E n \in Nat : IsFirst(rows', w, n)
        OBVIOUS
      <3>1. PICK r \in New : r.target = w
        BY <1>1
      <3>2. r \in rows' /\ r.row \in Nat
        BY <1>1
      <3> QED
        BY <2>1, <3>1, <3>2
    <2> QED
      BY <1>3, <1>4, <1>5, <2>1, <2>2 DEF Carried, RowsKept
  <1>6. CASE rows # {}
    <2>1. \A w \in Workers : \E n \in Nat : IsFirst(rows, w, n)
      BY <1>6 DEF RowsKept
    <2>2. ASSUME NEW w \in Workers, NEW n \in Nat, IsFirst(rows, w, n)
          PROVE  IsFirst(rows', w, n)
      <3>1. PICK r \in rows : r.row = n /\ r.target = w
        BY <2>2 DEF IsFirst
      <3>2. n <= rowNr
        BY <1>2, <3>1
      <3>3. \A q \in New : n <= q.row
        BY <1>1, <3>2
      <3> QED
        BY <1>1, <2>2, <3>1, <3>3 DEF IsFirst
    <2>3. ASSUME NEW w \in Workers, NEW n \in Nat, IsFirst(rows', w, n)
          PROVE  IsFirst(rows, w, n)
      <3>1. PICK k \in Nat : IsFirst(rows, w, k)
        BY <2>1
      <3>2. n = k
        BY <2>2, <2>3, <3>1, OneFirst
      <3> QED
        BY <3>1, <3>2
    <2>4. rows' # {}
      BY <1>1, <1>6
    <2> QED
      BY <1>3, <1>4, <1>6, <2>2, <2>3, <2>4, FirstsCarried DEF Carried
  <1> QED
    BY <1>5, <1>6

LEMMA DiscardCarried ==
  ASSUME TypeInvariant, RowsKept, FoundKept, NEW p \in Processes, NEW s \in saving[p],
         Discard(p, s)
  PROVE  /\ Carried /\ RowsKept' /\ rows # {} /\ rows' \subseteq rows
         /\ \A r \in rows' : r.row \notin ToRemove(s)
  <1>1. s.found # {} /\ rows # {}
    BY DEF FoundKept, FoundFits, Discard
  <1>2. rows' = {r \in rows : r.row \notin ToRemove(s)}
    BY DEF Discard
  <1>3. \A w \in Workers : \A n \in Nat : IsFirst(rows, w, n) => n \notin ToRemove(s)
    BY <1>1, FoundFirsts
  <1>4. /\ \A w \in Workers : \E n \in Nat : IsFirst(rows, w, n)
        /\ OneEach(rows)
    BY <1>1 DEF RowsKept
  <1>5. ASSUME NEW w \in Workers, NEW n \in Nat, IsFirst(rows, w, n)
        PROVE  IsFirst(rows', w, n)
    BY <1>2, <1>3, <1>5 DEF IsFirst
  <1>6. ASSUME NEW w \in Workers, NEW n \in Nat, IsFirst(rows', w, n)
        PROVE  IsFirst(rows, w, n)
    <2>1. PICK k \in Nat : IsFirst(rows, w, k)
      BY <1>4
    <2>2. n = k
      BY <1>5, <1>6, <2>1, OneFirst
    <2> QED
      BY <2>1, <2>2
  <1>7. rows' # {}
    <2>1. PICK r \in rows : TRUE
      BY <1>1
    <2>2. r.target \in Workers
      BY FoundTypes
    <2>3. PICK n \in Nat : IsFirst(rows', r.target, n)
      BY <1>4, <1>5, <2>2
    <2> QED
      BY <2>3 DEF IsFirst
  <1>8. OneEach(rows')
    BY <1>2, <1>4 DEF OneEach
  <1>9. RowsKept'
    BY <1>1, <1>5, <1>6, <1>7, <1>8, FirstsCarried
  <1> QED
    BY <1>1, <1>2, <1>5, <1>6, <1>7, <1>9 DEF Carried

\* What a save has found still fits the rows.
LEMMA FitsCarried ==
  ASSUME TypeInvariant, Carried, NEW s, FoundFits(s), s.found \subseteq Row
  PROVE  FoundFits(s)'
  <1>1. CASE s.found = {}
    BY <1>1 DEF FoundFits
  <1>2. CASE s.found # {}
    <2>1. /\ rows # {} /\ OneEach(s.found)
          /\ \A w \in Workers : \A n \in Nat : IsFirst(rows, w, n) => IsFirst(s.found, w, n)
          /\ \A q \in s.found : \A r \in rows : q.row = r.row => q.target = r.target
      BY <1>2 DEF FoundFits
    <2>2. \A q \in s.found : q.row \in Nat /\ q.row <= rowNr
      BY DEF Row, TypeInvariant
    <2>3. /\ rows' # {}
          /\ \A w \in Workers : \A n \in Nat : IsFirst(rows', w, n) => IsFirst(s.found, w, n)
      BY <2>1 DEF Carried
    <2>4. ASSUME NEW q \in s.found, NEW r \in rows', q.row = r.row PROVE q.target = r.target
      <3>1. rowNr \in Nat /\ q.row \in Nat /\ q.row <= rowNr
        BY <2>2 DEF TypeInvariant
      <3>2. ~ (r.row > rowNr)
        BY <2>4, <3>1
      <3>3. PICK t \in rows : t.row = r.row /\ t.target = r.target
        BY <3>2 DEF Carried
      <3> QED
        BY <2>1, <2>4, <3>3
    <2> QED
      BY <2>1, <2>3, <2>4 DEF FoundFits
  <1> QED
    BY <1>1, <1>2

LEMMA HoldingFits ==
  ASSUME NEW n, NEW state
  PROVE  FoundFits(Holding(n, state))'
  BY DEF FoundFits, Holding, OneEach

LEMMA OthersFit ==
  ASSUME TypeInvariant, FoundKept, Carried,
         \A q \in Processes : \A t \in saving'[q] : t \in saving[q] \/ FoundFits(t)'
  PROVE  FoundKept'
  <1> SUFFICES ASSUME NEW q \in Processes, NEW t \in saving'[q] PROVE FoundFits(t)'
    BY DEF FoundKept
  <1>1. CASE t \in saving[q]
    <2>1. FoundFits(t) /\ t.found \subseteq Row
      BY <1>1, FoundTypes DEF FoundKept
    <2> QED
      BY <2>1, FitsCarried
  <1> QED
    BY <1>1

\* A save becomes another, and nothing else changes.
LEMMA OneBecomes ==
  ASSUME TypeInvariant, NEW p \in Processes, NEW s \in saving[p], NEW t, Becomes(p, s, t)
  PROVE  /\ saving'[p] = (saving[p] \ {s}) \cup {t}
         /\ \A q \in Processes \ {p} : saving'[q] = saving[q]
         /\ UNCHANGED <<semaphore, waiting, timers, disturbed>>
  BY DEF TypeInvariant, Becomes

\* The semaphore of s goes to the first that waits, if there is one.
LEMMA OneFreed ==
  ASSUME TypeInvariant, NEW p \in Processes, NEW s \in saving[p], Release(p, s)
  PROVE  /\ Frees(p, s) /\ s.sem \in DOMAIN waiting[p] /\ waiting[p][s.sem] \in Seq(States)
         /\ \A q \in Processes \ {p} :
              /\ saving'[q] = saving[q] /\ waiting'[q] = waiting[q]
              /\ timers'[q] = timers[q] /\ semaphore'[q] = semaphore[q]
         /\ DOMAIN waiting'[p] = DOMAIN waiting[p] /\ semaphore' = semaphore
         /\ \A k \in DOMAIN waiting[p] \ {s.sem} : waiting'[p][k] = waiting[p][k]
         /\ \/ /\ waiting[p][s.sem] = <<>> /\ waiting'[p] = waiting[p]
               /\ saving'[p] = saving[p] \ {s}
            \/ /\ waiting[p][s.sem] # <<>> /\ waiting'[p][s.sem] = Tail(waiting[p][s.sem])
               /\ saving'[p] = (saving[p] \ {s}) \cup {Holding(s.sem, Head(waiting[p][s.sem]))}
  <1>1. Frees(p, s)
    BY ReleaseFrees
  <1>2. /\ s.sem \in DOMAIN waiting[p] /\ waiting[p][s.sem] \in Seq(States)
        /\ saving \in [Processes -> SUBSET Holder] /\ timers \in [Processes -> Seq(Nat)]
    BY DEF TypeInvariant
  <1>3. CASE waiting[p][s.sem] = <<>>
    BY <1>1, <1>2, <1>3 DEF Frees
  <1>4. CASE waiting[p][s.sem] # <<>>
    BY <1>1, <1>2, <1>4 DEF Frees
  <1> QED
    BY <1>3, <1>4

\* The states wait behind those that use the semaphore, or the first of them holds it.
LEMMA OneAdded ==
  ASSUME TypeInvariant, NEW p \in Processes, NEW n \in Nat \ {0}, NEW states, Adds(p, n, states)
  PROVE  /\ \A q \in Processes \ {p} :
              /\ saving'[q] = saving[q] /\ waiting'[q] = waiting[q]
              /\ timers'[q] = timers[q] /\ semaphore'[q] = semaphore[q]
         /\ saving[p] \subseteq saving'[p]
         /\ saving'[p] \subseteq saving[p] \cup {Holding(n, Head(states))}
         /\ timers' = timers /\ semaphore'[p] = n
         /\ disturbed' = disturbed
         /\ n = IF semaphore[p] = 0 THEN Len(waiting[p]) + 1 ELSE semaphore[p]
         /\ DOMAIN waiting'[p] = DOMAIN waiting[p] \cup {n}
         /\ \A k \in DOMAIN waiting[p] \ {n} : waiting'[p][k] = waiting[p][k]
         /\ \/ /\ InUse(p, n) /\ semaphore[p] = n /\ n \in DOMAIN waiting[p]
               /\ saving' = saving /\ waiting'[p][n] = waiting[p][n] \o states
            \/ /\ ~ InUse(p, n) /\ waiting'[p][n] = Tail(states)
               /\ saving'[p] = saving[p] \cup {Holding(n, Head(states))}
  <1>1. saving \in [Processes -> SUBSET Holder] /\ semaphore \in [Processes -> Nat]
    BY DEF TypeInvariant
  <1>2. CASE InUse(p, n)
    BY <1>1, <1>2 DEF Adds
  <1>3. CASE ~ InUse(p, n)
    BY <1>1, <1>3 DEF Adds
  <1> QED
    BY <1>2, <1>3

LEMMA RowsStay ==
  ASSUME TypeInvariant, RowsKept, FoundKept, Step
  PROVE  Carried /\ RowsKept' /\ FoundKept'
  <1>1. CASE \E w \in Workers : Runs(w) /\ Silent(w)
    <2>1. UNCHANGED <<rows, saving>>
      BY <1>1 DEF Runs, Silent, lockVars
    <2> QED
      BY <2>1, SameCarried, OthersFit
  <1>2. ASSUME NEW p \in Processes, NEW states, Request(p, states)
        PROVE  Carried /\ RowsKept' /\ FoundKept'
    <2>1. PICK n \in Nat \ {0} : Adds(p, n, states)
      BY <1>2 DEF Request
    <2>2. Carried /\ RowsKept'
      BY <1>2, SameCarried DEF Request
    <2>3. /\ \A q \in Processes \ {p} : saving'[q] = saving[q]
          /\ saving'[p] \subseteq saving[p] \cup {Holding(n, Head(states))}
      BY <2>1, OneAdded
    <2>4. FoundFits(Holding(n, Head(states)))'
      BY HoldingFits
    <2>5. \A q \in Processes : \A t \in saving'[q] : t \in saving[q] \/ FoundFits(t)'
      BY <2>3, <2>4
    <2> QED
      BY <2>2, <2>5, OthersFit
  <1>3. ASSUME NEW p \in Processes, NEW s \in saving[p], Find(p, s)
        PROVE  Carried /\ RowsKept' /\ FoundKept'
    <2>1. PICK t : t = [s EXCEPT !.at = "save", !.found = rows]
      OBVIOUS
    <2>2. Becomes(p, s, t) /\ rows' = rows /\ s \in Holder
      BY <1>3, <2>1, FoundTypes DEF Find
    <2>3. t.at = "save" /\ t.found = rows'
      BY <2>1, <2>2 DEF Holder
    <2>4. Carried /\ RowsKept'
      BY <2>2, SameCarried
    <2>5. FoundFits(t)'
      <3>1. OneEach(rows')
        BY <2>4 DEF RowsKept
      <3>2. \A q \in rows' : \A r \in rows' : q.row = r.row => q.target = r.target
        BY <3>1 DEF OneEach
      <3> QED
        BY <2>3, <3>1, <3>2 DEF FoundFits
    <2>6. \A q \in Processes : \A u \in saving'[q] : u \in saving[q] \/ FoundFits(u)'
      <3>1. \A q \in Processes : \A u \in saving'[q] : u \in saving[q] \/ u = t
        BY <2>2, OneBecomes
      <3> QED
        BY <2>5, <3>1
    <2> QED
      BY <2>4, <2>6, OthersFit
  <1>4. ASSUME NEW p \in Processes, NEW s \in saving[p], Fail(p, s)
        PROVE  Carried /\ RowsKept' /\ FoundKept'
    <2> DEFINE t == [s EXCEPT !.at = "failed"]
    <2>1. Becomes(p, s, t) /\ rows' = rows /\ s \in Holder
      BY <1>4, FoundTypes DEF Fail
    <2>2. t.at = "failed" /\ t.found = s.found
      BY <2>1 DEF Holder
    <2> HIDE DEF t
    <2>3. Carried /\ RowsKept' /\ FoundFits(s) /\ s.found \subseteq Row
      BY <2>1, SameCarried, FoundTypes DEF FoundKept
    <2>4. FoundFits(s)'
      BY <2>3, FitsCarried
    <2>5. FoundFits(t)'
      BY <2>2, <2>4 DEF FoundFits
    <2>6. \A q \in Processes : \A u \in saving'[q] : u \in saving[q] \/ FoundFits(u)'
      BY <2>1, <2>5, OneBecomes
    <2> QED
      BY <2>3, <2>6, OthersFit
  <1>5. ASSUME NEW p \in Processes, NEW s \in saving[p], Release(p, s)
        PROVE  \A q \in Processes : \A u \in saving'[q] : u \in saving[q] \/ FoundFits(u)'
    BY <1>5, OneFreed, HoldingFits
  <1>6. ASSUME NEW p \in Processes, NEW s \in saving[p], Store(p, s)
        PROVE  Carried /\ RowsKept' /\ FoundKept'
    <2>1. Carried /\ RowsKept'
      <3>1. CASE s.found = {}
        BY <1>6, <3>1, MakeCarried
      <3>2. CASE s.found # {}
        BY <1>6, <3>2, WriteCarried
      <3> QED
        BY <3>1, <3>2
    <2>2. CASE Release(p, s)
      BY <1>5, <2>1, <2>2, OthersFit
    <2>3. CASE ToRemove(s) # {} /\ Becomes(p, s, [s EXCEPT !.at = "remove"])
      <3> DEFINE t == [s EXCEPT !.at = "remove"]
      <3>1. s \in Holder /\ s.found \subseteq Row /\ FoundFits(s)
        BY FoundTypes DEF FoundKept
      <3>2. t.at = "remove" /\ t.found = s.found
        BY <3>1 DEF Holder
      <3>3. Becomes(p, s, t)
        BY <2>3
      <3> HIDE DEF t
      <3>4. s.found # {}
        BY <2>3 DEF ToRemove
      <3>5. FoundFits(s)'
        BY <2>1, <3>1, FitsCarried
      <3>6. FoundFits(t)'
        BY <3>2, <3>4, <3>5 DEF FoundFits
      <3>7. \A q \in Processes : \A u \in saving'[q] : u \in saving[q] \/ FoundFits(u)'
        BY <3>3, <3>6, OneBecomes
      <3> QED
        BY <2>1, <3>7, OthersFit
    <2> QED
      BY <1>6, <2>2, <2>3 DEF Store
  <1>7. ASSUME NEW p \in Processes, NEW s \in saving[p], Discard(p, s)
        PROVE  Carried /\ RowsKept' /\ FoundKept'
    <2>1. Carried /\ RowsKept' /\ Release(p, s)
      BY <1>7, DiscardCarried DEF Discard
    <2> QED
      BY <1>5, <2>1, OthersFit
  <1>8. ASSUME NEW p \in Processes, Cleanup(p), Cleans(p)
        PROVE  Carried /\ RowsKept' /\ FoundKept'
    <2>1. UNCHANGED <<rows, saving>>
      BY <1>8 DEF Cleanup
    <2> QED
      BY <2>1, SameCarried, OthersFit
  <1> QED
    BY <1>1, <1>2, <1>3, <1>4, <1>6, <1>7, <1>8 DEF Step, Processes

-----------------------------------------------------------------------------
\* First saves

LEMMA AppendTyped ==
  ASSUME NEW Q \in Seq(States), NEW e \in States
  PROVE  /\ Append(Q, e) # <<>> /\ Len(Append(Q, e)) = Len(Q) + 1 /\ Len(Q) \in Nat
         /\ Append(Q, e)[Len(Append(Q, e))] = e
         /\ Q = <<>> => Append(Q, e)[1] = e
         /\ Q # <<>> => Append(Q, e)[1] = Q[1] /\ Len(Q) > 0
  <1>1. /\ Len(Append(Q, e)) = Len(Q) + 1 /\ Len(Q) \in Nat
        /\ Append(Q, e)[Len(Q) + 1] = e
        /\ \A i \in 1 .. Len(Q) : Append(Q, e)[i] = Q[i]
    OBVIOUS
  <1>2. Append(Q, e) # <<>>
    <2>1. PICK R : R = Append(Q, e)
      OBVIOUS
    <2>2. Len(R) # 0
      BY <1>1, <2>1
    <2>3. R = <<>> => Len(R) = 0
      OBVIOUS
    <2> QED
      BY ONLY <2>1, <2>2, <2>3
  <1>3. Q = <<>> => Len(Q) = 0
    OBVIOUS
  <1>4. Q # <<>> => Len(Q) > 0 /\ 1 \in 1 .. Len(Q)
    OBVIOUS
  <1> QED
    BY <1>1, <1>2, <1>3, <1>4

\* What has been heard of v stays so while q does not ask.
LEMMA HeardStays ==
  ASSUME RunTypes, NEW q \in Monitors, NEW v \in Workers \ {q}, HeardOf(q, v), Hears(q, v),
         waiting'[q] = waiting[q]
  PROVE  HeardOf(q, v)'
  <1> DEFINE Q == events[q][v]
             R == events'[q][v]
  <1>1. Q \in Seq(States)
    BY DEF RunTypes
  <1>2. CASE R = Q /\ (run'[v] = run[v] \/ (run[v] # "new" /\ run'[v] # "over"))
    BY <1>2 DEF HeardOf
  <1>3. ASSUME NEW e \in States, R = Append(Q, e), e = "started" \/ run[v] # "new",
               run'[v] = "over" => run[v] # "new" /\ e = "stopped"
        PROVE  HeardOf(q, v)'
    <2>1. /\ R # <<>> /\ Len(R) = Len(Q) + 1 /\ Len(Q) \in Nat
          /\ Q = <<>> => R[1] = e
          /\ Q # <<>> => R[1] = Q[1] /\ Len(Q) > 0
      BY <1>1, <1>3, AppendTyped
    <2>2. /\ waiting[q] = <<>> /\ Q # <<>> => Q[1] = "started"
          /\ run[v] # "new" => Q # <<>> \/ waiting[q] # <<>>
      BY DEF HeardOf
    <2> HIDE DEF Q, R
    <2>3. waiting[q] = <<>> => R[1] = "started"
      BY <1>3, <2>1, <2>2
    <2>4. run'[v] = "over" => Len(R) > 1 \/ waiting[q] # <<>>
      BY <1>3, <2>1, <2>2
    <2> QED
      BY <2>1, <2>3, <2>4 DEF HeardOf, R
  <1> QED
    BY <1>2, <1>3 DEF Hears

\* A process that does not ask for saves, and whose saves do not go on.
Waits(q) ==
  /\ saving'[q] = saving[q] /\ waiting'[q] = waiting[q]
  /\ timers'[q] = timers[q] /\ semaphore'[q] = semaphore[q]
  /\ q \in Workers => run'[q] = run[q] \/ run'[q] = "started" \/ (run[q] = "stopped" /\ run'[q] = "over")
  /\ q \in Monitors => \A v \in Workers \ {q} : Hears(q, v)

LEMMA FirstSaveWaits ==
  ASSUME TypeInvariant, NEW q \in Processes, AtFirstSave(q), Waits(q)
  PROVE  AtFirstSave(q)'
  <1>1. RunTypes
    BY TypeParts
  <1>2. q \in Monitors => \A v \in Workers \ {q} : HeardOf(q, v)'
    BY <1>1, HeardStays DEF AtFirstSave, Waits
  <1> QED
    BY <1>2 DEF AtFirstSave, Waits

\* A first request makes a semaphore, a later one waits for it.
LEMMA FirstSaveAdds ==
  ASSUME TypeInvariant, NEW p \in Processes, AtFirstSave(p), NEW n \in Nat \ {0},
         NEW states \in Seq(States), states # <<>>, Adds(p, n, states)
  PROVE  /\ n = 1 /\ waiting'[p] # <<>> /\ Len(waiting'[p]) = 1
         /\ timers'[p] = <<>> /\ semaphore'[p] = 1
         /\ waiting[p] = <<>> => /\ waiting'[p][1] = Tail(states)
                                 /\ saving'[p] = {Holding(1, Head(states))}
         /\ waiting[p] # <<>> => waiting'[p][1] # <<>> /\ saving'[p] = saving[p]
  <1>1. /\ timers[p] = <<>> /\ Len(waiting[p]) <= 1 /\ semaphore[p] = Len(waiting[p])
        /\ waiting[p] # <<>> => saving[p] # {}
        /\ \A s \in saving[p] : s.sem = 1
    BY DEF AtFirstSave
  <1>2. /\ waiting[p] \in Seq(Seq(States)) /\ \A s \in saving[p] : s.sem \in DOMAIN waiting[p]
    BY DEF TypeInvariant
  <1>3. Len(waiting'[p]) = IF semaphore[p] = 0 THEN n ELSE Len(waiting[p])
    BY DEF Adds
  <1>4. waiting' \in [Processes -> Seq(Seq(States))]
    BY DEF Adds
  <1>5. waiting'[p] \in Seq(Seq(States))
    BY <1>4
  <1>6. CASE waiting[p] = <<>>
    <2>1. Len(waiting[p]) = 0 /\ DOMAIN waiting[p] = {}
      BY <1>6
    <2>2. semaphore[p] = 0 /\ n = 1 /\ Len(waiting'[p]) = 1
      BY <1>1, <1>3, <2>1 DEF Adds
    <2>3. saving[p] = {} /\ ~ InUse(p, n)
      BY <1>2, <2>1 DEF InUse
    <2>4. /\ waiting'[p][1] = Tail(states) /\ saving'[p] = {Holding(1, Head(states))}
          /\ timers'[p] = timers[p] /\ semaphore'[p] = 1
      BY <2>2, <2>3, OneAdded
    <2>5. waiting'[p] # <<>>
      BY <2>2
    <2> QED
      BY <1>1, <1>6, <2>2, <2>4, <2>5
  <1>7. CASE waiting[p] # <<>>
    <2> DEFINE Q == waiting[p]
    <2>1. Q \in Seq(Seq(States)) /\ Q # <<>> /\ Len(Q) <= 1
      BY <1>1, <1>2, <1>7
    <2> HIDE DEF Q
    <2>2. Len(Q) = 1 /\ 1 \in DOMAIN Q /\ Q[1] \in Seq(States)
      <3>1. Len(Q) \in Nat /\ Len(Q) # 0
        BY <2>1
      <3>2. Len(Q) = 1
        <4>1. PICK k \in Nat : k = Len(Q) /\ k # 0 /\ k <= 1
          BY <2>1, <3>1
        <4>2. k = 1
          BY ONLY <4>1
        <4> QED
          BY <4>1, <4>2
      <3>3. 1 \in DOMAIN Q
        BY <2>1, <3>2
      <3> QED
        BY <2>1, <3>2, <3>3
    <2> USE DEF Q
    <2>3. n = 1 /\ InUse(p, n) /\ Len(waiting'[p]) = 1
      BY <1>1, <1>3, <1>7, <2>2 DEF InUse, Adds
    <2>4. /\ waiting'[p][1] = waiting[p][1] \o states /\ saving' = saving
          /\ timers'[p] = timers[p] /\ semaphore'[p] = 1
      BY <2>3, OneAdded
    <2>5. waiting[p][1] \o states # <<>>
      BY <2>2
    <2>6. waiting'[p] # <<>>
      BY <2>3
    <2> QED
      BY <1>1, <1>7, <2>3, <2>4, <2>5, <2>6
  <1> QED
    BY <1>6, <1>7

\* The first request of a runner is that of its start.
LEMMA RunnerAsks ==
  ASSUME TypeInvariant, NEW w \in Workers, AtFirstSave(w), NEW states, AsksFor(w, states),
         Runs(w), Request(w, states)
  PROVE  AtFirstSave(w)'
  <1>1. w \in Processes /\ states \in Seq(States) /\ states # <<>>
    BY DEF Processes, Request
  <1>2. PICK n \in Nat \ {0} : Adds(w, n, states)
    BY DEF Request
  <1>3. /\ waiting'[w] # <<>> /\ Len(waiting'[w]) = 1 /\ timers'[w] = <<>> /\ semaphore'[w] = 1
        /\ waiting[w] = <<>> => /\ waiting'[w][1] = Tail(states)
                                /\ saving'[w] = {Holding(1, Head(states))}
        /\ waiting[w] # <<>> => waiting'[w][1] # <<>> /\ saving'[w] = saving[w]
    BY <1>1, <1>2, FirstSaveAdds
  <1>4. /\ waiting'[w][1] # <<>> /\ saving'[w] # {}
        /\ \A s \in saving'[w] :
             s.sem = 1 /\ s.state = "started" /\ s.found = {} /\ saving'[w] = {s}
    <2>1. CASE waiting[w] = <<>>
      <3>1. states = <<"started", "running">>
        BY <2>1 DEF AtFirstSave, AsksFor
      <3>2. Tail(states) = <<"running">> /\ Head(states) = "started"
        BY <3>1
      <3>3. saving'[w] = {Holding(1, "started")} /\ waiting'[w][1] = <<"running">>
        BY <1>3, <2>1, <3>2
      <3>4. <<"running">> # <<>>
        OBVIOUS
      <3> QED
        BY <3>3, <3>4 DEF Holding
    <2>2. CASE waiting[w] # <<>>
      BY <1>3, <2>2 DEF AtFirstSave
    <2> QED
      BY <2>1, <2>2
  <1>5. \A v \in Workers : HeardOf(w, v)'
    BY <1>3, <1>4 DEF HeardOf
  <1> QED
    BY <1>3, <1>4, <1>5 DEF AtFirstSave

\* The first event that a monitor takes is that of a start.
LEMMA MonitorAsks ==
  ASSUME TypeInvariant, NEW m \in Monitors, NEW w \in Workers, AtFirstSave(m), Takes(m, w),
         Request(m, <<Head(events[m][w])>>)
  PROVE  AtFirstSave(m)'
  <1> DEFINE Q == events[m][w]
  <1>1. PICK states : states = <<Head(Q)>>
    OBVIOUS
  <1>2. m \in Processes /\ states \in Seq(States) /\ states # <<>>
    BY <1>1 DEF Processes, Request
  <1>3. PICK n \in Nat \ {0} : Adds(m, n, states)
    BY <1>1 DEF Request
  <1>4. /\ waiting'[m] # <<>> /\ Len(waiting'[m]) = 1 /\ timers'[m] = <<>> /\ semaphore'[m] = 1
        /\ waiting[m] = <<>> => /\ waiting'[m][1] = Tail(states)
                                /\ saving'[m] = {Holding(1, Head(states))}
        /\ waiting[m] # <<>> => waiting'[m][1] # <<>> /\ saving'[m] = saving[m]
    BY <1>2, <1>3, FirstSaveAdds
  <1>5. /\ run' = run /\ w # m
        /\ \A v \in Workers \ {w} : events'[m][v] = events[m][v]
        /\ Q \in Seq(States) /\ Q # <<>> /\ events'[m][w] = Tail(Q)
    BY DEF Takes
  <1>6. CASE waiting[m] # <<>>
    <2>1. /\ waiting'[m][1] # <<>> /\ saving'[m] # {}
          /\ \A s \in saving'[m] :
               s.sem = 1 /\ s.state = "started" /\ s.found = {} /\ saving'[m] = {s}
      BY <1>4, <1>6 DEF AtFirstSave
    <2>2. \A v \in Workers : HeardOf(m, v)'
      BY <1>4, <2>1 DEF HeardOf
    <2> QED
      BY <1>4, <2>1, <2>2 DEF AtFirstSave
  <1>7. CASE waiting[m] = <<>>
    <2>1. /\ Head(Q) = Q[1] /\ Len(Tail(Q)) = Len(Q) - 1 /\ Len(Q) \in Nat
          /\ Tail(Q) = <<>> => Q[1] = Q[Len(Q)]
      BY <1>5, HeadTyped
    <2>2. \A v \in Workers \ {m} : HeardOf(m, v)
      BY DEF AtFirstSave
    <2>3. Head(states) = "started"
      BY <1>1, <1>5, <1>7, <2>1, <2>2 DEF HeardOf
    <2>4. /\ saving'[m] # {}
          /\ \A s \in saving'[m] :
               s.sem = 1 /\ s.state = "started" /\ s.found = {} /\ saving'[m] = {s}
      <3>1. saving'[m] = {Holding(1, "started")}
        BY <1>4, <1>7, <2>3
      <3> QED
        BY <3>1 DEF Holding
    <2>5. m \in Workers => run'[m] \notin {"running", "stopped", "over"}
      BY <1>5, <1>7 DEF AtFirstSave
    <2>6. ASSUME NEW v \in Workers \ {m}, run[v] = "over" PROVE events'[m][v] # <<>>
      <3>1. Len(events[m][v]) > 1
        BY <1>7, <2>2, <2>6 DEF HeardOf
      <3>2. CASE v = w
        <4> DEFINE T == Tail(Q)
                   k == Len(Q)
        <4>1. Len(T) = k - 1 /\ k > 1 /\ k \in Nat /\ events'[m][w] = T
          BY <1>5, <2>1, <3>1, <3>2
        <4> HIDE DEF T, k
        <4>2. Len(T) # 0
          BY <4>1
        <4>3. T = <<>> => Len(T) = 0
          OBVIOUS
        <4> QED
          BY <3>2, <4>1, <4>2, <4>3
      <3>3. CASE v # w
        <4>1. events[m][v] = <<>> => Len(events[m][v]) = 0
          OBVIOUS
        <4> QED
          BY <1>5, <3>1, <3>3, <4>1
      <3> QED
        BY <3>2, <3>3
    <2>7. \A v \in Workers \ {m} : HeardOf(m, v)'
      BY <1>4, <1>5, <2>6 DEF HeardOf
    <2> QED
      BY <1>4, <2>4, <2>5, <2>7 DEF AtFirstSave
  <1> QED
    BY <1>6, <1>7

\* With the step of a runner, the other processes wait.
LEMMA RunsWaits ==
  ASSUME NEW w \in Workers, Runs(w), NEW q \in Processes,
         saving'[q] = saving[q], waiting'[q] = waiting[q],
         timers'[q] = timers[q], semaphore'[q] = semaphore[q], q # w \/ Silent(w)
  PROVE  Waits(q)
  BY DEF Runs, Silent, Waits

LEMMA TakesWaits ==
  ASSUME NEW m \in Monitors, NEW w \in Workers, Takes(m, w), NEW q \in Processes \ {m},
         saving'[q] = saving[q], waiting'[q] = waiting[q],
         timers'[q] = timers[q], semaphore'[q] = semaphore[q]
  PROVE  Waits(q)
  BY DEF Takes, Waits, Hears

LEMMA StillWaits ==
  ASSUME UNCHANGED <<run, events>>, NEW q \in Processes,
         saving'[q] = saving[q], waiting'[q] = waiting[q],
         timers'[q] = timers[q], semaphore'[q] = semaphore[q]
  PROVE  Waits(q)
  BY DEF Waits, Hears

\* A save that still makes rows has done so before.
LEMMA BlankBefore ==
  ASSUME NEW q \in Processes, Blank(q)', rows' = rows,
         \A t \in saving'[q] : t \in saving[q] \/ t.at # "save" \/ (t.found = {} => rows = {})
  PROVE  Blank(q)
  BY DEF Blank

LEMMA RequestFirst ==
  ASSUME TypeInvariant, FirstSaves, NEW p \in Processes, NEW states, Request(p, states)
  PROVE  /\ \A q \in Processes : Blank(q)' => AtFirstSave(q)
         /\ \A q \in Processes \ {p} :
              /\ saving'[q] = saving[q] /\ waiting'[q] = waiting[q]
              /\ timers'[q] = timers[q] /\ semaphore'[q] = semaphore[q]
  <1>1. PICK n \in Nat \ {0} : Adds(p, n, states)
    BY DEF Request
  <1>2. /\ \A q \in Processes \ {p} :
             /\ saving'[q] = saving[q] /\ waiting'[q] = waiting[q]
             /\ timers'[q] = timers[q] /\ semaphore'[q] = semaphore[q]
        /\ saving'[p] \subseteq saving[p] \cup {Holding(n, Head(states))}
    BY <1>1, OneAdded
  <1>3. Holding(n, Head(states)).at # "save" /\ rows' = rows
    BY DEF Holding, Request
  <1>4. ASSUME NEW q \in Processes, Blank(q)' PROVE AtFirstSave(q)
    <2>1. \A t \in saving'[q] : t \in saving[q] \/ t.at # "save"
      BY <1>2, <1>3
    <2>2. Blank(q)
      BY <1>3, <1>4, <2>1, BlankBefore
    <2> QED
      BY <2>2 DEF FirstSaves
  <1> QED
    BY <1>2, <1>4

LEMMA RunnerFirst ==
  ASSUME TypeInvariant, FirstSaves, NEW w \in Workers, Runs(w), NEW states,
         Silent(w) \/ (AsksFor(w, states) /\ Request(w, states))
  PROVE  FirstSaves'
  <1>1. CASE Silent(w)
    <2>1. /\ UNCHANGED <<rows, saving, waiting, timers, semaphore>>
      BY <1>1 DEF Runs, Silent, lockVars
    <2>2. ASSUME NEW q \in Processes, Blank(q)' PROVE AtFirstSave(q)'
      <3>1. Blank(q)
        BY <2>1, <2>2 DEF Blank
      <3>2. Waits(q) /\ AtFirstSave(q)
        BY <1>1, <2>1, <3>1, RunsWaits DEF FirstSaves
      <3> QED
        BY <3>2, FirstSaveWaits
    <2> QED
      BY <2>2 DEF FirstSaves
  <1>2. CASE AsksFor(w, states) /\ Request(w, states)
    <2>1. w \in Processes
      BY DEF Processes
    <2>2. ASSUME NEW q \in Processes, Blank(q)' PROVE AtFirstSave(q)'
      <3>1. AtFirstSave(q)
        BY <1>2, <2>1, <2>2, RequestFirst
      <3>2. CASE q = w
        BY <1>2, <3>1, <3>2, RunnerAsks
      <3>3. CASE q # w
        <4>1. Waits(q)
          BY <1>2, <2>1, <3>3, RequestFirst, RunsWaits
        <4> QED
          BY <3>1, <4>1, FirstSaveWaits
      <3> QED
        BY <3>2, <3>3
    <2> QED
      BY <2>2 DEF FirstSaves
  <1> QED
    BY <1>1, <1>2

LEMMA MonitorFirst ==
  ASSUME TypeInvariant, FirstSaves, NEW m \in Monitors, NEW w \in Workers, Takes(m, w),
         Request(m, <<Head(events[m][w])>>)
  PROVE  FirstSaves'
  <1>1. m \in Processes
    BY DEF Processes
  <1>2. PICK states : states = <<Head(events[m][w])>>
    OBVIOUS
  <1>3. ASSUME NEW q \in Processes, Blank(q)' PROVE AtFirstSave(q)'
    <2>1. /\ AtFirstSave(q)
          /\ q # m => /\ saving'[q] = saving[q] /\ waiting'[q] = waiting[q]
                      /\ timers'[q] = timers[q] /\ semaphore'[q] = semaphore[q]
      BY <1>1, <1>2, <1>3, RequestFirst
    <2>2. CASE q = m
      BY <2>1, <2>2, MonitorAsks
    <2>3. CASE q # m
      <3>1. Waits(q)
        BY <2>1, <2>3, TakesWaits
      <3> QED
        BY <2>1, <3>1, FirstSaveWaits
    <2> QED
      BY <2>2, <2>3
  <1> QED
    BY <1>3 DEF FirstSaves

\* When a save goes on, the other processes wait.
LEMMA SavingWaits ==
  ASSUME TypeInvariant, NEW p \in Processes, NEW s \in saving[p],
         Find(p, s) \/ Store(p, s) \/ Discard(p, s) \/ Fail(p, s)
  PROVE  UNCHANGED <<run, events>> /\ \A q \in Processes \ {p} : Waits(q)
  <1>1. UNCHANGED <<run, events>>
    BY DEF Find, Store, Discard, Fail
  <1>2. ASSUME NEW t, Becomes(p, s, t)
        PROVE  \A q \in Processes \ {p} : Waits(q)
    BY <1>1, <1>2, OneBecomes, StillWaits
  <1>3. ASSUME Release(p, s)
        PROVE  \A q \in Processes \ {p} : Waits(q)
    BY <1>1, <1>3, OneFreed, StillWaits
  <1> QED
    BY <1>1, <1>2, <1>3 DEF Find, Store, Discard, Fail

\* A save goes on: the others wait, and it has been the only one if the rows were not there.
LEMMA SavingFirst ==
  ASSUME TypeInvariant, RowsKept, FoundKept, FirstSaves, Workers # {},
         NEW p \in Processes, NEW s \in saving[p],
         Find(p, s) \/ Store(p, s) \/ Discard(p, s) \/ Fail(p, s)
  PROVE  FirstSaves'
  <1>1. UNCHANGED <<run, events>> /\ \A q \in Processes \ {p} : Waits(q)
    BY SavingWaits
  <1>2. rows # {} => rows' # {}
    <2>1. Carried
      <3>1. Step
        BY DEF Step
      <3> QED
        BY <3>1, RowsStay
    <2> QED
      BY <2>1 DEF Carried
  <1>3. ASSUME NEW q \in Processes \ {p}, Blank(q)' PROVE AtFirstSave(q)'
    <2>1. Blank(q)
      BY <1>1, <1>2, <1>3 DEF Blank, Waits
    <2>2. AtFirstSave(q) /\ Waits(q)
      BY <1>1, <2>1 DEF FirstSaves
    <2> QED
      BY <2>2, FirstSaveWaits
  <1>4. ASSUME Blank(p)' PROVE AtFirstSave(p)'
    <2>1. s \in Holder /\ (s.at = "remove" => s.found # {}) /\ (s.found # {} => rows # {})
      BY FoundTypes DEF FoundKept, FoundFits
    <2>2. ASSUME NEW t, Becomes(p, s, t), rows = {}, t.sem = s.sem, t.state = s.state,
                 t.found = {}
          PROVE  AtFirstSave(p)'
      <3>1. AtFirstSave(p) /\ saving[p] = {s}
        BY <2>2 DEF FirstSaves, Blank, AtFirstSave
      <3>2. /\ saving'[p] = {t}
            /\ UNCHANGED <<semaphore, waiting, timers>>
        BY <2>2, <3>1, OneBecomes
      <3>3. t.sem = 1 /\ t.state = "started"
        BY <2>2, <3>1 DEF AtFirstSave
      <3>4. p \in Monitors => \A v \in Workers \ {p} : HeardOf(p, v)'
        BY <1>1, <3>1, <3>2 DEF AtFirstSave, HeardOf
      <3>5. p \in Workers => run'[p] = run[p]
        BY <1>1
      <3> QED
        BY <2>2, <3>1, <3>2, <3>3, <3>4, <3>5 DEF AtFirstSave
    <2>3. ASSUME NEW u \in saving[p], u # s, u.at = "save", u.found = {} PROVE FALSE
      <3>1. Blank(p) /\ AtFirstSave(p)
        BY <2>3 DEF FirstSaves, Blank
      <3> QED
        BY <2>3, <3>1 DEF AtFirstSave
    <2>4. CASE Find(p, s)
      <3>1. PICK t : t = [s EXCEPT !.at = "save", !.found = rows]
        OBVIOUS
      <3>2. Becomes(p, s, t) /\ rows' = rows
        BY <2>4, <3>1 DEF Find
      <3>3. t.sem = s.sem /\ t.state = s.state /\ t.found = rows
        BY <2>1, <3>1 DEF Holder
      <3>4. saving'[p] = (saving[p] \ {s}) \cup {t}
        BY <3>2, OneBecomes
      <3>5. rows = {}
        BY <1>4, <2>3, <3>2, <3>3, <3>4 DEF Blank
      <3> QED
        BY <2>2, <3>2, <3>3, <3>5
    <2>5. CASE Fail(p, s)
      <3>1. PICK t : t = [s EXCEPT !.at = "failed"]
        OBVIOUS
      <3>2. Becomes(p, s, t) /\ rows' = rows
        BY <2>5, <3>1 DEF Fail
      <3>3. t.sem = s.sem /\ t.state = s.state /\ t.found = s.found /\ t.at = "failed"
        BY <2>1, <3>1 DEF Holder
      <3>4. saving'[p] = (saving[p] \ {s}) \cup {t}
        BY <3>2, OneBecomes
      <3>5. rows = {}
        BY <1>4, <2>3, <3>2, <3>3, <3>4 DEF Blank
      <3> QED
        BY <2>1, <2>2, <3>2, <3>3, <3>5
    <2>6. CASE Store(p, s) \/ Discard(p, s)
      <3>1. rows' # {}
        <4>1. CASE s.found = {}
          <5>1. Store(p, s)
            BY <2>1, <2>6, <4>1 DEF Discard
          <5> QED
            BY <4>1, <5>1, MakeCarried
        <4>2. CASE s.found # {}
          BY <1>2, <2>1, <4>2
        <4> QED
          BY <4>1, <4>2
      <3>2. PICK u \in saving'[p] : u.at = "save" /\ u.found = {}
        BY <1>4, <3>1 DEF Blank
      <3>3. \A t : t \in saving'[p] => (t \in saving[p] /\ t # s) \/ t.at # "save"
        <4>1. CASE Release(p, s)
          BY <4>1, OneFreed DEF Holding
        <4>2. CASE Becomes(p, s, [s EXCEPT !.at = "remove"])
          <5>1. PICK r : r = [s EXCEPT !.at = "remove"]
            OBVIOUS
          <5>2. r.at = "remove" /\ Becomes(p, s, r)
            BY <2>1, <4>2, <5>1 DEF Holder
          <5>3. saving'[p] = (saving[p] \ {s}) \cup {r}
            BY <5>2, OneBecomes
          <5> QED
            BY <5>2, <5>3
        <4> QED
          BY <2>6, <4>1, <4>2 DEF Store, Discard
      <3> QED
        BY <2>3, <3>2, <3>3
    <2> QED
      BY <2>4, <2>5, <2>6
  <1> QED
    BY <1>3, <1>4 DEF FirstSaves

LEMMA CleanupFirst ==
  ASSUME TypeInvariant, FirstSaves, NEW p \in Processes, Cleanup(p), Cleans(p)
  PROVE  FirstSaves'
  <1>1. UNCHANGED <<run, events, rows, saving>>
    BY DEF Cleanup
  <1>2. \A q \in Processes \ {p} :
          /\ saving'[q] = saving[q] /\ waiting'[q] = waiting[q]
          /\ timers'[q] = timers[q] /\ semaphore'[q] = semaphore[q]
    BY <1>1 DEF Cleans, TypeInvariant
  <1>3. ASSUME NEW q \in Processes, Blank(q)' PROVE AtFirstSave(q)'
    <2>1. AtFirstSave(q)
      BY <1>1, <1>3 DEF Blank, FirstSaves
    <2>2. q # p
      BY <2>1 DEF AtFirstSave, Cleans
    <2>3. Waits(q)
      BY <1>1, <1>2, <2>2, StillWaits
    <2> QED
      BY <2>1, <2>3, FirstSaveWaits
  <1> QED
    BY <1>3 DEF FirstSaves

-----------------------------------------------------------------------------
\* Extra rows

LEMMA MoreWaits ==
  ASSUME TypeInvariant, NEW q \in Processes, Waits(q), More(q)
  PROVE  More(q)'
  <1>1. CASE q \in Workers /\ run[q] \in {"new", "started", "running"}
    BY <1>1 DEF Waits, More
  <1>2. ASSUME q \in Monitors, NEW v \in Workers \ {q}, run[v] # "over" \/ events[q][v] # <<>>
        PROVE  More(q)'
    <2>1. events[q][v] \in Seq(States) /\ Hears(q, v)
      BY <1>2 DEF TypeInvariant, Waits
    <2>2. \A e \in States : Append(events[q][v], e) # <<>>
      BY <2>1, AppendTyped
    <2>3. run'[v] # "over" \/ events'[q][v] # <<>>
      BY <1>2, <2>1, <2>2 DEF Hears
    <2> QED
      BY <1>2, <2>3 DEF More
  <1> QED
    BY <1>1, <1>2 DEF More

LEMMA RemoveWaits ==
  ASSUME TypeInvariant, NEW q \in Processes, Waits(q), NEW n, WillRemove(q, n)
  PROVE  WillRemove(q, n)'
  <1>1. saving'[q] = saving[q] /\ waiting'[q] = waiting[q]
    BY DEF Waits
  <1>2. CASE saving[q] = {} /\ (\A k \in DOMAIN waiting[q] : waiting[q][k] = <<>>) /\ More(q)
    BY <1>1, <1>2, MoreWaits DEF WillRemove
  <1>3. CASE \E s \in saving[q] : \/ s.at \in {"failed", "find"}
                                  \/ s.at \in {"save", "remove"} /\ n \in ToRemove(s)
    BY <1>1, <1>3 DEF WillRemove, ToRemove, Kept, FoundFor
  <1> QED
    BY <1>2, <1>3 DEF WillRemove

\* The save that is going to remove the row goes on to be there.
LEMMA RemoveStays ==
  ASSUME NEW q \in Processes, NEW n, NEW s \in saving[q], s \in saving'[q],
         s.at \in {"failed", "find"} \/ (s.at \in {"save", "remove"} /\ n \in ToRemove(s))
  PROVE  WillRemove(q, n)'
  BY DEF WillRemove, ToRemove, Kept, FoundFor

LEMMA RemoveAsks ==
  ASSUME TypeInvariant, NEW p \in Processes, NEW states, Request(p, states), NEW n,
         WillRemove(p, n)
  PROVE  WillRemove(p, n)'
  <1>1. PICK k \in Nat \ {0} : Adds(p, k, states)
    BY DEF Request
  <1>2. /\ saving[p] \subseteq saving'[p]
        /\ ~ InUse(p, k) => saving'[p] = saving[p] \cup {Holding(k, Head(states))}
    BY <1>1, OneAdded
  <1>3. CASE saving[p] = {} /\ \A i \in DOMAIN waiting[p] : waiting[p][i] = <<>>
    <2>1. ~ InUse(p, k)
      BY <1>3 DEF InUse
    <2>2. PICK h : h = Holding(k, Head(states))
      OBVIOUS
    <2>3. h \in saving'[p] /\ h.at = "find"
      BY <1>2, <2>1, <2>2 DEF Holding
    <2> QED
      BY <2>3 DEF WillRemove
  <1>4. CASE \E s \in saving[p] : \/ s.at \in {"failed", "find"}
                                  \/ s.at \in {"save", "remove"} /\ n \in ToRemove(s)
    BY <1>2, <1>4, RemoveStays
  <1> QED
    BY <1>3, <1>4 DEF WillRemove

\* A step that changes no row, with which all that are to remove a row still are.
LEMMA ExtrasStay ==
  ASSUME ExtrasGo, UNCHANGED rows,
         \A q \in Processes : \A n : WillRemove(q, n) => WillRemove(q, n)'
  PROVE  ExtrasGo'
  BY DEF ExtrasGo, IsFirst

LEMMA RunnerExtras ==
  ASSUME TypeInvariant, ExtrasGo, NEW w \in Workers, Runs(w), NEW states,
         Silent(w) \/ (AsksFor(w, states) /\ Request(w, states)), FirstSaves
  PROVE  ExtrasGo'
  <1>1. w \in Processes /\ rows' = rows
    BY DEF Processes, Runs
  <1>2. ASSUME NEW q \in Processes, NEW n, WillRemove(q, n) PROVE WillRemove(q, n)'
    <2>1. CASE Silent(w)
      <3>1. UNCHANGED <<saving, waiting, timers, semaphore>>
        BY <2>1 DEF Silent, lockVars
      <3>2. Waits(q)
        BY <2>1, <3>1, RunsWaits
      <3> QED
        BY <1>2, <3>2, RemoveWaits
    <2>2. CASE Request(w, states)
      <3>1. CASE q = w
        BY <1>1, <1>2, <2>2, <3>1, RemoveAsks
      <3>2. CASE q # w
        <4>1. Waits(q)
          BY <1>1, <2>2, <3>2, RequestFirst, RunsWaits
        <4> QED
          BY <1>2, <4>1, RemoveWaits
      <3> QED
        BY <3>1, <3>2
    <2> QED
      BY <2>1, <2>2
  <1> QED
    BY <1>1, <1>2, ExtrasStay

LEMMA MonitorExtras ==
  ASSUME TypeInvariant, ExtrasGo, FirstSaves, NEW m \in Monitors, NEW w \in Workers, Takes(m, w),
         Request(m, <<Head(events[m][w])>>)
  PROVE  ExtrasGo'
  <1>1. m \in Processes /\ rows' = rows
    BY DEF Processes, Takes
  <1>2. PICK states : states = <<Head(events[m][w])>>
    OBVIOUS
  <1>3. Request(m, states)
    BY <1>2
  <1>4. ASSUME NEW q \in Processes, NEW n, WillRemove(q, n) PROVE WillRemove(q, n)'
    <2>1. CASE q = m
      BY <1>1, <1>3, <1>4, <2>1, RemoveAsks
    <2>2. CASE q # m
      <3>1. /\ saving'[q] = saving[q] /\ waiting'[q] = waiting[q]
            /\ timers'[q] = timers[q] /\ semaphore'[q] = semaphore[q]
        BY <1>1, <1>3, <2>2, RequestFirst
      <3>2. Waits(q)
        BY <2>2, <3>1, TakesWaits
      <3> QED
        BY <1>4, <3>2, RemoveWaits
    <2> QED
      BY <2>1, <2>2
  <1> QED
    BY <1>1, <1>4, ExtrasStay

LEMMA CleanupExtras ==
  ASSUME TypeInvariant, ExtrasGo, NEW p \in Processes, Cleanup(p), Cleans(p)
  PROVE  ExtrasGo'
  <1>1. UNCHANGED <<run, events, rows, saving>>
    BY DEF Cleanup
  <1>2. /\ \A q \in Processes \ {p} :
             /\ saving'[q] = saving[q] /\ waiting'[q] = waiting[q]
             /\ timers'[q] = timers[q] /\ semaphore'[q] = semaphore[q]
        /\ DOMAIN waiting'[p] = DOMAIN waiting[p]
        /\ \A k \in DOMAIN waiting[p] : waiting[p][k] = <<>> => waiting'[p][k] = <<>>
    BY <1>1 DEF Cleans, TypeInvariant
  <1>3. ASSUME NEW q \in Processes, NEW n, WillRemove(q, n) PROVE WillRemove(q, n)'
    <2>1. CASE q = p
      <3>1. CASE saving[p] = {} /\ (\A k \in DOMAIN waiting[p] : waiting[p][k] = <<>>) /\ More(p)
        <4>1. More(p)'
          BY <1>1, <3>1 DEF More
        <4> QED
          BY <1>1, <1>2, <2>1, <3>1, <4>1 DEF WillRemove
      <3>2. CASE \E s \in saving[p] : \/ s.at \in {"failed", "find"}
                                      \/ s.at \in {"save", "remove"} /\ n \in ToRemove(s)
        BY <1>1, <2>1, <3>2, RemoveStays
      <3> QED
        BY <1>3, <2>1, <3>1, <3>2 DEF WillRemove
    <2>2. CASE q # p
      <3>1. Waits(q)
        BY <1>1, <1>2, <2>2, StillWaits
      <3> QED
        BY <1>3, <3>1, RemoveWaits
    <2> QED
      BY <2>1, <2>2
  <1> QED
    BY <1>1, <1>3, ExtrasStay

\* A row that is extra after a step, and has been there before, has been extra.
LEMMA ExtraBefore ==
  ASSUME TypeInvariant, Carried, NEW r, NEW q \in rows,
         q.row = r.row, q.target = r.target, ~ IsFirst(rows', r.target, r.row)
  PROVE  ~ IsFirst(rows, q.target, q.row)
  <1>1. q.row \in Nat /\ q.target \in Workers
    BY DEF TypeInvariant, Row
  <1> QED
    BY <1>1 DEF Carried

\* A first save that made rows when there were some already has more to come.
LEMMA FirstSaveGoesOn ==
  ASSUME TypeInvariant, Workers # {}, NEW p \in Processes, NEW s \in saving[p],
         AtFirstSave(p), Release(p, s), UNCHANGED <<run, events>>
  PROVE  \A n : WillRemove(p, n)'
  <1>1. /\ saving[p] = {s} /\ s.sem = 1
        /\ Len(waiting[p]) <= 1 /\ s.sem \in DOMAIN waiting[p]
        /\ waiting[p] \in Seq(Seq(States))
    BY DEF AtFirstSave, TypeInvariant
  <1>2. DOMAIN waiting[p] = {1}
    <2>1. DOMAIN waiting[p] = 1 .. Len(waiting[p]) /\ Len(waiting[p]) \in Nat
      BY <1>1
    <2> QED
      BY <1>1, <2>1
  <1>3. CASE waiting[p][1] # <<>>
    <2>1. PICK h : h = Holding(1, Head(waiting[p][1]))
      OBVIOUS
    <2>2. saving'[p] = (saving[p] \ {s}) \cup {h}
      BY <1>1, <1>3, <2>1, OneFreed
    <2>3. h.at = "find"
      BY <2>1 DEF Holding
    <2> QED
      BY <2>2, <2>3 DEF WillRemove
  <1>4. CASE waiting[p][1] = <<>>
    <2>1. saving'[p] = {} /\ waiting'[p] = waiting[p]
      BY <1>1, <1>4, OneFreed
    <2>2. More(p)
      <3>1. CASE p \in Workers
        <4>1. run[p] \in {"new", "started"}
          BY <1>4, <3>1 DEF AtFirstSave, TypeInvariant
        <4> QED
          BY <3>1, <4>1 DEF More
      <3>2. CASE p \notin Workers
        <4>1. p \in Monitors
          BY <3>2 DEF Processes
        <4>2. PICK w \in Workers \ {p} : TRUE
          BY <3>2
        <4>3. HeardOf(p, w)
          BY <4>1 DEF AtFirstSave
        <4>4. CASE events[p][w] = <<>> /\ run[w] = "over"
          <5>1. Len(events[p][w]) = 0
            BY <4>4
          <5> QED
            BY <1>4, <4>3, <4>4, <5>1 DEF HeardOf
        <4> QED
          BY <4>1, <4>4 DEF More
      <3> QED
        BY <3>1, <3>2
    <2>3. More(p)'
      BY <2>2 DEF More
    <2> QED
      BY <1>2, <1>4, <2>1, <2>3 DEF WillRemove
  <1> QED
    BY <1>3, <1>4

LEMMA SavingExtras ==
  ASSUME TypeInvariant, RowsKept, FoundKept, FirstSaves, ExtrasGo, Workers # {},
         NEW p \in Processes, NEW s \in saving[p],
         Find(p, s) \/ Store(p, s) \/ Discard(p, s) \/ Fail(p, s)
  PROVE  ExtrasGo'
  <1>1. UNCHANGED <<run, events>> /\ \A q \in Processes \ {p} : Waits(q)
    BY SavingWaits
  <1>2. Carried /\ RowsKept' /\ FoundFits(s) /\ s \in Holder
    <2>1. Step
      BY DEF Step
    <2> QED
      BY <2>1, RowsStay, FoundTypes DEF FoundKept
  <1> SUFFICES ASSUME NEW r \in rows', ~ IsFirst(rows', r.target, r.row)
               PROVE  \E q \in Processes : WillRemove(q, r.row)'
    BY DEF ExtrasGo
  <1> DEFINE n == r.row
  <1>3. CASE Find(p, s)
    <2>1. PICK t : t = [s EXCEPT !.at = "save", !.found = rows]
      OBVIOUS
    <2>2. /\ Becomes(p, s, t) /\ rows' = rows
          /\ t.at = "save" /\ t.found = rows
      BY <1>2, <1>3, <2>1 DEF Find, Holder
    <2>3. /\ OneEach(t.found)
          /\ \A w \in Workers : \E k \in Nat : IsFirst(t.found, w, k)
          /\ \A q \in t.found : q.row \in Nat /\ q.target \in Workers
      BY <2>2, FoundTypes DEF RowsKept
    <2>4. n \in ToRemove(t)
      BY <2>2, <2>3, ExtrasRemoved
    <2>5. t \in saving'[p]
      BY <2>2, OneBecomes
    <2> QED
      BY <2>2, <2>4, <2>5 DEF WillRemove, ToRemove, Kept, FoundFor
  <1>4. CASE Fail(p, s)
    <2>1. PICK t : t = [s EXCEPT !.at = "failed"]
      OBVIOUS
    <2>2. Becomes(p, s, t) /\ t.at = "failed"
      BY <1>2, <1>4, <2>1 DEF Fail, Holder
    <2>3. t \in saving'[p]
      BY <2>2, OneBecomes
    <2> QED
      BY <2>2, <2>3 DEF WillRemove
  <1>5. ASSUME NEW q \in rows, q.row = n, q.target = r.target,
               WillRemove(p, n) => WillRemove(p, n)'
        PROVE  \E u \in Processes : WillRemove(u, n)'
    <2>1. PICK u \in Processes : WillRemove(u, n)
      BY <1>2, <1>5, ExtraBefore DEF ExtrasGo
    <2>2. CASE u = p
      BY <1>5, <2>1, <2>2
    <2>3. CASE u # p
      BY <1>1, <2>1, <2>3, RemoveWaits
    <2> QED
      BY <2>2, <2>3
  <1>6. CASE Store(p, s) /\ s.found = {}
    <2>1. /\ rows = {} => IsFirst(rows', r.target, r.row)
          /\ Release(p, s)
      BY <1>6, MakeCarried, StoreMakes
    <2>2. AtFirstSave(p)
      BY <1>6 DEF FirstSaves, Blank, Store
    <2> QED
      BY <1>1, <2>1, <2>2, FirstSaveGoesOn
  <1>7. CASE Store(p, s) /\ s.found # {}
    <2>1. PICK q \in rows : q.row = n /\ q.target = r.target
      BY <1>7, StoreWrites DEF SameRows
    <2>2. ASSUME WillRemove(p, n) PROVE WillRemove(p, n)'
      <3>1. PICK u \in saving[p] : u.at \in {"failed", "find"} \/ (u.at \in {"save", "remove"} /\ n \in ToRemove(u))
        BY <2>2 DEF WillRemove
      <3>2. CASE u # s
        <4>1. u \in saving'[p]
          <5>1. CASE Release(p, s)
            BY <3>2, <5>1, OneFreed
          <5>2. ASSUME NEW t, Becomes(p, s, t) PROVE u \in saving'[p]
            BY <3>2, <5>2, OneBecomes
          <5> QED
            BY <1>7, <5>1, <5>2 DEF Store
        <4> QED
          BY <3>1, <4>1, RemoveStays
      <3>3. CASE u = s
        <4>1. n \in ToRemove(s)
          BY <1>7, <3>1, <3>3 DEF Store
        <4>2. PICK t : t = [s EXCEPT !.at = "remove"]
          OBVIOUS
        <4>3. Becomes(p, s, t) /\ t.at = "remove" /\ t.found = s.found
          BY <1>2, <1>7, <4>1, <4>2 DEF Store, Holder
        <4>4. t \in saving'[p]
          BY <4>3, OneBecomes
        <4>5. n \in ToRemove(t)
          BY <4>1, <4>3 DEF ToRemove, Kept, FoundFor
        <4> QED
          BY <4>3, <4>4, <4>5 DEF WillRemove, ToRemove, Kept, FoundFor
      <3> QED
        BY <3>2, <3>3
    <2> QED
      BY <1>5, <2>1, <2>2
  <1>8. CASE Discard(p, s)
    <2>1. r \in rows /\ n \notin ToRemove(s)
      BY <1>8, DiscardCarried
    <2>2. ASSUME WillRemove(p, n) PROVE WillRemove(p, n)'
      <3>1. PICK u \in saving[p] : u.at \in {"failed", "find"} \/ (u.at \in {"save", "remove"} /\ n \in ToRemove(u))
        BY <2>2 DEF WillRemove
      <3>2. u # s
        BY <1>8, <2>1, <3>1 DEF Discard
      <3>3. u \in saving'[p]
        BY <1>8, <3>2, OneFreed DEF Discard
      <3> QED
        BY <3>1, <3>3, RemoveStays
    <2> QED
      BY <1>5, <2>1, <2>2
  <1> QED
    BY <1>3, <1>4, <1>6, <1>7, <1>8

-----------------------------------------------------------------------------
\* The invariant of the rows

LEMMA LogInit ==
  ASSUME Init
  PROVE  LogInv
  <1>1. RunTypes
    BY TaskLogAssumption DEF Init, RunTypes
  <1>2. RowTypes
    BY DEF Init, RowTypes
  <1>3. LockTypes
    <2>1. <<>> \in Seq(Seq(States)) /\ <<>> \in Seq(Nat) /\ {} \in SUBSET Holder /\ DOMAIN <<>> = {}
      OBVIOUS
    <2> QED
      BY <2>1 DEF Init, LockTypes
  <1>4. TypeInvariant
    BY <1>1, <1>2, <1>3 DEF TypeInvariant, RunTypes, RowTypes, LockTypes
  <1>5. RowsKept /\ FoundKept /\ NotToItself
    BY DEF Init, RowsKept, OneEach, FoundKept, NotToItself
  <1>6. FirstSaves
    <2> SUFFICES ASSUME NEW p \in Processes PROVE AtFirstSave(p)
      BY DEF FirstSaves
    <2>1. Len(<<>>) = 0
      OBVIOUS
    <2>2. /\ timers[p] = <<>> /\ waiting[p] = <<>> /\ semaphore[p] = 0 /\ saving[p] = {}
          /\ p \in Workers => run[p] = "new"
      BY DEF Init
    <2>3. p \in Monitors => \A w \in Workers \ {p} : HeardOf(p, w)
      BY <2>2 DEF Init, HeardOf
    <2> QED
      BY <2>1, <2>2, <2>3 DEF AtFirstSave
  <1>7. ExtrasGo
    BY DEF Init, ExtrasGo
  <1> QED
    BY <1>4, <1>5, <1>6, <1>7 DEF LogInv

LEMMA LogNext ==
  ASSUME LogInv, Next, Workers # {}
  PROVE  LogInv' /\ Step
  <1>1. TypeInvariant /\ RowsKept /\ FoundKept /\ NotToItself /\ FirstSaves /\ ExtrasGo
    BY DEF LogInv
  <1>2. TypeInvariant' /\ NotToItself' /\ Step
    BY <1>1, StepKinds
  <1>3. RowsKept' /\ FoundKept'
    BY <1>1, <1>2, RowsStay
  <1>4. FirstSaves' /\ ExtrasGo'
    <2>1. ASSUME NEW w \in Workers, NEW states, Runs(w),
                 Silent(w) \/ (AsksFor(w, states) /\ Request(w, states))
          PROVE  FirstSaves' /\ ExtrasGo'
      BY <1>1, <2>1, RunnerFirst, RunnerExtras
    <2>2. ASSUME NEW m \in Monitors, NEW w \in Workers, Takes(m, w),
                 Request(m, <<Head(events[m][w])>>)
          PROVE  FirstSaves' /\ ExtrasGo'
      BY <1>1, <2>2, MonitorFirst, MonitorExtras
    <2>3. ASSUME NEW p \in Processes, NEW s \in saving[p],
                 Find(p, s) \/ Store(p, s) \/ Discard(p, s) \/ Fail(p, s)
          PROVE  FirstSaves' /\ ExtrasGo'
      BY <1>1, <2>3, SavingFirst, SavingExtras
    <2>4. ASSUME NEW p \in Processes, Cleanup(p), Cleans(p)
          PROVE  FirstSaves' /\ ExtrasGo'
      BY <1>1, <2>4, CleanupFirst, CleanupExtras
    <2> QED
      BY <1>2, <2>1, <2>2, <2>3, <2>4 DEF Step
  <1> QED
    BY <1>2, <1>3, <1>4 DEF LogInv

LEMMA LogStutter ==
  ASSUME LogInv, UNCHANGED vars
  PROVE  LogInv'
  <1>1. UNCHANGED <<run, progress, events, semaphore, saving, waiting, timers, disturbed, rows, rowNr>>
    BY DEF vars, lockVars
  <1>2. TypeInvariant' /\ RowsKept'
    BY <1>1 DEF LogInv, TypeInvariant, Row, Holder, RowsKept
  <1>3. FoundKept' /\ NotToItself'
    BY <1>1 DEF LogInv, FoundKept, FoundFits, NotToItself
  <1>4. FirstSaves'
    BY <1>1 DEF LogInv, FirstSaves, Blank, AtFirstSave, HeardOf
  <1>5. \A q \in Processes : \A n : WillRemove(q, n) => WillRemove(q, n)'
    BY <1>1 DEF WillRemove, More, ToRemove, Kept, FoundFor
  <1>6. ExtrasGo'
    BY <1>1, <1>5, ExtrasStay DEF LogInv
  <1> QED
    BY <1>2, <1>3, <1>4, <1>6 DEF LogInv

\* The rows, what has been found of them and what goes on agree at all times: a save that
\* finds no row is the first of its process, and for each row beside the first of its
\* target there is a process that is going to remove it.
THEOREM LogInvariant == Spec => []LogInv
  <1>1. Init => LogInv
    BY LogInit
  <1>2. CASE Workers = {}
    <2>1. Init /\ [Next]_vars => Init'
      <3> SUFFICES ASSUME Init, [Next]_vars PROVE Init'
        OBVIOUS
      <3>1. ~ Next
        BY <1>2 DEF Init, Next, Saving, Cleanup
      <3> QED
        BY <3>1 DEF Init, vars, lockVars
    <2> QED
      BY <1>1, <2>1, PTL DEF Spec
  <1>3. CASE Workers # {}
    <2>1. LogInv /\ [Next]_vars => LogInv'
      BY <1>3, LogNext, LogStutter
    <2> QED
      BY <1>1, <2>1, PTL DEF Spec
  <1> QED
    BY <1>2, <1>3

\* When all is over each row is the first of its target, and each target has one.
LEMMA QuietFirsts ==
  ASSUME LogInv, Quiet, Workers # {}
  PROVE  rows # {} /\ \A r \in rows : IsFirst(rows, r.target, r.row)
  <1>1. TypeInvariant /\ FirstSaves /\ ExtrasGo
    BY DEF LogInv
  <1>2. PICK w \in Workers : run[w] = "over"
    BY DEF Quiet
  <1>3. rows # {}
    <2>1. w \in Processes
      BY DEF Processes
    <2>2. AtFirstSave(w) => waiting[w] # <<>> /\ waiting[w][1] # <<>>
      BY <1>2 DEF AtFirstSave
    <2>3. waiting[w] # <<>> => 1 \in DOMAIN waiting[w]
      <3>1. PICK Q \in Seq(Seq(States)) : Q = waiting[w]
        BY <1>1, <2>1 DEF TypeInvariant
      <3>2. Q # <<>> => 1 \in DOMAIN Q
        OBVIOUS
      <3> QED
        BY <3>1, <3>2
    <2> QED
      BY <1>1, <2>1, <2>2, <2>3 DEF FirstSaves, Blank, Quiet
  <1>4. \A p \in Processes : \A n : ~ WillRemove(p, n)
    BY DEF WillRemove, Quiet, More
  <1> QED
    BY <1>1, <1>3, <1>4 DEF ExtrasGo

\* All rows of a target are one: the removals of saveRunnerResults() leave none beside the
\* first, whichever process has made it.
THEOREM RowPerTarget == Spec => []OneRowPerTarget
  <1>1. LogInv => OneRowPerTarget
    <2> SUFFICES ASSUME LogInv, Quiet, NEW w \in Workers
                 PROVE  Cardinality({r \in rows : r.target = w}) = 1
      BY DEF OneRowPerTarget
    <2>1. TypeInvariant /\ RowsKept
      BY DEF LogInv
    <2>2. rows # {} /\ \A r \in rows : IsFirst(rows, r.target, r.row)
      BY QuietFirsts
    <2>3. PICK n \in Nat : IsFirst(rows, w, n)
      BY <2>1, <2>2 DEF RowsKept
    <2>4. PICK q \in rows : q.row = n /\ q.target = w
      BY <2>3 DEF IsFirst
    <2>5. \A r \in rows : r.target = w => r = q
      <3> SUFFICES ASSUME NEW r \in rows, r.target = w PROVE r = q
        OBVIOUS
      <3>1. r.row \in Nat /\ IsFirst(rows, w, r.row)
        BY <2>1, <2>2 DEF TypeInvariant, Row
      <3>2. r.row = n
        BY <2>3, <3>1, OneFirst
      <3> QED
        BY <2>1, <2>4, <3>2 DEF RowsKept, OneEach
    <2>6. {r \in rows : r.target = w} = {q}
      BY <2>4, <2>5
    <2> QED
      BY <2>6, FS_Singleton
  <1> QED
    BY <1>1, LogInvariant, PTL

-----------------------------------------------------------------------------
\* What is said last

LEMMA EventsStay ==
  ASSUME TypeInvariant, EventsInOrder, NEW q \in Monitors, NEW v \in Workers \ {q}, Hears(q, v)
  PROVE  (run[v] = "over" /\ events[q][v] # <<>> => events[q][v][Len(events[q][v])] = "stopped")'
  <1> DEFINE Q == events[q][v]
             R == events'[q][v]
  <1>1. Q \in Seq(States) /\ (run[v] = "over" /\ Q # <<>> => Q[Len(Q)] = "stopped")
    BY DEF TypeInvariant, EventsInOrder
  <1>2. CASE R = Q /\ (run'[v] = run[v] \/ (run[v] # "new" /\ run'[v] # "over"))
    BY <1>1, <1>2
  <1>3. ASSUME NEW e \in States, R = Append(Q, e), run'[v] = "over" => e = "stopped"
        PROVE  run'[v] = "over" => R[Len(R)] = "stopped"
    <2>1. Append(Q, e)[Len(Append(Q, e))] = e
      BY <1>1, AppendTyped
    <2> QED
      BY <1>3, <2>1
  <1> QED
    BY <1>2, <1>3 DEF Hears

LEMMA EventsKept ==
  ASSUME TypeInvariant, EventsInOrder, Step
  PROVE  EventsInOrder'
  <1> SUFFICES ASSUME NEW q \in Monitors, NEW v \in Workers \ {q}
               PROVE  (run[v] = "over" /\ events[q][v] # <<>>
                         => events[q][v][Len(events[q][v])] = "stopped")'
    BY DEF EventsInOrder
  <1>1. CASE \E w \in Workers : Runs(w)
    BY <1>1, EventsStay DEF Runs
  <1>2. CASE UNCHANGED <<run, events>>
    BY <1>2 DEF EventsInOrder
  <1>3. ASSUME NEW m \in Monitors, NEW w \in Workers, Takes(m, w)
        PROVE  (run[v] = "over" /\ events[q][v] # <<>>
                         => events[q][v][Len(events[q][v])] = "stopped")'
    <2>1. run' = run
      BY <1>3 DEF Takes
    <2>2. CASE q = m /\ v = w
      <3>1. events[q][v] \in Seq(States) /\ events[q][v] # <<>> /\ events'[q][v] = Tail(events[q][v])
        BY <1>3, <2>2 DEF Takes
      <3>2. PICK Q \in Seq(States) : Q = events[q][v]
        BY <3>1
      <3>3. Tail(Q) # <<>> => Tail(Q)[Len(Tail(Q))] = Q[Len(Q)]
        BY <3>1, <3>2, HeadTyped
      <3>4. run[v] = "over" => Q[Len(Q)] = "stopped"
        BY <3>1, <3>2 DEF EventsInOrder
      <3> QED
        BY <2>1, <3>1, <3>2, <3>3, <3>4
    <2>3. CASE ~ (q = m /\ v = w)
      <3>1. events'[q][v] = events[q][v]
        BY <1>3, <2>3 DEF Takes
      <3> QED
        BY <2>1, <3>1 DEF EventsInOrder
    <2> QED
      BY <2>2, <2>3
  <1> QED
    BY <1>1, <1>2, <1>3 DEF Step, Find, Store, Discard, Fail, Cleanup

\* A process that waits still has its saves in turn, and says the same last.
LEMMA TurnWaits ==
  ASSUME TypeInvariant, NEW q \in Processes, Waits(q)
  PROVE  /\ InTurn(q) => InTurn(q)'
         /\ EndsStopped(q) => EndsStopped(q)'
         /\ WillStop(q) => WillStop(q)'
  <1>1. saving'[q] = saving[q] /\ waiting'[q] = waiting[q] /\ semaphore'[q] = semaphore[q]
    BY DEF Waits
  <1>2. More(q) => More(q)'
    BY MoreWaits
  <1>3. InTurn(q) => InTurn(q)'
    BY <1>1 DEF InTurn
  <1>4. EndsStopped(q) => EndsStopped(q)'
    BY <1>1, <1>2 DEF EndsStopped
  <1>5. WillStop(q) => WillStop(q)'
    BY <1>1, <1>2 DEF WillStop
  <1> QED
    BY <1>3, <1>4, <1>5

\* In turn, a semaphore that is in use has a save that holds it.
LEMMA TurnHeld ==
  ASSUME TypeInvariant, NEW p \in Processes, InTurn(p)
  PROVE  /\ \A k : InUse(p, k) => saving[p] # {}
         /\ saving[p] # {} => semaphore[p] # 0 /\ InUse(p, semaphore[p])
         /\ saving[p] = {} => \A k \in DOMAIN waiting[p] : waiting[p][k] = <<>>
  <1>1. /\ \A s \in saving[p] : s.sem \in DOMAIN waiting[p]
        /\ DOMAIN waiting[p] \subseteq Nat \ {0}
    BY DEF TypeInvariant
  <1> QED
    BY <1>1 DEF InTurn, InUse

\* After a request, the saves of the process are in turn; and if the request ends with
\* "stopped", so does what the process says.
LEMMA TurnAsks ==
  ASSUME TypeInvariant, NEW p \in Processes, InTurn(p), NEW states, Request(p, states)
  PROVE  /\ InTurn(p)'
         /\ states \in {<<"stopped">>, <<"running", "stopped">>} => EndsStopped(p)' /\ WillStop(p)'
  <1>1. PICK n \in Nat \ {0} : Adds(p, n, states)
    BY DEF Request
  <1>2. /\ semaphore'[p] = n
        /\ n = IF semaphore[p] = 0 THEN Len(waiting[p]) + 1 ELSE semaphore[p]
        /\ DOMAIN waiting'[p] = DOMAIN waiting[p] \cup {n}
        /\ \A k \in DOMAIN waiting[p] \ {n} : waiting'[p][k] = waiting[p][k]
        /\ \/ /\ InUse(p, n) /\ semaphore[p] = n /\ n \in DOMAIN waiting[p]
              /\ saving' = saving /\ waiting'[p][n] = waiting[p][n] \o states
           \/ /\ ~ InUse(p, n) /\ waiting'[p][n] = Tail(states)
              /\ saving'[p] = saving[p] \cup {Holding(n, Head(states))}
    BY <1>1, OneAdded
  <1>3. /\ \A k : InUse(p, k) => saving[p] # {}
        /\ saving[p] # {} => semaphore[p] # 0 /\ InUse(p, semaphore[p])
        /\ saving[p] = {} => \A k \in DOMAIN waiting[p] : waiting[p][k] = <<>>
    BY TurnHeld
  <1>4. CASE InUse(p, n)
    <2>1. /\ saving[p] # {} /\ saving'[p] = saving[p] /\ semaphore[p] = n
          /\ waiting'[p][n] = waiting[p][n] \o states /\ n \in DOMAIN waiting'[p]
      BY <1>2, <1>3, <1>4
    <2>2. \A k \in DOMAIN waiting'[p] : waiting'[p][k] # <<>> => k = n
      BY <1>2, <2>1 DEF InTurn
    <2>3. \A s \in saving'[p] : s.sem = n /\ saving'[p] = {s}
      BY <2>1 DEF InTurn
    <2>4. InTurn(p)'
      BY <1>2, <2>1, <2>2, <2>3 DEF InTurn
    <2>5. ASSUME states \in {<<"stopped">>, <<"running", "stopped">>}
          PROVE  waiting'[p][n] # <<>> /\ waiting'[p][n][Len(waiting'[p][n])] = "stopped"
      <3>1. PICK Q \in Seq(States) : Q = waiting[p][n]
        <4>1. waiting[p] \in Seq(Seq(States)) /\ n \in DOMAIN waiting[p]
          BY <1>2, <1>4 DEF TypeInvariant
        <4>2. waiting[p][n] \in Seq(States)
          BY <4>1
        <4> QED
          BY <4>2
      <3>2. /\ Q \o <<"stopped">> # <<>>
            /\ (Q \o <<"stopped">>)[Len(Q \o <<"stopped">>)] = "stopped"
        OBVIOUS
      <3>3. /\ Q \o <<"running", "stopped">> # <<>>
            /\ (Q \o <<"running", "stopped">>)[Len(Q \o <<"running", "stopped">>)] = "stopped"
        OBVIOUS
      <3> QED
        BY <2>1, <2>5, <3>1, <3>2, <3>3
    <2>6. ASSUME states \in {<<"stopped">>, <<"running", "stopped">>}
          PROVE  EndsStopped(p)' /\ WillStop(p)'
      BY <2>1, <2>2, <2>3, <2>5, <2>6 DEF EndsStopped, WillStop
    <2> QED
      BY <2>4, <2>6
  <1>5. CASE ~ InUse(p, n)
    <2>1. PICK h : h = Holding(n, Head(states))
      OBVIOUS
    <2>2. saving[p] = {} /\ saving'[p] = {h} /\ waiting'[p][n] = Tail(states)
      BY <1>2, <1>3, <1>5, <2>1
    <2>3. h.sem = n /\ h.state = Head(states) /\ h.at = "find"
      BY <2>1 DEF Holding
    <2>4. \A k \in DOMAIN waiting'[p] : waiting'[p][k] # <<>> => k = n
      BY <1>2, <1>3, <2>2
    <2>5. InTurn(p)'
      BY <1>2, <2>2, <2>3, <2>4 DEF InTurn
    <2>6. CASE states = <<"stopped">>
      <3>1. Head(states) = "stopped" /\ waiting'[p][n] = <<>>
        BY <2>2, <2>6
      <3> QED
        BY <2>2, <2>3, <2>4, <2>5, <3>1 DEF EndsStopped, WillStop
    <2>7. CASE states = <<"running", "stopped">>
      <3>1. PICK Q : Q = <<"stopped">>
        OBVIOUS
      <3>2. Tail(states) = Q /\ Q # <<>> /\ Q[Len(Q)] = "stopped"
        BY <2>7, <3>1
      <3>3. waiting'[p][n] = Q
        BY <2>2, <3>2
      <3> QED
        BY <2>2, <2>3, <2>4, <2>5, <3>2, <3>3 DEF EndsStopped, WillStop
    <2> QED
      BY <2>5, <2>6, <2>7
  <1> QED
    BY <1>4, <1>5

\* The semaphore of the one save is handed on in turn.
LEMMA TurnFreed ==
  ASSUME TypeInvariant, NEW p \in Processes, NEW s \in saving[p], InTurn(p), EndsStopped(p),
         Release(p, s), UNCHANGED <<run, events>>
  PROVE  /\ InTurn(p)' /\ EndsStopped(p)'
         /\ More(p) \/ waiting[p][s.sem] # <<>> => WillStop(p)'
  <1> DEFINE Q == waiting[p][s.sem]
  <1>1. /\ s.sem = semaphore[p] /\ saving[p] = {s}
        /\ \A k \in DOMAIN waiting[p] : waiting[p][k] # <<>> => k = s.sem
    BY DEF InTurn
  <1>2. /\ s.sem \in DOMAIN waiting[p] /\ Q \in Seq(States)
        /\ DOMAIN waiting'[p] = DOMAIN waiting[p] /\ semaphore' = semaphore
        /\ \A k \in DOMAIN waiting[p] \ {s.sem} : waiting'[p][k] = waiting[p][k]
    BY OneFreed
  <1>3. More(p) => More(p)'
    BY DEF More
  <1>4. CASE Q = <<>>
    <2>1. saving'[p] = {} /\ waiting'[p] = waiting[p]
      BY <1>1, <1>4, OneFreed
    <2>2. \A k \in DOMAIN waiting'[p] : waiting'[p][k] = <<>>
      BY <1>1, <1>4, <2>1
    <2>3. InTurn(p)' /\ EndsStopped(p)'
      BY <2>1, <2>2 DEF InTurn, EndsStopped
    <2>4. More(p) => WillStop(p)'
      BY <1>3 DEF WillStop
    <2> QED
      BY <1>4, <2>3, <2>4
  <1>5. CASE Q # <<>>
    <2>1. PICK h : h = Holding(s.sem, Head(Q))
      OBVIOUS
    <2>2. saving'[p] = {h} /\ waiting'[p][s.sem] = Tail(Q)
      BY <1>1, <1>5, <2>1, OneFreed
    <2>3. h.sem = s.sem /\ h.state = Head(Q) /\ h.at = "find"
      BY <2>1 DEF Holding
    <2>4. \A k \in DOMAIN waiting'[p] : waiting'[p][k] # <<>> => k = s.sem
      BY <1>1, <1>2
    <2>5. InTurn(p)'
      BY <1>1, <1>2, <2>2, <2>3, <2>4 DEF InTurn
    <2>6. PICK T : T = Tail(Q)
      OBVIOUS
    <2>7. /\ Head(Q) = Q[1]
          /\ T = <<>> => Q[1] = Q[Len(Q)]
          /\ T # <<>> => T[Len(T)] = Q[Len(Q)]
      BY <1>2, <1>5, <2>6, HeadTyped
    <2>8. CASE More(p)
      BY <1>3, <2>5, <2>8 DEF EndsStopped, WillStop
    <2>9. CASE ~ More(p)
      <3>1. Q[Len(Q)] = "stopped"
        BY <1>2, <1>5, <2>9 DEF EndsStopped
      <3>2. waiting'[p][s.sem] = T
        BY <2>2, <2>6
      <3> HIDE DEF Q
      <3> QED
        BY <2>2, <2>3, <2>4, <2>5, <2>7, <3>1, <3>2 DEF EndsStopped, WillStop
    <2> QED
      BY <2>8, <2>9
  <1> QED
    BY <1>4, <1>5

\* The one save goes on.
LEMMA TurnBecomes ==
  ASSUME TypeInvariant, NEW p \in Processes, NEW s \in saving[p], InTurn(p), EndsStopped(p),
         NEW t, Becomes(p, s, t), t.sem = s.sem, t.state = s.state,
         s.at = "failed" => t.at = "failed", UNCHANGED <<run, events>>
  PROVE  /\ InTurn(p)' /\ EndsStopped(p)' /\ saving'[p] = {t} /\ waiting' = waiting
         /\ More(p) \/ waiting[p][s.sem] # <<>> => WillStop(p)'
  <1>1. s.sem = semaphore[p] /\ saving[p] = {s}
    BY DEF InTurn
  <1>2. saving'[p] = {t} /\ UNCHANGED <<semaphore, waiting>>
    BY <1>1, OneBecomes
  <1>3. InTurn(p)'
    BY <1>1, <1>2 DEF InTurn
  <1>4. More(p) => More(p)'
    BY DEF More
  <1>5. EndsStopped(p)'
    BY <1>1, <1>2, <1>4 DEF EndsStopped
  <1>6. ASSUME waiting[p][s.sem] # <<>>, ~ More(p) PROVE WillStop(p)'
    <2>1. s.sem \in DOMAIN waiting[p]
      BY DEF TypeInvariant
    <2>2. waiting[p][s.sem][Len(waiting[p][s.sem])] = "stopped"
      BY <1>6, <2>1 DEF EndsStopped
    <2> QED
      BY <1>2, <1>6, <2>2 DEF WillStop
  <1>7. More(p) => WillStop(p)'
    BY <1>4 DEF WillStop
  <1> QED
    BY <1>2, <1>3, <1>5, <1>6, <1>7

\* A step that keeps the rows, with which the saves stay in turn.
LEMMA StopStays ==
  ASSUME StopInv, UNCHANGED rows, disturbed \subseteq disturbed', EventsInOrder',
         \A q \in Processes \ disturbed' : InTurn(q)' /\ EndsStopped(q)',
         disturbed' = {} => \A q \in Processes : WillStop(q) => WillStop(q)'
  PROVE  StopInv'
  <1>1. FirstsStopped => FirstsStopped'
    BY DEF FirstsStopped, IsFirst
  <1>2. disturbed' = {} => FirstsStopped' \/ \E q \in Processes : WillStop(q)'
    BY <1>1 DEF StopInv
  <1> QED
    BY <1>2 DEF StopInv

LEMMA RunnerStop ==
  ASSUME TypeInvariant, FirstSaves, StopInv, EventsInOrder', NEW w \in Workers, Runs(w), NEW states,
         Silent(w) \/ (AsksFor(w, states) /\ Request(w, states))
  PROVE  StopInv'
  <1>1. w \in Processes /\ rows' = rows
    BY DEF Processes, Runs
  <1>2. disturbed' = disturbed
    BY OneAdded DEF Silent, lockVars, Request, Adds
  <1>3. ASSUME NEW q \in Processes, q # w \/ Silent(w) PROVE Waits(q)
    <2>1. CASE Silent(w)
      <3>1. UNCHANGED <<saving, waiting, timers, semaphore>>
        BY <2>1 DEF Silent, lockVars
      <3> QED
        BY <2>1, <3>1, RunsWaits
    <2>2. CASE q # w /\ Request(w, states)
      BY <1>1, <2>2, RequestFirst, RunsWaits
    <2> QED
      BY <1>3, <2>1, <2>2
  <1>4. ASSUME ~ Silent(w), w \notin disturbed PROVE InTurn(w)' /\ EndsStopped(w)' /\ WillStop(w)'
    <2>1. InTurn(w) /\ Request(w, states) /\ AsksFor(w, states)
      BY <1>1, <1>4 DEF StopInv
    <2>2. /\ InTurn(w)'
          /\ states \in {<<"stopped">>, <<"running", "stopped">>} => EndsStopped(w)' /\ WillStop(w)'
      BY <1>1, <2>1, TurnAsks
    <2>3. CASE run'[w] = "running"
      <3>1. More(w)'
        BY <2>3 DEF More
      <3> QED
        BY <2>2, <3>1 DEF EndsStopped, WillStop
    <2>4. CASE states = <<"running", "stopped">>
      BY <2>2, <2>4
    <2> QED
      BY <2>1, <2>3, <2>4 DEF AsksFor
  <1>5. ASSUME NEW q \in Processes \ disturbed'
        PROVE  InTurn(q)' /\ EndsStopped(q)' /\ (WillStop(q) => WillStop(q)')
    <2>1. InTurn(q) /\ EndsStopped(q) /\ q \notin disturbed
      BY <1>2, <1>5 DEF StopInv
    <2>2. CASE q = w /\ ~ Silent(w)
      BY <1>4, <2>1, <2>2
    <2>3. CASE q # w \/ Silent(w)
      <3>1. Waits(q)
        BY <1>3, <2>3
      <3> QED
        BY <2>1, <3>1, TurnWaits
    <2> QED
      BY <2>2, <2>3
  <1> QED
    BY <1>1, <1>2, <1>5, StopStays

LEMMA MonitorStop ==
  ASSUME TypeInvariant, FirstSaves, StopInv, EventsInOrder', NEW m \in Monitors, NEW w \in Workers,
         Takes(m, w), Request(m, <<Head(events[m][w])>>)
  PROVE  StopInv'
  <1>1. m \in Processes /\ rows' = rows
    BY DEF Processes, Takes
  <1>2. PICK states : states = <<Head(events[m][w])>>
    OBVIOUS
  <1>3. Request(m, states)
    BY <1>2
  <1>4. disturbed' = disturbed
    BY <1>3 DEF Request, Adds
  <1>5. ASSUME m \notin disturbed PROVE InTurn(m)' /\ EndsStopped(m)' /\ WillStop(m)'
    <2>1. InTurn(m)
      BY <1>1, <1>5 DEF StopInv
    <2>2. /\ InTurn(m)'
          /\ states \in {<<"stopped">>, <<"running", "stopped">>} => EndsStopped(m)' /\ WillStop(m)'
      BY <1>1, <1>3, <2>1, TurnAsks
    <2>3. CASE Head(events[m][w]) = "stopped"
      BY <1>2, <2>2, <2>3
    <2>4. CASE Head(events[m][w]) # "stopped"
      <3>1. /\ events[m][w] \in Seq(States) /\ events[m][w] # <<>>
            /\ events'[m][w] = Tail(events[m][w]) /\ w # m /\ run' = run
        BY DEF Takes
      <3>2. PICK Q \in Seq(States) : Q = events[m][w]
        BY <3>1
      <3>3. Head(Q) = Q[1] /\ (Tail(Q) = <<>> => Q[1] = Q[Len(Q)])
        BY <3>1, <3>2, HeadTyped
      <3>4. run[w] = "over" => Q[Len(Q)] = "stopped"
        BY <3>1, <3>2 DEF StopInv, EventsInOrder
      <3>5. run'[w] # "over" \/ events'[m][w] # <<>>
        BY <2>4, <3>1, <3>2, <3>3, <3>4
      <3>6. More(m)'
        BY <3>1, <3>5 DEF More
      <3> QED
        BY <2>2, <3>6 DEF EndsStopped, WillStop
    <2> QED
      BY <2>3, <2>4
  <1>6. ASSUME NEW q \in Processes \ disturbed'
        PROVE  InTurn(q)' /\ EndsStopped(q)' /\ (WillStop(q) => WillStop(q)')
    <2>1. InTurn(q) /\ EndsStopped(q) /\ q \notin disturbed
      BY <1>4, <1>6 DEF StopInv
    <2>2. CASE q = m
      BY <1>5, <2>1, <2>2
    <2>3. CASE q # m
      <3>1. /\ saving'[q] = saving[q] /\ waiting'[q] = waiting[q]
            /\ timers'[q] = timers[q] /\ semaphore'[q] = semaphore[q]
        BY <1>1, <1>3, <2>3, RequestFirst
      <3>2. Waits(q)
        BY <2>3, <3>1, TakesWaits
      <3> QED
        BY <2>1, <3>2, TurnWaits
    <2> QED
      BY <2>2, <2>3
  <1> QED
    BY <1>1, <1>4, <1>6, StopStays

LEMMA CleanupStop ==
  ASSUME TypeInvariant, StopInv, EventsInOrder', NEW p \in Processes, Cleanup(p), Cleans(p)
  PROVE  StopInv'
  <1>1. UNCHANGED <<run, events, rows, saving>>
    BY DEF Cleanup
  <1>2. /\ \A q \in Processes \ {p} :
             /\ saving'[q] = saving[q] /\ waiting'[q] = waiting[q]
             /\ timers'[q] = timers[q] /\ semaphore'[q] = semaphore[q]
        /\ DOMAIN waiting'[p] = DOMAIN waiting[p]
        /\ \A k \in DOMAIN waiting[p] : waiting[p][k] = <<>> => waiting'[p][k] = <<>>
        /\ semaphore'[p] = 0
    BY <1>1 DEF Cleans, TypeInvariant
  <1>3. /\ disturbed \subseteq disturbed'
        /\ p \notin disturbed' => ~ InUse(p, semaphore[p])
    BY DEF Cleans
  <1>4. ASSUME NEW q \in Processes \ disturbed'
        PROVE  InTurn(q)' /\ EndsStopped(q)' /\ (WillStop(q) => WillStop(q)')
    <2>1. InTurn(q) /\ EndsStopped(q)
      BY <1>3, <1>4 DEF StopInv
    <2>2. CASE q = p
      <3>1. saving[p] = {} /\ \A k \in DOMAIN waiting[p] : waiting[p][k] = <<>>
        BY <1>3, <1>4, <2>1, <2>2, TurnHeld
      <3>2. saving'[p] = {} /\ \A k \in DOMAIN waiting'[p] : waiting'[p][k] = <<>>
        BY <1>1, <1>2, <3>1
      <3>3. More(p) => More(p)'
        BY <1>1 DEF More
      <3> QED
        BY <2>2, <3>1, <3>2, <3>3 DEF InTurn, EndsStopped, WillStop
    <2>3. CASE q # p
      <3>1. Waits(q)
        BY <1>1, <1>2, <2>3, StillWaits
      <3> QED
        BY <2>1, <3>1, TurnWaits
    <2> QED
      BY <2>2, <2>3
  <1> QED
    BY <1>1, <1>3, <1>4, StopStays

\* What the steps of a save make of it.
LEMMA SavingKinds ==
  ASSUME TypeInvariant, NEW p \in Processes, NEW s \in saving[p],
         Find(p, s) \/ Store(p, s) \/ Discard(p, s) \/ Fail(p, s)
  PROVE  \/ Release(p, s)
         \/ \E t : Becomes(p, s, t) /\ t.sem = s.sem /\ t.state = s.state /\ s.at # "failed"
  <1>1. s \in Holder
    BY FoundTypes
  <1>2. CASE Find(p, s)
    <2>1. PICK t : t = [s EXCEPT !.at = "save", !.found = rows]
      OBVIOUS
    <2>2. Becomes(p, s, t) /\ t.sem = s.sem /\ t.state = s.state /\ s.at # "failed"
      BY <1>1, <1>2, <2>1 DEF Find, Holder
    <2> QED
      BY <2>2
  <1>3. CASE Fail(p, s)
    <2>1. PICK t : t = [s EXCEPT !.at = "failed"]
      OBVIOUS
    <2>2. Becomes(p, s, t) /\ t.sem = s.sem /\ t.state = s.state /\ s.at # "failed"
      BY <1>1, <1>3, <2>1 DEF Fail, Holder
    <2> QED
      BY <2>2
  <1>4. CASE Store(p, s) /\ ToRemove(s) # {}
    <2>1. PICK t : t = [s EXCEPT !.at = "remove"]
      OBVIOUS
    <2>2. Becomes(p, s, t) /\ t.sem = s.sem /\ t.state = s.state /\ s.at # "failed"
      BY <1>1, <1>4, <2>1 DEF Store, Holder
    <2> QED
      BY <2>2
  <1>5. CASE Store(p, s) /\ ToRemove(s) = {}
    BY <1>5 DEF Store
  <1>6. CASE Discard(p, s)
    BY <1>6 DEF Discard
  <1> QED
    BY <1>2, <1>3, <1>4, <1>5, <1>6

LEMMA SavingTurns ==
  ASSUME TypeInvariant, NEW p \in Processes, NEW s \in saving[p], InTurn(p), EndsStopped(p),
         Find(p, s) \/ Store(p, s) \/ Discard(p, s) \/ Fail(p, s)
  PROVE  /\ InTurn(p)' /\ EndsStopped(p)'
         /\ More(p) \/ waiting[p][s.sem] # <<>> => WillStop(p)'
  <1>1. UNCHANGED <<run, events>>
    BY SavingWaits
  <1>2. CASE Release(p, s)
    BY <1>1, <1>2, TurnFreed
  <1>3. ASSUME NEW t, Becomes(p, s, t), t.sem = s.sem, t.state = s.state, s.at # "failed"
        PROVE  /\ InTurn(p)' /\ EndsStopped(p)'
               /\ More(p) \/ waiting[p][s.sem] # <<>> => WillStop(p)'
    BY <1>1, <1>3, TurnBecomes
  <1> QED
    BY <1>2, <1>3, SavingKinds

\* Whoever saves, the first rows say in the end that the run has stopped.
LEMMA SavingSays ==
  ASSUME TypeInvariant, RowsKept, FoundKept, FirstSaves, NEW p \in Processes, NEW s \in saving[p],
         InTurn(p), EndsStopped(p), Find(p, s) \/ Store(p, s) \/ Discard(p, s) \/ Fail(p, s)
  PROVE  /\ FirstsStopped => FirstsStopped' \/ WillStop(p)'
         /\ WillStop(p) => FirstsStopped' \/ WillStop(p)'
  <1>1. More(p) \/ waiting[p][s.sem] # <<>> => WillStop(p)'
    BY SavingTurns
  <1>2. saving[p] = {s} /\ s.sem \in DOMAIN waiting[p]
    BY DEF InTurn, TypeInvariant
  <1>3. s.at # "failed"
    BY DEF Find, Store, Discard, Fail
  <1>4. s.state = "stopped" \/ More(p) \/ waiting[p][s.sem] # <<>>
    BY <1>3 DEF EndsStopped
  <1>5. ASSUME WillStop(p), ~ More(p), waiting[p][s.sem] = <<>>
        PROVE  s.state = "stopped" /\ (s.at = "find" \/ (s.at = "save" /\ s.found # {}))
    BY <1>2, <1>3, <1>5 DEF WillStop
  <1>6. CASE Find(p, s)
    <2>1. FirstsStopped => FirstsStopped'
      BY <1>6 DEF Find, FirstsStopped, IsFirst
    <2>2. ASSUME s.state = "stopped" PROVE FirstsStopped' \/ WillStop(p)'
      <3>1. PICK t : t = [s EXCEPT !.at = "save", !.found = rows]
        OBVIOUS
      <3>2. s \in Holder
        BY FoundTypes
      <3>3. Becomes(p, s, t) /\ t.state = s.state /\ t.at = "save" /\ t.found = rows
        BY <1>6, <3>1, <3>2 DEF Find, Holder
      <3>4. t \in saving'[p]
        BY <3>3, OneBecomes
      <3>5. rows # {} => WillStop(p)'
        BY <2>2, <3>3, <3>4 DEF WillStop
      <3>6. rows = {} => FirstsStopped'
        BY <1>6 DEF Find, FirstsStopped
      <3> QED
        BY <3>5, <3>6
    <2> QED
      BY <1>1, <1>5, <2>1, <2>2
  <1>7. CASE Fail(p, s)
    <2>1. PICK t : t = [s EXCEPT !.at = "failed"]
      OBVIOUS
    <2>2. s \in Holder
      BY FoundTypes
    <2>3. Becomes(p, s, t) /\ t.at = "failed"
      BY <1>7, <2>1, <2>2 DEF Fail, Holder
    <2>4. t \in saving'[p]
      BY <2>3, OneBecomes
    <2> QED
      BY <2>3, <2>4 DEF WillStop
  <1>8. CASE Store(p, s)
    <2>1. CASE More(p) \/ waiting[p][s.sem] # <<>>
      BY <1>1, <2>1
    <2>2. CASE s.state = "stopped"
      <3>1. s.found # {}
        BY <1>8, <2>2 DEF FirstSaves, Blank, AtFirstSave, Store
      <3>2. \A r \in rows' : IsFirst(rows', r.target, r.row) => r.state = s.state
        BY <1>8, <3>1, StoreWrites
      <3>3. FirstsStopped'
        BY <2>2, <3>2 DEF FirstsStopped
      <3> QED
        BY <3>3
    <2> QED
      BY <1>4, <2>1, <2>2
  <1>9. CASE Discard(p, s)
    <2>1. Carried /\ rows # {} /\ rows' \subseteq rows
      BY <1>9, DiscardCarried
    <2>2. FirstsStopped => FirstsStopped'
      <3> SUFFICES ASSUME FirstsStopped, NEW r \in rows', IsFirst(rows', r.target, r.row)
                   PROVE  r.state = "stopped"
        BY DEF FirstsStopped
      <3>1. r \in rows /\ r.row \in Nat /\ r.target \in Workers
        BY <2>1 DEF TypeInvariant, Row
      <3>2. IsFirst(rows, r.target, r.row)
        BY <2>1, <3>1 DEF Carried
      <3> QED
        BY <3>1, <3>2 DEF FirstsStopped
    <2>3. s.at = "remove"
      BY <1>9 DEF Discard
    <2>4. WillStop(p) => WillStop(p)'
      BY <1>1, <1>5, <2>3
    <2> QED
      BY <2>2, <2>4
  <1> QED
    BY <1>6, <1>7, <1>8, <1>9

LEMMA SavingStop ==
  ASSUME TypeInvariant, RowsKept, FoundKept, FirstSaves, StopInv, EventsInOrder',
         NEW p \in Processes, NEW s \in saving[p],
         Find(p, s) \/ Store(p, s) \/ Discard(p, s) \/ Fail(p, s)
  PROVE  StopInv'
  <1>1. \A q \in Processes \ {p} : Waits(q)
    BY SavingWaits
  <1>2. disturbed' = disturbed
    BY SavingKinds, OneFreed DEF Becomes, Frees
  <1>3. ASSUME NEW q \in Processes \ disturbed' PROVE InTurn(q)' /\ EndsStopped(q)'
    <2>1. InTurn(q) /\ EndsStopped(q)
      BY <1>2, <1>3 DEF StopInv
    <2>2. CASE q = p
      BY <2>1, <2>2, SavingTurns
    <2>3. CASE q # p
      BY <1>1, <2>1, <2>3, TurnWaits
    <2> QED
      BY <2>2, <2>3
  <1>4. ASSUME disturbed' = {} PROVE FirstsStopped' \/ \E q \in Processes : WillStop(q)'
    <2>1. /\ InTurn(p) /\ EndsStopped(p)
          /\ FirstsStopped \/ \E q \in Processes : WillStop(q)
      BY <1>2, <1>4 DEF StopInv
    <2>2. /\ FirstsStopped => FirstsStopped' \/ WillStop(p)'
          /\ WillStop(p) => FirstsStopped' \/ WillStop(p)'
      BY <2>1, SavingSays
    <2>3. \A q \in Processes \ {p} : WillStop(q) => WillStop(q)'
      BY <1>1, TurnWaits
    <2> QED
      BY <2>1, <2>2, <2>3
  <1> QED
    BY <1>3, <1>4 DEF StopInv

-----------------------------------------------------------------------------
\* The invariant of what the rows say

LEMMA StopInit ==
  ASSUME Init
  PROVE  StopInv
  <1>1. EventsInOrder
    BY DEF Init, EventsInOrder
  <1>2. \A p \in Processes : InTurn(p) /\ EndsStopped(p)
    BY DEF Init, InTurn, EndsStopped
  <1>3. FirstsStopped
    BY DEF Init, FirstsStopped
  <1> QED
    BY <1>1, <1>2, <1>3 DEF StopInv

LEMMA StopNext ==
  ASSUME LogInv, StopInv, Step
  PROVE  StopInv'
  <1>1. TypeInvariant /\ RowsKept /\ FoundKept /\ FirstSaves
    BY DEF LogInv
  <1>2. EventsInOrder'
    BY <1>1, EventsKept DEF StopInv
  <1>3. ASSUME NEW w \in Workers, NEW states, Runs(w),
               Silent(w) \/ (AsksFor(w, states) /\ Request(w, states))
        PROVE  StopInv'
    BY <1>1, <1>2, <1>3, RunnerStop
  <1>4. ASSUME NEW m \in Monitors, NEW w \in Workers, Takes(m, w),
               Request(m, <<Head(events[m][w])>>)
        PROVE  StopInv'
    BY <1>1, <1>2, <1>4, MonitorStop
  <1>5. ASSUME NEW p \in Processes, NEW s \in saving[p],
               Find(p, s) \/ Store(p, s) \/ Discard(p, s) \/ Fail(p, s)
        PROVE  StopInv'
    BY <1>1, <1>2, <1>5, SavingStop
  <1>6. ASSUME NEW p \in Processes, Cleanup(p), Cleans(p) PROVE StopInv'
    BY <1>1, <1>2, <1>6, CleanupStop
  <1> QED
    BY <1>3, <1>4, <1>5, <1>6 DEF Step

LEMMA StopStutter ==
  ASSUME StopInv, UNCHANGED vars
  PROVE  StopInv'
  <1>1. UNCHANGED <<run, events, semaphore, saving, waiting, disturbed, rows>>
    BY DEF vars, lockVars
  <1>2. EventsInOrder' /\ \A q \in Processes : More(q) <=> More(q)'
    BY <1>1 DEF StopInv, EventsInOrder, More
  <1>3. \A q \in Processes : /\ InTurn(q) => InTurn(q)'
                             /\ EndsStopped(q) => EndsStopped(q)'
                             /\ WillStop(q) => WillStop(q)'
    BY <1>1, <1>2 DEF InTurn, EndsStopped, WillStop
  <1>4. \A q \in Processes \ disturbed' : InTurn(q)' /\ EndsStopped(q)'
    BY <1>1, <1>3 DEF StopInv
  <1> QED
    BY <1>1, <1>2, <1>3, <1>4, StopStays

\* Unless a clean-up has met a semaphore in use, each process saves in turn and has last
\* asked to save "stopped" or has more to come; so that the first rows say "stopped" or
\* some process is going to write it.
THEOREM StopInvariant == Spec => []StopInv
  <1>1. Init => StopInv
    BY StopInit
  <1>2. CASE Workers = {}
    <2>1. Init /\ [Next]_vars => Init'
      <3> SUFFICES ASSUME Init, [Next]_vars PROVE Init'
        OBVIOUS
      <3>1. ~ Next
        BY <1>2 DEF Init, Next, Saving, Cleanup
      <3> QED
        BY <3>1 DEF Init, vars, lockVars
    <2> QED
      BY <1>1, <2>1, PTL DEF Spec
  <1>3. CASE Workers # {}
    <2>1. LogInv /\ StopInv /\ [Next]_vars => StopInv'
      BY <1>3, LogNext, StopNext, StopStutter
    <2> QED
      BY <1>1, <2>1, LogInvariant, PTL DEF Spec
  <1> QED
    BY <1>2, <1>3

\* The last word on a run, whichever process writes it last, is that it has stopped,
\* unless a clean-up has taken a semaphore from under a save (the timer in save()).
THEOREM SaysStopped == Spec => []LogSaysStopped
  <1>1. LogInv /\ StopInv => LogSaysStopped
    <2> SUFFICES ASSUME LogInv, StopInv, Quiet, disturbed = {}, NEW r \in rows
                 PROVE  r.state = "stopped"
      BY DEF LogSaysStopped
    <2>1. \A p \in Processes : ~ WillStop(p) /\ ~ WillRemove(p, r.row)
      BY DEF WillStop, WillRemove, Quiet, More
    <2>2. FirstsStopped
      BY <2>1 DEF StopInv
    <2>3. IsFirst(rows, r.target, r.row)
      BY <2>1 DEF LogInv, ExtrasGo
    <2> QED
      BY <2>2, <2>3 DEF FirstsStopped
  <1> QED
    BY <1>1, LogInvariant, StopInvariant, PTL

-----------------------------------------------------------------------------
\* The ledger

LEMMA FirstNumber ==
  ASSUME NEW R, \A r \in R : r.row \in Nat, NEW w, NEW n \in Nat, IsFirst(R, w, n),
         NEW N, N = {r.row : r \in {q \in R : q.target = w}}
  PROVE  N # {} /\ Min(N) = n
  <1>1. n \in N /\ N \subseteq Nat /\ \A k \in N : n <= k
    BY DEF IsFirst
  <1>2. Min(N) \in N /\ \A k \in N : Min(N) <= k
    BY <1>1 DEF Min
  <1>3. Min(N) \in Nat /\ Min(N) <= n /\ n <= Min(N)
    BY <1>1, <1>2
  <1> QED
    BY <1>1, <1>3

\* The entry of a target is its first row.
LEMMA EntryNow ==
  ASSUME TypeInvariant, NEW w \in Workers, NEW n \in Nat, IsFirst(rows, w, n)
  PROVE  Entry[w] = n /\ n \in 1 .. rowNr
  <1>1. \A r \in rows : r.row \in Nat /\ r.row \in 1 .. rowNr
    BY DEF TypeInvariant, Row
  <1>2. NumbersOf(w) # {} /\ Min(NumbersOf(w)) = n
    BY <1>1, FirstNumber DEF NumbersOf
  <1>3. n \in 1 .. rowNr
    BY <1>1 DEF IsFirst
  <1> QED
    BY <1>2, <1>3 DEF Entry

LEMMA EntryNext ==
  ASSUME TypeInvariant', NEW w \in Workers, NEW n \in Nat, IsFirst(rows', w, n)
  PROVE  Entry'[w] = n
  <1>1. \A r \in rows' : r.row \in Nat
    BY DEF TypeInvariant, Row
  <1>2. (NumbersOf(w) # {})' /\ Min(NumbersOf(w)') = n
    BY <1>1, FirstNumber DEF NumbersOf
  <1> QED
    BY <1>2 DEF Entry

LEMMA EntryNone ==
  ASSUME rows = {}
  PROVE  \A w \in Workers : Entry[w] = 0
  BY DEF Entry, NumbersOf

\* Whatever is done to the rows, the first ones stay.
LEMMA EntryStays ==
  ASSUME TypeInvariant, TypeInvariant', RowsKept, rows # {}, Carried
  PROVE  /\ Entry' = Entry
         /\ \A w \in Workers : /\ Entry[w] \in 1 .. rowNr /\ Entry[w] # 0
                               /\ IsFirst(rows, w, Entry[w]) /\ IsFirst(rows', w, Entry[w])
  <1>1. ASSUME NEW w \in Workers
        PROVE  /\ Entry'[w] = Entry[w] /\ Entry[w] \in 1 .. rowNr /\ Entry[w] # 0
               /\ IsFirst(rows, w, Entry[w]) /\ IsFirst(rows', w, Entry[w])
    <2>1. PICK n \in Nat : IsFirst(rows, w, n)
      BY DEF RowsKept
    <2>2. IsFirst(rows', w, n)
      BY <2>1 DEF Carried
    <2>3. Entry[w] = n /\ n \in 1 .. rowNr /\ Entry'[w] = n
      BY <2>1, <2>2, EntryNow, EntryNext
    <2>4. n # 0
      BY <2>3
    <2> QED
      BY <2>1, <2>2, <2>3, <2>4
  <1>2. Entry = [w \in Workers |-> Entry[w]] /\ Entry' = [w \in Workers |-> Entry'[w]]
    BY DEF Entry
  <1>3. Entry' = Entry
    BY <1>1, <1>2
  <1> QED
    BY <1>1, <1>3

\* What is closed is in order.
InOrder ==
  Quiet => /\ Spare = {} /\ \A w \in Workers : Entry[w] # 0
           /\ disturbed # {} \/ Unfinished = {}

LEMMA QuietInOrder ==
  ASSUME LogInv, LogSaysStopped, Workers # {}
  PROVE  InOrder
  <1> SUFFICES ASSUME Quiet
               PROVE  /\ Spare = {} /\ \A w \in Workers : Entry[w] # 0
                      /\ disturbed # {} \/ Unfinished = {}
    BY DEF InOrder
  <1>1. TypeInvariant /\ RowsKept /\ rows # {} /\ \A r \in rows : IsFirst(rows, r.target, r.row)
    BY QuietFirsts DEF LogInv
  <1>2. \A r \in rows : r.row \in Nat /\ r.target \in Workers
    BY <1>1 DEF TypeInvariant, Row
  <1>3. \A r \in rows : r.row = Entry[r.target]
    BY <1>1, <1>2, EntryNow
  <1>4. Spare = {}
    BY <1>3 DEF Spare
  <1>5. ASSUME NEW w \in Workers PROVE Entry[w] # 0
    <2>1. PICK n \in Nat : IsFirst(rows, w, n)
      BY <1>1 DEF RowsKept
    <2>2. Entry[w] = n /\ n \in 1 .. rowNr
      BY <1>1, <2>1, EntryNow
    <2> QED
      BY <2>2
  <1>6. disturbed # {} \/ Unfinished = {}
    BY DEF LogSaysStopped, Unfinished
  <1> QED
    BY <1>4, <1>5, <1>6

\* Nothing that is over begins again, and nothing is written then.
LEMMA QuietStays ==
  ASSUME TypeInvariant, Quiet, Next
  PROVE  Quiet' /\ UNCHANGED <<rows, rowNr>>
  <1>1. \A w \in Workers : ~ (Started(w) \/ Begin(w) \/ Update(w) \/ Stop(w) \/ Over(w))
    BY DEF Quiet, Started, Begin, Update, Stop, Over, GoesTo
  <1>2. \A m \in Monitors, w \in Workers : ~ Monitor(m, w)
    BY DEF Quiet, Monitor
  <1>3. \A p \in Processes : ~ Saving(p) /\ ~ \E s \in saving[p] : Fail(p, s)
    BY DEF Quiet, Saving
  <1>4. PICK p \in Processes : Cleanup(p)
    BY <1>1, <1>2, <1>3 DEF Next
  <1>5. UNCHANGED <<run, events, saving, rows, rowNr>>
    BY <1>4 DEF Cleanup
  <1>6. \A q \in Processes : \A k \in DOMAIN waiting'[q] : waiting'[q][k] = <<>>
    <2>1. CASE UNCHANGED waiting
      BY <2>1 DEF Quiet
    <2>2. ASSUME NEW n, waiting' = [waiting EXCEPT ![p][n] = <<>>]
          PROVE  \A q \in Processes : \A k \in DOMAIN waiting'[q] : waiting'[q][k] = <<>>
      BY <2>2 DEF Quiet, TypeInvariant
    <2> QED
      BY <1>4, <2>1, <2>2 DEF Cleanup
  <1> QED
    BY <1>5, <1>6 DEF Quiet

\* What has been disturbed stays so.
LEMMA DisturbedGrows ==
  ASSUME Next
  PROVE  disturbed \subseteq disturbed'
  <1>1. ASSUME NEW w \in Workers, Started(w) \/ Begin(w) \/ Update(w) \/ Stop(w) \/ Over(w)
        PROVE  UNCHANGED disturbed
    BY <1>1 DEF Started, Begin, Update, Stop, Over, Save, lockVars
  <1>2. ASSUME NEW m \in Monitors, NEW w \in Workers, Monitor(m, w) PROVE UNCHANGED disturbed
    BY <1>2 DEF Monitor, Save
  <1>3. ASSUME NEW p \in Processes, NEW s \in saving[p],
               Find(p, s) \/ Store(p, s) \/ Discard(p, s) \/ Fail(p, s)
        PROVE  UNCHANGED disturbed
    BY <1>3 DEF Find, Store, Discard, Fail, Becomes, Release
  <1>4. ASSUME NEW p \in Processes, Cleanup(p) PROVE disturbed \subseteq disturbed'
    BY <1>4 DEF Cleanup
  <1> QED
    BY <1>1, <1>2, <1>3, <1>4 DEF Next, Saving

\* The first save of all opens the ledger.
LEMMA OpenMaps ==
  ASSUME LogInv, TypeInvariant', NEW p \in Processes, NEW s \in saving[p], Store(p, s),
         s.found = {}, rows = {}
  PROVE  Book!Open
  <1>1. TypeInvariant /\ RowsKept /\ FirstSaves
    BY DEF LogInv
  <1>2. /\ rowNr' \in Nat /\ rowNr <= rowNr' /\ rows' = NewRows(s)
        /\ \A r \in NewRows(s) : r.row \in rowNr + 1 .. rowNr' /\ r.target \in Workers
        /\ \A w \in Workers : \E r \in NewRows(s) : r.target = w
        /\ \A r \in NewRows(s) : r = [row |-> r.row, target |-> r.target, state |-> s.state]
    BY <1>1, StoreMakes
  <1>3. \A r \in rows' : IsFirst(rows', r.target, r.row)
    BY <1>1, MakeCarried
  <1>4. \A r \in rows' : r.row \in Nat /\ r.row \in rowNr + 1 .. rowNr' /\ r.target \in Workers
    BY <1>2 DEF TypeInvariant, Row
  <1>5. \A r \in rows' : r.row = Entry'[r.target]
    BY <1>3, <1>4, EntryNext
  <1>6. s.state = "started"
    BY <1>1 DEF FirstSaves, Blank, AtFirstSave
  <1>7. \A r \in rows' : r.state # "stopped"
    <2> SUFFICES ASSUME NEW r \in rows' PROVE r.state = s.state
      BY <1>6
    <2> HIDE DEF NewRows
    <2> QED
      BY <1>2
  <1>8. \A w \in Workers : \E r \in rows' : r.target = w
    BY <1>2
  <1>9. Entry' \in [Workers -> rowNr + 1 .. rowNr']
    <2>1. \A w \in Workers : Entry'[w] \in rowNr + 1 .. rowNr'
      BY <1>4, <1>5, <1>8
    <2>2. Entry' = [w \in Workers |-> Entry'[w]]
      BY DEF Entry
    <2> QED
      BY <2>1, <2>2
  <1>10. Unfinished' = Workers
    <2>1. \A r \in rows' : r.target \in Unfinished'
      BY <1>5, <1>7 DEF Unfinished
    <2>2. \A w \in Unfinished' : w \in Workers
      BY <1>4 DEF Unfinished
    <2> QED
      BY <1>8, <2>1, <2>2
  <1>11. Spare = {} /\ Spare' = {}
    BY <1>5 DEF Spare
  <1>12. \A w \in Workers : Entry[w] = 0
    BY EntryNone
  <1> QED
    BY <1>1, <1>2, <1>9, <1>10, <1>11, <1>12 DEF Book!Open, Book!New, TypeInvariant

\* A save that makes rows beside the first ones.
LEMMA RepeatMaps ==
  ASSUME LogInv, TypeInvariant', NEW p \in Processes, NEW s \in saving[p], Store(p, s),
         s.found = {}, rows # {}
  PROVE  Book!Repeat
  <1>1. TypeInvariant /\ RowsKept
    BY DEF LogInv
  <1>2. /\ rowNr' \in Nat /\ rowNr <= rowNr' /\ rows' = rows \cup NewRows(s)
        /\ \A r \in NewRows(s) : r.row \in rowNr + 1 .. rowNr' /\ r.target \in Workers
    BY <1>1, StoreMakes
  <1>3. Carried
    BY <1>1, MakeCarried
  <1>4. Entry' = Entry /\ \A w \in Workers : Entry[w] \in 1 .. rowNr /\ Entry[w] # 0
    BY <1>1, <1>3, EntryStays
  <1>5. \A r \in NewRows(s) : r.row # Entry[r.target]
    <2>1. rowNr \in Nat
      BY <1>1 DEF TypeInvariant
    <2>2. \A k \in rowNr + 1 .. rowNr' : \A n \in 1 .. rowNr : k # n
      BY <1>2, <2>1
    <2> QED
      BY <1>2, <1>4, <2>2
  <1>6. UNCHANGED Unfinished
    BY <1>2, <1>4, <1>5 DEF Unfinished
  <1> DEFINE some == {r.row : r \in NewRows(s)}
  <1>7. some \in SUBSET (rowNr + 1 .. rowNr')
    BY <1>2
  <1>8. Spare' = Spare \cup some
    BY <1>2, <1>4, <1>5 DEF Spare
  <1>9. rowNr' >= rowNr
    BY <1>1, <1>2 DEF TypeInvariant
  <1> HIDE DEF some
  <1> QED
    BY <1>4, <1>6, <1>7, <1>8, <1>9 DEF Book!Repeat, Book!New

\* A save that has found rows writes the first ones.
LEMMA WriteMaps ==
  ASSUME LogInv, TypeInvariant', NEW p \in Processes, NEW s \in saving[p], Store(p, s),
         s.found # {}
  PROVE  Book!Write
  <1>1. TypeInvariant /\ RowsKept /\ FoundKept /\ rows # {}
    BY DEF LogInv, FoundKept, FoundFits
  <1>2. /\ rowNr' = rowNr /\ SameRows(rows, rows')
        /\ \A r \in rows' : IsFirst(rows', r.target, r.row) => r.state = s.state
    BY <1>1, StoreWrites
  <1>3. Carried
    BY <1>1, WriteCarried
  <1>4. /\ Entry' = Entry /\ \A w \in Workers : Entry[w] # 0
        /\ \A w \in Workers : IsFirst(rows', w, Entry[w])
    BY <1>1, <1>3, EntryStays
  <1>5. \A r \in rows' : r.target \in Workers
    BY DEF TypeInvariant, Row
  <1>6. \A r \in rows' : r.row = Entry[r.target] => r.state = s.state
    BY <1>2, <1>4, <1>5
  <1>7. Unfinished' \in {{}, Workers}
    <2>1. CASE s.state = "stopped"
      BY <1>4, <1>6, <2>1 DEF Unfinished
    <2>2. CASE s.state # "stopped"
      <3>1. \A w \in Workers : w \in Unfinished'
        <4> SUFFICES ASSUME NEW w \in Workers PROVE w \in Unfinished'
          OBVIOUS
        <4>1. PICK r \in rows' : r.row = Entry[w] /\ r.target = w
          BY <1>4 DEF IsFirst
        <4> QED
          BY <1>4, <1>6, <2>2, <4>1 DEF Unfinished
      <3>2. \A w \in Unfinished' : w \in Workers
        BY <1>5 DEF Unfinished
      <3> QED
        BY <3>1, <3>2
    <2> QED
      BY <2>1, <2>2
  <1>8. UNCHANGED Spare
    BY <1>2, <1>4 DEF Spare, SameRows
  <1> QED
    BY <1>2, <1>4, <1>7, <1>8 DEF Book!Write

\* Removed is what lies beside the first rows.
LEMMA RemoveMaps ==
  ASSUME LogInv, TypeInvariant', NEW p \in Processes, NEW s \in saving[p], Discard(p, s)
  PROVE  \E some \in SUBSET Spare : Book!Remove(some)
  <1>1. TypeInvariant /\ RowsKept /\ FoundKept
    BY DEF LogInv
  <1>2. Carried /\ rows # {} /\ rows' \subseteq rows
    BY <1>1, DiscardCarried
  <1>3. /\ Entry' = Entry
        /\ \A w \in Workers : IsFirst(rows', w, Entry[w])
    BY <1>1, <1>2, EntryStays
  <1>4. rowNr' = rowNr
    BY DEF Discard
  <1>5. UNCHANGED Unfinished
    <2>1. Unfinished' \subseteq Unfinished
      BY <1>2, <1>3 DEF Unfinished
    <2>2. ASSUME NEW r \in rows, r.row = Entry[r.target] PROVE r \in rows'
      <3>1. r.target \in Workers
        BY <1>1 DEF TypeInvariant, Row
      <3>2. PICK q \in rows' : q.row = r.row
        BY <1>3, <2>2, <3>1 DEF IsFirst
      <3> QED
        BY <1>1, <1>2, <3>2 DEF RowsKept, OneEach
    <2>3. Unfinished \subseteq Unfinished'
      BY <1>3, <2>2 DEF Unfinished
    <2> QED
      BY <2>1, <2>3
  <1>6. Spare' \subseteq Spare
    BY <1>2, <1>3 DEF Spare
  <1> DEFINE some == Spare \ Spare'
  <1>7. some \in SUBSET Spare /\ Spare' = Spare \ some
    BY <1>6
  <1> HIDE DEF some
  <1> QED
    BY <1>3, <1>4, <1>5, <1>7 DEF Book!Remove

\* A step that leaves the rows alone.
LEMMA RowsAlone ==
  ASSUME UNCHANGED <<rows, rowNr>>
  PROVE  UNCHANGED <<Entry, Spare, rowNr, Unfinished>>
  <1>1. UNCHANGED Entry
    BY DEF Entry, NumbersOf
  <1> QED
    BY <1>1 DEF Spare, Unfinished

\* Every step is one of the ledger.
LEMMA ChangeMaps ==
  ASSUME LogInv, TypeInvariant', Next
  PROVE  Book!Change
  <1>1. TypeInvariant
    BY DEF LogInv
  <1>2. CASE UNCHANGED <<rows, rowNr>>
    <2>1. UNCHANGED Book!book
      BY <1>2, RowsAlone DEF Book!book
    <2>2. Quiet => Quiet'
      BY <1>1, QuietStays
    <2>3. Book!Remove({}) /\ {} \in SUBSET Spare
      BY <1>2, RowsAlone DEF Book!Remove
    <2> QED
      BY <2>1, <2>2, <2>3 DEF Book!Change
  <1>3. ASSUME NEW p \in Processes, NEW s \in saving[p], Store(p, s) \/ Discard(p, s)
        PROVE  Book!Change
    <2>1. ~ Quiet
      BY <1>3 DEF Quiet
    <2>2. CASE Store(p, s)
      BY <2>1, <2>2, OpenMaps, RepeatMaps, WriteMaps DEF Book!Change
    <2>3. CASE Discard(p, s)
      BY <2>1, <2>3, RemoveMaps DEF Book!Change
    <2> QED
      BY <1>3, <2>2, <2>3
  <1>4. ASSUME NEW w \in Workers, Started(w) \/ Begin(w) \/ Update(w) \/ Stop(w) \/ Over(w)
        PROVE  UNCHANGED <<rows, rowNr>>
    BY <1>4 DEF Started, Begin, Update, Stop, Over
  <1>5. ASSUME NEW m \in Monitors, NEW w \in Workers, Monitor(m, w)
        PROVE  UNCHANGED <<rows, rowNr>>
    BY <1>5 DEF Monitor
  <1>6. ASSUME NEW p \in Processes, NEW s \in saving[p], Find(p, s) \/ Fail(p, s)
        PROVE  UNCHANGED <<rows, rowNr>>
    BY <1>6 DEF Find, Fail
  <1>7. ASSUME NEW p \in Processes, Cleanup(p) PROVE UNCHANGED <<rows, rowNr>>
    BY <1>7 DEF Cleanup
  <1> QED
    BY <1>2, <1>3, <1>4, <1>5, <1>6, <1>7 DEF Next, Saving

\* The log implements Ledger: saveRunnerResults() of any process makes, writes and removes
\* rows as clerks do who keep the first entries, and when all is over the log is complete.
THEOREM Implementation == Spec => ImplementsLedger
  <1>1. Init => Book!Init
    <2> SUFFICES ASSUME Init PROVE Book!Init
      OBVIOUS
    <2>1. Entry = [w \in Workers |-> 0]
      BY DEF Init, Entry, NumbersOf
    <2>2. Spare = {} /\ Unfinished = {}
      BY DEF Init, Spare, Unfinished
    <2>3. Quiet = (Workers = {})
      <3>1. CASE Workers = {}
        <4>1. \A q \in Processes : saving[q] = {} /\ waiting[q] = <<>>
          BY DEF Init
        <4>2. \A q \in Processes : DOMAIN waiting[q] = {}
          BY <4>1
        <4> QED
          BY <3>1, <4>1, <4>2 DEF Quiet
      <3>2. CASE Workers # {}
        BY <3>2 DEF Init, Quiet
      <3> QED
        BY <3>1, <3>2
    <2> QED
      BY <2>1, <2>2, <2>3 DEF Init, Book!Init
  <1>2. UNCHANGED vars => UNCHANGED Book!vars
    <2> SUFFICES ASSUME UNCHANGED vars PROVE UNCHANGED Book!vars
      OBVIOUS
    <2>1. UNCHANGED <<run, events, saving, waiting, disturbed, rows, rowNr>>
      BY DEF vars, lockVars
    <2>2. UNCHANGED <<Entry, Spare, rowNr, Unfinished>>
      BY <2>1, RowsAlone
    <2>3. UNCHANGED Quiet
      BY <2>1 DEF Quiet
    <2> QED
      BY <2>1, <2>2, <2>3 DEF Book!vars, Book!book
  <1>3. CASE Workers = {}
    <2>1. Init /\ [Next]_vars => Init' /\ UNCHANGED vars
      <3> SUFFICES ASSUME Init, [Next]_vars PROVE Init' /\ UNCHANGED vars
        OBVIOUS
      <3>1. ~ Next
        BY <1>3 DEF Init, Next, Saving, Cleanup
      <3> QED
        BY <3>1 DEF Init, vars, lockVars
    <2> QED
      BY <1>1, <1>2, <2>1, PTL DEF Spec, ImplementsLedger, Book!Spec
  <1>4. CASE Workers # {}
    <2>1. LogInv /\ LogSaysStopped => InOrder
      BY <1>4, QuietInOrder
    <2>2. LogInv => TypeInvariant
      BY DEF LogInv
    <2>3. LogInv /\ TypeInvariant' /\ InOrder' /\ Next => Book!Next
      <3> SUFFICES ASSUME LogInv, TypeInvariant', InOrder', Next PROVE Book!Next
        OBVIOUS
      <3>1. Book!Change
        BY ChangeMaps
      <3>2. disturbed # {} => disturbed' # {}
        BY DisturbedGrows
      <3>3. Quiet' => Book!Closing'
        BY DEF InOrder, Book!Closing
      <3> QED
        BY <3>1, <3>2, <3>3 DEF Book!Next
    <2> QED
      BY <1>1, <1>2, <2>1, <2>2, <2>3, LogInvariant, SaysStopped, PTL
         DEF Spec, ImplementsLedger, Book!Spec
  <1> QED
    BY <1>3, <1>4

=============================================================================
