------------------------ MODULE RunnerRegistryProofs ------------------------
(***************************************************************************)
(* Proofs about RunnerRegistry for any nodes, runs and number of restarts. *)
(***************************************************************************)
EXTENDS RunnerRegistry, TLAPS

Message == RunEvents \cup NodeMessages

Sent(n) == 1 .. Len(wire[n])

\* Behind position p of what n has posted there is the last event of r.
StopComes(n, r, p) == \E q \in Sent(n) : q > p /\ wire[n][q] = RunEvent(r, "stopped")

\* Behind position p of what n has posted there is the news that n is back.
BackComes(n, p) == \E q \in Sent(n) : q > p /\ wire[n][q] = NodeMessage(n, "register")

BackWaits(n) == \E q \in 1 .. Len(waiting) : waiting[q] = NodeMessage(n, "register")

\* The status of r once what is written is there, if its writes do not cross.
Will(r, v) == IF \E w \in Values : Pending(r, w) THEN Pending(r, v) ELSE status[r] = v
Entered(r, n) == r \notin crossed /\ Will(r, n)

\* What says that n runs r: the registry (position 0) or an event on its way.
Claims(n, r, p) ==
  \/ p = 0 /\ Entered(r, n)
  \/ p \in Sent(n) /\ wire[n][p] \in RunEvents /\ wire[n][p].id = r /\ wire[n][p].state # "stopped"

\* Of a run that has ended, something behind every claim takes the claim back.
ClaimsEnd ==
  \A n \in Nodes, r \in Runs : \A p \in Sent(n) \cup {0} : Claims(n, r, p) =>
    /\ run[n][r] # "none"
    /\ run[n][r] = "stopped" => StopComes(n, r, p)
    /\ run[n][r] = "gone" => BackComes(n, p) \/ (p = 0 /\ (BackWaits(n) \/ r \in doomed))

\* An event of the runner of r here has not arrived.
OnItsWay(r) == \E p \in Sent(Here) : wire[Here][p] \in RunEvents /\ wire[Here][p].id = r

\* Name and status of a run agree, or an event of its runner here is on its way.
Agrees(r) == r \in crossed \/ (r \in names <=> ~ Will(r, NoNode))
NamesFollow == \A r \in Runs : Agrees(r) \/ OnItsWay(r)

\* A run is only where it is meant to be.
RunsAtTargets == \A n \in Nodes, r \in Runs : run[n][r] # "none" => n \in Targets[r]

\* A run is only entered for a node that it is meant for.
EntriesAtTargets ==
  \A r \in Runs, n \in Nodes : Pending(r, n) \/ status[r] = n => n \in Targets[r]

\* The writes of a run that are under way are equal, unless they crossed.
Single ==
  \A r \in Runs \ crossed : \A v, w \in Values : Pending(r, v) /\ Pending(r, w) => v = w

RegistryInv ==
  /\ TypeInvariant /\ Single
  /\ ClaimsEnd /\ RunsAtTargets /\ EntriesAtTargets
  /\ NamesFollow

-----------------------------------------------------------------------------
\* Lemmas about messages

LEMMA MessageKinds ==
  /\ \A r \in Runs, s \in {"started", "running", "stopped"} :
        /\ RunEvent(r, s) \in RunEvents
        /\ RunEvent(r, s).id = r /\ RunEvent(r, s).state = s
  /\ \A n \in Nodes, s \in {"register", "unregister"} : NodeMessage(n, s) \in NodeMessages
  /\ \A m \in RunEvents : m \notin NodeMessages
  <1>1. ASSUME NEW m \in RunEvents PROVE m \notin NodeMessages
    <2>1. DOMAIN m = {"id", "state"}
      BY DEF RunEvents
    <2>2. ASSUME NEW w \in NodeMessages PROVE DOMAIN w = {"node", "state"}
      BY DEF NodeMessages
    <2>3. "node" \notin {"id", "state"}
      OBVIOUS
    <2> QED
      BY <2>1, <2>2, <2>3
  <1> QED
    BY <1>1 DEF RunEvents, NodeMessages, RunEvent, NodeMessage

LEMMA Updating ==
  ASSUME NEW A, NEW B, NEW C, NEW f \in [A -> [B -> C]], NEW a \in A, NEW b \in B, NEW c \in C
  PROVE  [f EXCEPT ![a][b] = c] \in [A -> [B -> C]]
  OBVIOUS

LEMMA Appending ==
  ASSUME NEW S, NEW s \in Seq(S), NEW e \in S
  PROVE  /\ Append(s, e) \in Seq(S) /\ Len(Append(s, e)) = Len(s) + 1 /\ Len(s) \in Nat
         /\ \A i \in 1 .. Len(s) : Append(s, e)[i] = s[i]
         /\ Append(s, e)[Len(s) + 1] = e
  OBVIOUS

LEMMA Taking ==
  ASSUME NEW S, NEW s \in Seq(S), s # <<>>
  PROVE  /\ Head(s) = s[1] /\ Head(s) \in S /\ 1 \in 1 .. Len(s)
         /\ Tail(s) \in Seq(S) /\ Len(Tail(s)) = Len(s) - 1 /\ Len(s) \in Nat \ {0}
         /\ \A i \in 1 .. Len(s) - 1 : Tail(s)[i] = s[i + 1]
  OBVIOUS

-----------------------------------------------------------------------------
\* Writes of statuses

\* The statuses will be what they would have been, but for runs whose writes cross.
SameEntries ==
  /\ crossed \subseteq crossed'
  /\ \A r \in Runs \ crossed', v \in Values : Will(r, v)' <=> Will(r, v)

\* What a write that begins does.
Begins(runs, v) ==
  /\ writes' \in [Runs -> [Values -> Nat]] /\ status' = status
  /\ crossed \subseteq crossed' /\ crossed' \subseteq Runs
  /\ \A r \in Runs, w \in Values : Pending(r, w)' <=> Pending(r, w) \/ (r \in runs /\ w = v)
  /\ \A r \in runs \ crossed' : \A w \in Values \ {v} : ~ Pending(r, w)
Decides(runs, v) ==
  \A r \in Runs \ crossed', w \in Values :
     Will(r, w)' <=> IF r \in runs THEN w = v ELSE Will(r, w)

\* A write is one more, and decides what the status will be.
LEMMA Begun ==
  ASSUME TypeInvariant, NEW runs \in SUBSET Runs, NEW v \in Values, Write(runs, v)
  PROVE  Begins(runs, v)
  <1>1. writes \in [Runs -> [Values -> Nat]] /\ crossed \subseteq Runs
    BY DEF TypeInvariant
  <1>2. \A r \in Runs, w \in Values : writes[r][w] \in Nat
    BY <1>1
  <1>3. /\ writes' = [r \in Runs |-> [w \in Values |->
                       IF r \in runs /\ w = v THEN writes[r][w] + 1 ELSE writes[r][w]]]
        /\ crossed' = crossed \cup {r \in runs : \E w \in Values \ {v} : Pending(r, w)}
        /\ status' = status
    BY DEF Write
  <1>4. \A r \in Runs, w \in Values : Pending(r, w)' <=> Pending(r, w) \/ (r \in runs /\ w = v)
    <2> TAKE r \in Runs, w \in Values
    <2>1. writes'[r][w] = IF r \in runs /\ w = v THEN writes[r][w] + 1 ELSE writes[r][w]
      BY <1>3
    <2> QED
      BY <1>2, <2>1 DEF Pending
  <1>5. writes' \in [Runs -> [Values -> Nat]]
    BY <1>2, <1>3
  <1> QED
    BY <1>1, <1>3, <1>4, <1>5 DEF Begins

LEMMA BegunEntries ==
  ASSUME TypeInvariant, NEW runs \in SUBSET Runs, NEW v \in Values, Write(runs, v)
  PROVE  Decides(runs, v)
  <1> SUFFICES ASSUME NEW r \in Runs \ crossed', NEW w \in Values
               PROVE  Will(r, w)' <=> IF r \in runs THEN w = v ELSE Will(r, w)
    BY DEF Decides
  <1>4. Begins(runs, v)
    BY Begun
  <1>1. \A x \in Values : Pending(r, x)' <=> Pending(r, x) \/ (r \in runs /\ x = v)
    BY <1>4 DEF Begins
  <1>2. CASE r \in runs
    <2>1. \A x \in Values : Pending(r, x)' <=> x = v
      BY <1>1, <1>2, <1>4 DEF Begins
    <2> QED
      BY <1>2, <2>1 DEF Will
  <1>3. CASE r \notin runs
    BY <1>1, <1>3, <1>4 DEF Will, Begins
  <1> QED
    BY <1>2, <1>3

\* A write that is there is one less.
LEMMA Done ==
  ASSUME TypeInvariant, NEW r \in Runs, NEW v \in Values, Written(r, v)
  PROVE  /\ writes' \in [Runs -> [Values -> Nat]]
         /\ \A q \in Runs \ {r} : status'[q] = status[q]
         /\ status'[r] = v /\ Pending(r, v)
         /\ \A q \in Runs, w \in Values :
              /\ Pending(q, w)' => Pending(q, w)
              /\ Pending(q, w) => Pending(q, w)' \/ (q = r /\ w = v)
  <1>1. writes \in [Runs -> [Values -> Nat]] /\ status \in [Runs -> Values]
    BY DEF TypeInvariant
  <1>2. /\ status' = [status EXCEPT ![r] = v] /\ writes' = [writes EXCEPT ![r][v] = @ - 1]
        /\ writes[r][v] > 0
    BY DEF Written, Pending
  <1>3. writes[r][v] \in Nat /\ writes[r][v] - 1 \in Nat
    BY <1>1, <1>2
  <1>4. writes' = [writes EXCEPT ![r][v] = writes[r][v] - 1]
    BY <1>1, <1>2
  <1>5. writes' \in [Runs -> [Values -> Nat]]
    BY <1>1, <1>3, <1>4, Updating
  <1>6. \A q \in Runs, w \in Values :
           writes'[q][w] = IF q = r /\ w = v THEN writes[r][v] - 1 ELSE writes[q][w]
    BY <1>1, <1>4
  <1>7. ASSUME NEW q \in Runs, NEW w \in Values
        PROVE  /\ Pending(q, w)' => Pending(q, w)
               /\ Pending(q, w) => Pending(q, w)' \/ (q = r /\ w = v)
    BY <1>2, <1>6 DEF Pending
  <1> QED
    BY <1>1, <1>2, <1>5, <1>7 DEF Pending

LEMMA DoneEntries ==
  ASSUME TypeInvariant, Single, NEW r \in Runs, NEW v \in Values, Written(r, v)
  PROVE  SameEntries
  <1>1. crossed' = crossed
    BY DEF Written
  <1>2. ASSUME NEW q \in Runs \ crossed, NEW w \in Values PROVE Will(q, w)' <=> Will(q, w)
    <2>1. CASE q # r
      <3>1. status'[q] = status[q] /\ \A x \in Values : Pending(q, x)' <=> Pending(q, x)
        BY <2>1, Done
      <3> QED
        BY <3>1 DEF Will
    <2>2. CASE q = r
      <3>1. /\ \A x \in Values : Pending(q, x) <=> x = v
            /\ \A x \in Values : Pending(q, x)' => x = v
            /\ status'[q] = v
        BY <2>2, Done DEF Single
      <3> QED
        BY <3>1 DEF Will
    <2> QED
      BY <2>1, <2>2
  <1> QED
    BY <1>1, <1>2 DEF SameEntries

LEMMA SameCache ==
  UNCHANGED cached => SameEntries
  <1> SUFFICES ASSUME UNCHANGED cached PROVE SameEntries
    OBVIOUS
  <1>1. status' = status /\ writes' = writes /\ crossed' = crossed
    BY DEF cached
  <1> QED
    BY <1>1 DEF SameEntries, Will, Pending

\* Only what is entered is entered afterwards.
LEMMA EntriesKept ==
  ASSUME SameEntries, NEW r \in Runs, NEW n \in Nodes, Entered(r, n)'
  PROVE  Entered(r, n)
  BY DEF SameEntries, Entered, Values

-----------------------------------------------------------------------------
\* Type correctness

\* Posting keeps the type of the wire.
LEMMA PostTyped ==
  ASSUME TypeInvariant, NEW n \in Nodes, NEW m \in Message, Post(n, m)
  PROVE  wire' \in [Nodes -> Seq(Message)]
  <1>1. Append(wire[n], m) \in Seq(Message)
    BY DEF TypeInvariant, Message
  <1> QED
    BY <1>1 DEF TypeInvariant, Post, Message

\* What arrives is the first message, and a run event is about one run.
LEMMA Received ==
  ASSUME TypeInvariant, NEW n \in Nodes, Receive(n)
  PROVE  /\ wire[n] # <<>> /\ 1 \in Sent(n)
         /\ wire' = [wire EXCEPT ![n] = Tail(wire[n])] /\ Tail(wire[n]) \in Seq(Message)
         /\ \/ /\ wire[n][1] \in NodeMessages
               /\ waiting' = Append(waiting, wire[n][1])
               /\ UNCHANGED <<cached, names>>
            \/ /\ wire[n][1] \in RunEvents /\ UNCHANGED waiting
               /\ \E r \in Runs :
                     /\ wire[n][1].id = r
                     /\ \/ wire[n][1].state = "stopped" /\ RemoveTaskStatus({r})
                        \/ wire[n][1].state # "stopped" /\ AddTaskStatus(r, n)
  <1>1. wire[n] # <<>> /\ wire' = [wire EXCEPT ![n] = Tail(wire[n])] /\ wire[n] \in Seq(Message)
    BY DEF Receive, TypeInvariant, Message
  <1>2. Head(wire[n]) = wire[n][1] /\ 1 \in Sent(n) /\ Tail(wire[n]) \in Seq(Message)
    BY <1>1, Taking DEF Sent
  <1>3. \A m \in RunEvents : m.id \in Runs
    BY DEF RunEvents
  <1> QED
    BY <1>1, <1>2, <1>3 DEF Receive

LEMMA Typed ==
  ASSUME TypeInvariant, [Next]_vars
  PROVE  TypeInvariant'
  <1> USE RegistryAssumption
  <1>1. ASSUME NEW n \in Nodes, NEW r \in Runs, Begin(n, r) \/ Step(n, r) \/ Finish(n, r)
        PROVE  TypeInvariant'
    <2>1. \E m \in Message : Post(n, m)
      BY <1>1, MessageKinds DEF Begin, Step, Finish, Message
    <2>2. wire' \in [Nodes -> Seq(Message)]
      BY <2>1, PostTyped
    <2>3. run' \in [Nodes -> [Runs -> Places]]
      <3>1. \E place \in Places : run' = [run EXCEPT ![n][r] = place]
        BY <1>1 DEF Begin, Step, Finish, Becomes, Places, Active
      <3> QED
        BY <3>1, Updating DEF TypeInvariant
    <2>4. steps' \in [Nodes -> [Runs -> 0..MaxSteps]]
      <3>1. CASE UNCHANGED steps
        BY <3>1 DEF TypeInvariant
      <3>2. CASE Step(n, r)
        <4>1. steps[n][r] \in Nat /\ steps[n][r] < MaxSteps
          BY <3>2 DEF Step, TypeInvariant
        <4>2. steps[n][r] + 1 \in 0 .. MaxSteps
          BY <4>1
        <4>3. steps' = [steps EXCEPT ![n][r] = steps[n][r] + 1]
          BY <3>2 DEF Step
        <4> QED
          BY <4>2, <4>3, Updating DEF TypeInvariant
      <3> QED
        BY <1>1, <3>1, <3>2 DEF Begin, Finish
    <2>5. UNCHANGED <<up, starts, waiting, status, writes, crossed, doomed>>
      BY <1>1 DEF Begin, Step, Finish, registryVars, cached
    <2>6. names' \subseteq Runs /\ local' \subseteq Runs
      BY <1>1 DEF Begin, Step, Finish, registryVars, TypeInvariant
    <2> QED
      BY <2>2, <2>3, <2>4, <2>5, <2>6 DEF TypeInvariant, Message
  <1>2. ASSUME NEW n \in Nodes, NEW r \in Runs, Hang(n, r) PROVE TypeInvariant'
    <2>1. run' \in [Nodes -> [Runs -> Places]]
      <3>1. run' = [run EXCEPT ![n][r] = "hung"]
        BY <1>2 DEF Hang, Becomes
      <3> QED
        BY <3>1, Updating DEF TypeInvariant, Places
    <2> QED
      BY <1>2, <2>1 DEF Hang, TypeInvariant, registryVars, cached
  <1>3. ASSUME NEW n \in Nodes, Leave(n) \/ End(n) \/ Restart(n) PROVE TypeInvariant'
    <2>1. wire' \in [Nodes -> Seq(Message)]
      <3>1. CASE Leave(n) \/ Restart(n)
        BY <3>1, MessageKinds, PostTyped DEF Leave, Restart, Message
      <3>2. CASE End(n)
        BY <3>2 DEF End, TypeInvariant, Message
      <3> QED
        BY <1>3, <3>1, <3>2
    <2>2. up' \in [Nodes -> {"up", "leaving", "down"}]
      <3>1. \E x \in {"up", "leaving", "down"} : up' = [up EXCEPT ![n] = x]
        BY <1>3 DEF Leave, End, Restart
      <3> QED
        BY <3>1 DEF TypeInvariant
    <2>3. starts' \in [Nodes -> 1..MaxStarts]
      <3>1. CASE Restart(n)
        <4>1. starts[n] \in 1..MaxStarts /\ starts[n] < MaxStarts
          BY <3>1 DEF Restart, TypeInvariant
        <4>2. starts[n] + 1 \in 1..MaxStarts
          BY <4>1
        <4>3. starts' = [starts EXCEPT ![n] = starts[n] + 1]
          BY <3>1 DEF Restart
        <4> QED
          BY <4>2, <4>3 DEF TypeInvariant
      <3> QED
        BY <1>3, <3>1 DEF Leave, End, TypeInvariant
    <2>4. run' \in [Nodes -> [Runs -> Places]]
      <3>1. run[n] \in [Runs -> Places]
        BY DEF TypeInvariant
      <3>2. \E own \in [Runs -> Places] : run' = [run EXCEPT ![n] = own]
        <4>1. CASE Leave(n)
          <5>1. run' = [run EXCEPT ![n] = run[n]]
            BY <4>1 DEF Leave, TypeInvariant
          <5> QED
            BY <3>1, <5>1
        <4>2. CASE End(n)
          <5> DEFINE own == [r \in Runs |-> IF run[n][r] \in Active \cup {"hung"} THEN "lost" ELSE run[n][r]]
          <5>1. own \in [Runs -> Places]
            BY <3>1 DEF Places
          <5> QED
            BY <4>2, <5>1 DEF End
        <4>3. CASE Restart(n)
          <5> DEFINE own == [r \in Runs |-> IF run[n][r] = "lost" THEN "gone" ELSE run[n][r]]
          <5>1. own \in [Runs -> Places]
            BY <3>1 DEF Places
          <5> QED
            BY <4>3, <5>1 DEF Restart
        <4> QED
          BY <1>3, <4>1, <4>2, <4>3
      <3> QED
        BY <3>2 DEF TypeInvariant
    <2>5. UNCHANGED <<steps, waiting, registryVars>>
      BY <1>3 DEF Leave, End, Restart
    <2> QED
      BY <2>1, <2>2, <2>3, <2>4, <2>5 DEF TypeInvariant, Message, registryVars, cached
  <1>4. ASSUME NEW n \in Nodes, Receive(n) PROVE TypeInvariant'
    <2>1. wire' \in [Nodes -> Seq(Message)]
      BY <1>4, Received DEF TypeInvariant, Message
    <2>2. waiting' \in Seq(NodeMessages)
      <3>1. CASE wire[n][1] \in NodeMessages /\ waiting' = Append(waiting, wire[n][1])
        <4>1. waiting \in Seq(NodeMessages)
          BY DEF TypeInvariant
        <4> QED
          BY <3>1, <4>1, Appending
      <3>2. CASE UNCHANGED waiting
        BY <3>2 DEF TypeInvariant
      <3> QED
        BY <1>4, <3>1, <3>2, Received
    <2>3. /\ status' \in [Runs -> Values] /\ writes' \in [Runs -> [Values -> Nat]]
          /\ crossed' \subseteq Runs /\ names' \subseteq Runs
      <3>1. CASE UNCHANGED <<cached, names>>
        BY <3>1 DEF TypeInvariant, cached
      <3>2. ASSUME NEW r \in Runs, RemoveTaskStatus({r}) \/ AddTaskStatus(r, n)
            PROVE  /\ status' \in [Runs -> Values] /\ writes' \in [Runs -> [Values -> Nat]]
                   /\ crossed' \subseteq Runs /\ names' \subseteq Runs
        <4>1. PICK v \in Values : Write({r}, v)
          BY <3>2 DEF RemoveTaskStatus, AddTaskStatus, Values
        <4>4. Begins({r}, v)
          BY <4>1, Begun
        <4>2. writes' \in [Runs -> [Values -> Nat]] /\ status' = status /\ crossed' \subseteq Runs
          BY <4>4 DEF Begins
        <4>3. names' \subseteq Runs
          BY <3>2 DEF RemoveTaskStatus, AddTaskStatus, TypeInvariant
        <4> QED
          BY <4>2, <4>3 DEF TypeInvariant
      <3> QED
        BY <1>4, <3>1, <3>2, Received
    <2> QED
      BY <1>4, <2>1, <2>2, <2>3 DEF Receive, TypeInvariant, Message, nodeVars
  <1>5. ASSUME OnNodeUpdate PROVE TypeInvariant'
    <2>1. waiting' \in Seq(NodeMessages)
      BY <1>5, Taking DEF OnNodeUpdate, TypeInvariant
    <2> QED
      BY <1>5, <2>1 DEF OnNodeUpdate, TypeInvariant, nodeVars
  <1>6. ASSUME RemoveFound \/ \E r \in Runs : Cleanup(r) PROVE TypeInvariant'
    <2>1. PICK runs \in SUBSET Runs : RemoveTaskStatus(runs)
      BY <1>6 DEF RemoveFound, Cleanup, TypeInvariant
    <2>2. writes' \in [Runs -> [Values -> Nat]] /\ status' = status /\ crossed' \subseteq Runs
      <3>1. Begins(runs, NoNode)
        BY <2>1, Begun DEF RemoveTaskStatus, Values
      <3> QED
        BY <3>1 DEF Begins
    <2>3. names' \subseteq Runs
      BY <2>1 DEF RemoveTaskStatus, TypeInvariant
    <2> QED
      BY <1>6, <2>2, <2>3 DEF RemoveFound, Cleanup, TypeInvariant, nodeVars
  <1>8. ASSUME NEW r \in Runs, NEW v \in Values, Written(r, v) PROVE TypeInvariant'
    <2>1. status' \in [Runs -> Values] /\ writes' \in [Runs -> [Values -> Nat]]
      BY <1>8, Done DEF Written, TypeInvariant
    <2> QED
      BY <1>8, <2>1 DEF Written, TypeInvariant, nodeVars
  <1>7. CASE UNCHANGED vars
    BY <1>7 DEF vars, nodeVars, registryVars, cached, TypeInvariant
  <1> QED
    BY <1>1, <1>2, <1>3, <1>4, <1>5, <1>6, <1>7, <1>8 DEF Next

-----------------------------------------------------------------------------
\* Claims are taken back

\* A message that is posted comes behind all others.
LEMMA Posting ==
  ASSUME TypeInvariant, NEW n \in Nodes, NEW m \in Message, Post(n, m)
  PROVE  /\ \A k \in Nodes \ {n} : wire'[k] = wire[k]
         /\ Len(wire[n]) \in Nat /\ Len(wire'[n]) = Len(wire[n]) + 1
         /\ \A p \in Sent(n) : wire'[n][p] = wire[n][p]
         /\ wire'[n][Len(wire[n]) + 1] = m
  <1>1. wire[n] \in Seq(Message)
    BY DEF TypeInvariant, Message
  <1>2. wire'[n] = Append(wire[n], m)
    BY DEF Post, TypeInvariant
  <1>3. \A k \in Nodes \ {n} : wire'[k] = wire[k]
    BY DEF Post, TypeInvariant
  <1> QED
    BY <1>1, <1>2, <1>3, Appending DEF Sent

\* Posting keeps the claims ended, if a run that ends or is gone says so with it.
LEMMA PostKeepsClaims ==
  ASSUME TypeInvariant, ClaimsEnd, NEW n \in Nodes, NEW m \in Message, Post(n, m),
         SameEntries, UNCHANGED <<waiting, doomed>>,
         \A k \in Nodes \ {n} : run'[k] = run[k],
         \A r \in Runs :
           /\ run[n][r] # "none" => run'[n][r] # "none"
           /\ run'[n][r] = "stopped" => run[n][r] = "stopped" \/ m = RunEvent(r, "stopped")
           /\ run'[n][r] = "gone" => run[n][r] = "gone" \/ m = NodeMessage(n, "register")
           /\ m \in RunEvents /\ m.id = r /\ m.state # "stopped"
                => run'[n][r] \in Active
  PROVE  ClaimsEnd'
  <1> SUFFICES ASSUME NEW k \in Nodes, NEW r \in Runs, NEW p \in (Sent(k) \cup {0})', Claims(k, r, p)'
               PROVE  /\ run'[k][r] # "none"
                      /\ run'[k][r] = "stopped" => StopComes(k, r, p)'
                      /\ run'[k][r] = "gone" =>
                           BackComes(k, p)' \/ (p = 0 /\ (BackWaits(k)' \/ r \in doomed'))
    BY DEF ClaimsEnd
  <1>1. CASE k # n
    <2>1. wire'[k] = wire[k] /\ run'[k] = run[k]
      BY <1>1, Posting
    <2>2. Claims(k, r, p) /\ p \in Sent(k) \cup {0}
      BY <2>1, EntriesKept DEF Claims, Sent
    <2> QED
      BY <2>1, <2>2 DEF ClaimsEnd, StopComes, BackComes, BackWaits, Sent
  <1>2. CASE k = n /\ p = Len(wire[n]) + 1
    <2>1. p \in Nat /\ p # 0 /\ wire'[n][p] = m
      BY <1>2, Posting
    <2>2. m \in RunEvents /\ m.id = r /\ m.state # "stopped"
      BY <1>2, <2>1 DEF Claims
    <2>3. run'[n][r] \in Active
      BY <2>2
    <2> QED
      BY <1>2, <2>3 DEF Active
  <1>3. CASE k = n /\ p # Len(wire[n]) + 1
    <2>1. p \in Sent(n) \cup {0} /\ Sent(n) \subseteq Sent(n)' /\ p <= Len(wire[n])
          /\ Len(wire[n]) + 1 \in Sent(n)' /\ Len(wire[n]) + 1 > p
      BY <1>3, Posting DEF Sent
    <2>2. \A q \in Sent(n) : wire'[n][q] = wire[n][q]
      BY Posting
    <2>3. Claims(n, r, p)
      <3>1. CASE p \in Sent(n)
        <4>1. wire'[n][p] = wire[n][p] /\ p # 0
          BY <2>2, <3>1 DEF Sent
        <4> QED
          BY <1>3, <3>1, <4>1 DEF Claims
      <3>2. CASE p = 0
        <4>1. 0 \notin Sent(n)'
          BY DEF Sent
        <4> QED
          BY <1>3, <3>2, <4>1, EntriesKept DEF Claims
      <3> QED
        BY <2>1, <3>1, <3>2
    <2>4. /\ run[n][r] # "none"
          /\ run[n][r] = "stopped" => StopComes(n, r, p)
          /\ run[n][r] = "gone" => BackComes(n, p) \/ (p = 0 /\ (BackWaits(n) \/ r \in doomed))
      BY <2>1, <2>3 DEF ClaimsEnd
    <2>5. wire'[n][Len(wire[n]) + 1] = m
      BY Posting
    <2>6. ASSUME run'[n][r] = "stopped" PROVE StopComes(n, r, p)'
      <3>1. CASE run[n][r] = "stopped"
        BY <2>1, <2>2, <2>4, <3>1 DEF StopComes
      <3>2. CASE m = RunEvent(r, "stopped")
        BY <2>1, <2>5, <3>2 DEF StopComes
      <3> QED
        BY <2>6, <3>1, <3>2
    <2>7. ASSUME run'[n][r] = "gone"
          PROVE  BackComes(n, p)' \/ (p = 0 /\ (BackWaits(n)' \/ r \in doomed'))
      <3>1. CASE run[n][r] = "gone"
        BY <2>1, <2>2, <2>4, <3>1 DEF BackComes, BackWaits
      <3>2. CASE m = NodeMessage(n, "register")
        BY <2>1, <2>5, <3>2 DEF BackComes
      <3> QED
        BY <2>7, <3>1, <3>2
    <2> QED
      BY <1>3, <2>4, <2>6, <2>7
  <1> QED
    BY <1>1, <1>2, <1>3

\* Without any message, runs that go on or are lost change no claim.
LEMMA SameMessages ==
  ASSUME ClaimsEnd, SameEntries, UNCHANGED <<wire, waiting, doomed>>,
         \A n \in Nodes, r \in Runs :
           /\ run[n][r] # "none" => run'[n][r] # "none"
           /\ run'[n][r] \in {"stopped", "gone"} => run'[n][r] = run[n][r]
  PROVE  ClaimsEnd'
  <1>1. \A n \in Nodes, r \in Runs : \A p \in Sent(n) \cup {0} :
           /\ Claims(n, r, p)' => Claims(n, r, p)
           /\ StopComes(n, r, p)' <=> StopComes(n, r, p)
           /\ BackComes(n, p)' <=> BackComes(n, p)
           /\ BackWaits(n)' <=> BackWaits(n)
           /\ Sent(n)' = Sent(n)
    BY EntriesKept DEF Claims, StopComes, BackComes, BackWaits, Sent
  <1> QED
    BY <1>1 DEF ClaimsEnd

\* What arrives moves the rest of the wire to the front.
LEMMA Arriving ==
  ASSUME TypeInvariant, NEW n \in Nodes, Receive(n)
  PROVE  /\ \A k \in Nodes \ {n} : wire'[k] = wire[k]
         /\ Len(wire[n]) \in Nat \ {0} /\ Len(wire'[n]) = Len(wire[n]) - 1
         /\ \A p \in 1 .. Len(wire[n]) - 1 : wire'[n][p] = wire[n][p + 1]
  <1>1. wire[n] \in Seq(Message) /\ wire[n] # <<>>
    BY DEF TypeInvariant, Message, Receive
  <1>2. wire'[n] = Tail(wire[n]) /\ \A k \in Nodes \ {n} : wire'[k] = wire[k]
    BY DEF Receive, TypeInvariant
  <1> QED
    BY <1>1, <1>2, Taking

LEMMA ReceiveKeepsClaims ==
  ASSUME TypeInvariant, ClaimsEnd, NEW n \in Nodes, Receive(n)
  PROVE  ClaimsEnd'
  <1> SUFFICES ASSUME NEW k \in Nodes, NEW r \in Runs, NEW p \in (Sent(k) \cup {0})', Claims(k, r, p)'
               PROVE  /\ run'[k][r] # "none"
                      /\ run'[k][r] = "stopped" => StopComes(k, r, p)'
                      /\ run'[k][r] = "gone" =>
                           BackComes(k, p)' \/ (p = 0 /\ (BackWaits(k)' \/ r \in doomed'))
    BY DEF ClaimsEnd
  <1>1. run' = run /\ doomed' = doomed
    BY DEF Receive, nodeVars
  <1>2. BackWaits(k) => BackWaits(k)'
    <2>1. CASE UNCHANGED waiting
      BY <2>1 DEF BackWaits
    <2>2. CASE wire[n][1] \in NodeMessages /\ waiting' = Append(waiting, wire[n][1])
      <3>1. waiting \in Seq(NodeMessages)
        BY DEF TypeInvariant
      <3>2. /\ Len(waiting') = Len(waiting) + 1 /\ Len(waiting) \in Nat
            /\ \A q \in 1 .. Len(waiting) : waiting'[q] = waiting[q]
        BY <2>2, <3>1, Appending
      <3> QED
        BY <3>2 DEF BackWaits
    <2> QED
      BY <2>1, <2>2, Received
  <1>3. \A w \in Nodes : Entered(r, w)' =>
           Entered(r, w) \/ (w = n /\ Claims(n, r, 1) /\ 1 \in Sent(n))
    <2>1. CASE UNCHANGED cached
      BY <2>1, SameCache, EntriesKept
    <2>2. ASSUME NEW s \in Runs, wire[n][1] \in RunEvents, wire[n][1].id = s,
                 wire[n][1].state = "stopped", RemoveTaskStatus({s}),
                 NEW w \in Nodes, Entered(r, w)'
          PROVE  Entered(r, w)
      <3>1. w \in Values /\ NoNode \in Values /\ w # NoNode /\ Write({s}, NoNode)
        BY <2>2, RegistryAssumption DEF Values, RemoveTaskStatus
      <3>2. Begins({s}, NoNode) /\ Decides({s}, NoNode)
        BY <2>2, <3>1, Begun, BegunEntries
      <3> QED
        BY <2>2, <3>1, <3>2 DEF Entered, Begins, Decides
    <2>3. ASSUME NEW s \in Runs, wire[n][1] \in RunEvents, wire[n][1].id = s,
                 wire[n][1].state # "stopped", AddTaskStatus(s, n),
                 NEW w \in Nodes, Entered(r, w)'
          PROVE  Entered(r, w) \/ (w = n /\ Claims(n, r, 1) /\ 1 \in Sent(n))
      <3>1. w \in Values /\ n \in Values /\ Write({s}, n)
        BY <2>3 DEF Values, AddTaskStatus
      <3>3. Begins({s}, n) /\ Decides({s}, n)
        BY <2>3, <3>1, Begun, BegunEntries
      <3>2. Entered(r, w) \/ (w = n /\ r = s)
        BY <2>3, <3>1, <3>3 DEF Entered, Begins, Decides
      <3> QED
        BY <2>3, <3>2, Received DEF Claims
    <2> QED
      BY <2>1, <2>2, <2>3, Received
  <1>4. wire[n][1] = RunEvent(r, "stopped") => \A w \in Nodes : ~ Entered(r, w)'
    <2> SUFFICES ASSUME wire[n][1] = RunEvent(r, "stopped"), NEW w \in Nodes, Entered(r, w)'
                 PROVE  FALSE
      OBVIOUS
    <2>1. wire[n][1] \in RunEvents /\ wire[n][1].id = r /\ wire[n][1].state = "stopped"
      BY MessageKinds
    <2>2. RemoveTaskStatus({r})
      BY <2>1, MessageKinds, Received
    <2>3. w \in Values /\ NoNode \in Values /\ w # NoNode /\ Write({r}, NoNode)
      BY <2>2, RegistryAssumption DEF Values, RemoveTaskStatus
    <2>4. Decides({r}, NoNode)
      BY <2>3, BegunEntries
    <2> QED
      BY <2>3, <2>4 DEF Entered, Decides
  <1>5. wire[n][1] = NodeMessage(n, "register") => BackWaits(n)'
    <2> SUFFICES ASSUME wire[n][1] = NodeMessage(n, "register") PROVE BackWaits(n)'
      OBVIOUS
    <2>1. wire[n][1] \in NodeMessages
      BY MessageKinds
    <2>2. waiting' = Append(waiting, wire[n][1])
      BY <2>1, MessageKinds, Received
    <2>3. waiting \in Seq(NodeMessages)
      BY DEF TypeInvariant
    <2>4. Len(waiting') = Len(waiting) + 1 /\ Len(waiting) \in Nat
          /\ waiting'[Len(waiting) + 1] = wire[n][1]
      BY <2>1, <2>2, <2>3, Appending
    <2> QED
      BY <2>4 DEF BackWaits
  <1>6. CASE k # n
    <2>1. wire'[k] = wire[k]
      BY <1>6, Arriving
    <2>2. Claims(k, r, p) /\ p \in Sent(k) \cup {0}
      BY <1>3, <1>6, <2>1 DEF Claims, Sent
    <2>3. /\ run[k][r] # "none"
          /\ run[k][r] = "stopped" => StopComes(k, r, p)
          /\ run[k][r] = "gone" => BackComes(k, p) \/ (p = 0 /\ (BackWaits(k) \/ r \in doomed))
      BY <2>2 DEF ClaimsEnd
    <2>4. (StopComes(k, r, p) <=> StopComes(k, r, p)') /\ (BackComes(k, p) <=> BackComes(k, p)')
      BY <2>1 DEF StopComes, BackComes, Sent
    <2> QED
      BY <1>1, <1>2, <2>3, <2>4
  <1>7. CASE k = n
    <2>1. /\ Len(wire[n]) \in Nat \ {0} /\ Sent(n)' = 1 .. Len(wire[n]) - 1
          /\ \A q \in Sent(n)' : wire'[n][q] = wire[n][q + 1]
          /\ p \in Nat
      BY <1>7, Arriving DEF Sent
    <2>2. PICK o \in Sent(n) \cup {0} :
            /\ Claims(n, r, o)
            /\ o = p + 1 \/ (o = 0 /\ p = 0)
            /\ p = 0 => Entered(r, n)'
      <3>1. CASE p # 0
        <4>1. p \in Sent(n)' /\ p + 1 \in Sent(n) /\ p + 1 # 0
          BY <1>7, <2>1, <3>1 DEF Sent
        <4>2. wire'[n][p] = wire[n][p + 1]
          BY <2>1, <4>1
        <4>3. Claims(n, r, p + 1)
          BY <1>7, <3>1, <4>1, <4>2 DEF Claims
        <4> QED
          BY <3>1, <4>1, <4>3
      <3>2. CASE p = 0
        <4>1. 0 \notin Sent(n)'
          BY DEF Sent
        <4>2. Entered(r, n)'
          BY <1>7, <3>2, <4>1 DEF Claims
        <4>3. CASE Entered(r, n)
          BY <3>2, <4>2, <4>3 DEF Claims
        <4>4. CASE Claims(n, r, 1) /\ 1 \in Sent(n)
          BY <3>2, <4>2, <4>4
        <4> QED
          BY <1>3, <4>2, <4>3, <4>4
      <3> QED
        BY <3>1, <3>2
    <2>3. /\ run[n][r] # "none"
          /\ run[n][r] = "stopped" => StopComes(n, r, o)
          /\ run[n][r] = "gone" => BackComes(n, o) \/ (o = 0 /\ (BackWaits(n) \/ r \in doomed))
      BY <2>2 DEF ClaimsEnd
    <2>4. \A q \in Sent(n) : q > o /\ q # 1 =>
             q - 1 \in Sent(n)' /\ q - 1 > p /\ wire'[n][q - 1] = wire[n][q]
      BY <2>1, <2>2 DEF Sent
    <2>5. \A q \in Sent(n) : q > o /\ q = 1 => p = 0 /\ Entered(r, n)'
      BY <2>1, <2>2
    <2>6. ASSUME run[n][r] = "stopped" PROVE StopComes(n, r, p)'
      <3>1. PICK q \in Sent(n) : q > o /\ wire[n][q] = RunEvent(r, "stopped")
        BY <2>3, <2>6 DEF StopComes
      <3>2. q # 1
        BY <1>4, <2>5, <3>1
      <3>3. q - 1 \in Sent(n)' /\ q - 1 > p /\ wire'[n][q - 1] = RunEvent(r, "stopped")
        BY <2>4, <3>1, <3>2
      <3> QED
        BY <3>3 DEF StopComes
    <2>7. ASSUME run[n][r] = "gone"
          PROVE  BackComes(n, p)' \/ (p = 0 /\ (BackWaits(n)' \/ r \in doomed'))
      <3>1. CASE o = 0 /\ (BackWaits(n) \/ r \in doomed)
        BY <1>1, <1>2, <1>7, <2>1, <2>2, <3>1
      <3>2. ASSUME NEW q \in Sent(n), q > o, wire[n][q] = NodeMessage(n, "register")
            PROVE  BackComes(n, p)' \/ (p = 0 /\ BackWaits(n)')
        <4>1. CASE q = 1
          BY <1>5, <2>5, <3>2, <4>1
        <4>2. CASE q # 1
          <5>1. q - 1 \in Sent(n)' /\ q - 1 > p /\ wire'[n][q - 1] = NodeMessage(n, "register")
            BY <2>4, <3>2, <4>2
          <5> QED
            BY <5>1 DEF BackComes
        <4> QED
          BY <4>1, <4>2
      <3> QED
        BY <2>3, <2>7, <3>1, <3>2 DEF BackComes
    <2> QED
      BY <1>1, <1>7, <2>3, <2>6, <2>7
  <1> QED
    BY <1>6, <1>7

\* The news of a node dooms what is listed of it.
LEMMA UpdateKeepsClaims ==
  ASSUME TypeInvariant, ClaimsEnd, OnNodeUpdate
  PROVE  ClaimsEnd'
  <1>1. /\ UNCHANGED <<nodeVars, wire, status, writes>> /\ crossed \subseteq crossed'
        /\ \A r \in Runs : Pending(r, Head(waiting).node) => r \in crossed'
    BY DEF OnNodeUpdate
  <1> USE RegistryAssumption DEF Values
  <1>2. /\ Len(waiting) \in Nat \ {0} /\ Len(waiting') = Len(waiting) - 1
        /\ \A q \in 1 .. Len(waiting) - 1 : waiting'[q] = waiting[q + 1]
        /\ Head(waiting) = waiting[1]
    BY Taking DEF OnNodeUpdate, TypeInvariant
  <1>3. doomed \subseteq doomed'
    BY DEF OnNodeUpdate
  <1>4. ASSUME NEW n \in Nodes, NEW r \in Runs, Entered(r, n)', BackWaits(n)
        PROVE  BackWaits(n)' \/ r \in doomed'
    <2>1. PICK q \in 1 .. Len(waiting) : waiting[q] = NodeMessage(n, "register")
      BY <1>4 DEF BackWaits
    <2>2. CASE q = 1
      <3>1. Head(waiting).node = n /\ Head(waiting).state = "register"
        BY <1>2, <2>1, <2>2 DEF NodeMessage
      <3>2. status[r] = n
        <4>1. r \notin crossed' /\ Will(r, n) /\ ~ Pending(r, n)
          BY <1>1, <1>4, <3>1 DEF Entered, Will, Pending
        <4> QED
          BY <4>1 DEF Will
      <3> QED
        BY <3>1, <3>2 DEF OnNodeUpdate, Concerns
    <2>3. CASE q # 1
      <3>1. q - 1 \in 1 .. Len(waiting') /\ waiting'[q - 1] = NodeMessage(n, "register")
        BY <1>2, <2>1, <2>3
      <3> QED
        BY <3>1 DEF BackWaits
    <2> QED
      BY <2>2, <2>3
  <1>5. \A n \in Nodes, r \in Runs : \A p \in Sent(n) \cup {0} :
           /\ Claims(n, r, p)' => Claims(n, r, p)
           /\ StopComes(n, r, p)' <=> StopComes(n, r, p)
           /\ BackComes(n, p)' <=> BackComes(n, p)
           /\ Sent(n)' = Sent(n) /\ run'[n][r] = run[n][r]
           /\ Claims(n, r, p)' /\ p = 0 => Entered(r, n)'
    <2>1. \A n \in Nodes, r \in Runs : Entered(r, n)' => Entered(r, n)
      BY <1>1 DEF Entered, Will, Pending
    <2> QED
      BY <1>1, <2>1 DEF Claims, StopComes, BackComes, Sent, nodeVars
  <1> QED
    BY <1>3, <1>4, <1>5 DEF ClaimsEnd

\* Removing runs only takes claims back.
LEMMA RemoveKeepsClaims ==
  ASSUME TypeInvariant, ClaimsEnd, NEW runs \in SUBSET Runs, RemoveTaskStatus(runs),
         UNCHANGED <<nodeVars, wire, waiting>>, doomed \subseteq doomed' \cup runs
  PROVE  ClaimsEnd'
  <1>1. \A n \in Nodes, r \in Runs : \A p \in Sent(n) \cup {0} :
           /\ Claims(n, r, p)' => Claims(n, r, p) /\ (p = 0 => r \notin runs)
           /\ StopComes(n, r, p)' <=> StopComes(n, r, p)
           /\ BackComes(n, p)' <=> BackComes(n, p)
           /\ BackWaits(n)' <=> BackWaits(n)
           /\ Sent(n)' = Sent(n) /\ run'[n][r] = run[n][r]
    <2>1. ASSUME NEW n \in Nodes, NEW r \in Runs, Entered(r, n)'
          PROVE  Entered(r, n) /\ r \notin runs
      <3>1. n \in Values /\ NoNode \in Values /\ n # NoNode /\ Write(runs, NoNode)
        BY RegistryAssumption DEF Values, RemoveTaskStatus
      <3>2. Begins(runs, NoNode) /\ Decides(runs, NoNode)
        BY <3>1, Begun, BegunEntries
      <3> QED
        BY <2>1, <3>1, <3>2 DEF Entered, Begins, Decides
    <2> QED
      BY <2>1 DEF Claims, StopComes, BackComes, BackWaits, Sent, nodeVars
  <1> QED
    BY <1>1 DEF ClaimsEnd

LEMMA ClaimsEndKept ==
  ASSUME TypeInvariant, Single, ClaimsEnd, [Next]_vars
  PROVE  ClaimsEnd'
  <1>1. ASSUME NEW n \in Nodes, NEW r \in Runs, Begin(n, r) \/ Step(n, r) \/ Finish(n, r)
        PROVE  ClaimsEnd'
    <2>1. /\ SameEntries /\ UNCHANGED <<waiting, doomed>>
          /\ \A k \in Nodes \ {n} : run'[k] = run[k]
          /\ \A s \in Runs \ {r} : run'[n][s] = run[n][s]
      BY <1>1, SameCache DEF Begin, Step, Finish, Becomes, TypeInvariant, registryVars
    <2>2. CASE Begin(n, r) \/ Step(n, r)
      <3>1. PICK state \in Active : Post(n, RunEvent(r, state)) /\ run'[n][r] = state
        BY <2>2 DEF Begin, Step, Becomes, Active, TypeInvariant
      <3>2. RunEvent(r, state) \in Message /\ RunEvent(r, state).id = r
            /\ RunEvent(r, state).state = state
        BY <3>1, MessageKinds DEF Message, Active
      <3> QED
        BY <2>1, <3>1, <3>2, PostKeepsClaims DEF Active
    <2>3. CASE Finish(n, r)
      <3>1. Post(n, RunEvent(r, "stopped")) /\ run'[n][r] = "stopped"
        BY <2>3 DEF Finish, Becomes, TypeInvariant
      <3>2. RunEvent(r, "stopped") \in Message /\ RunEvent(r, "stopped").id = r
            /\ RunEvent(r, "stopped").state = "stopped"
        BY MessageKinds DEF Message
      <3> QED
        BY <2>1, <3>1, <3>2, PostKeepsClaims
    <2> QED
      BY <1>1, <2>2, <2>3
  <1>2. ASSUME NEW n \in Nodes, NEW r \in Runs, Hang(n, r) PROVE ClaimsEnd'
    <2>1. SameEntries /\ UNCHANGED <<wire, waiting, doomed>>
      BY <1>2, SameCache DEF Hang, registryVars
    <2>2. \A k \in Nodes, s \in Runs :
             /\ run[k][s] # "none" => run'[k][s] # "none"
             /\ run'[k][s] \in {"stopped", "gone"} => run'[k][s] = run[k][s]
      BY <1>2 DEF Hang, Becomes, TypeInvariant
    <2> QED
      BY <2>1, <2>2, SameMessages
  <1>3. ASSUME NEW n \in Nodes, End(n) PROVE ClaimsEnd'
    <2>1. SameEntries /\ UNCHANGED <<wire, waiting, doomed>>
      BY <1>3, SameCache DEF End, registryVars
    <2>2. \A k \in Nodes, s \in Runs :
             /\ run[k][s] # "none" => run'[k][s] # "none"
             /\ run'[k][s] \in {"stopped", "gone"} => run'[k][s] = run[k][s]
      BY <1>3 DEF End, TypeInvariant
    <2> QED
      BY <2>1, <2>2, SameMessages
  <1>4. ASSUME NEW n \in Nodes, Leave(n) PROVE ClaimsEnd'
    <2>1. /\ NodeMessage(n, "unregister") \in Message
          /\ NodeMessage(n, "unregister") \notin RunEvents
      BY MessageKinds DEF Message
    <2> QED
      BY <1>4, <2>1, PostKeepsClaims, SameCache DEF Leave, registryVars
  <1>5. ASSUME NEW n \in Nodes, Restart(n) PROVE ClaimsEnd'
    <2>1. /\ NodeMessage(n, "register") \in Message
          /\ NodeMessage(n, "register") \notin RunEvents
      BY MessageKinds DEF Message
    <2>2. /\ \A k \in Nodes \ {n} : run'[k] = run[k]
          /\ \A r \in Runs :
                /\ run[n][r] # "none" => run'[n][r] # "none"
                /\ run'[n][r] = "stopped" => run[n][r] = "stopped"
      BY <1>5 DEF Restart, TypeInvariant
    <2>3. Post(n, NodeMessage(n, "register")) /\ SameEntries /\ UNCHANGED <<waiting, doomed>>
      BY <1>5, SameCache DEF Restart, registryVars
    <2> QED
      BY <2>1, <2>2, <2>3, PostKeepsClaims
  <1>6. ASSUME NEW n \in Nodes, Receive(n) PROVE ClaimsEnd'
    BY <1>6, ReceiveKeepsClaims
  <1>7. ASSUME OnNodeUpdate PROVE ClaimsEnd'
    BY <1>7, UpdateKeepsClaims
  <1>8. ASSUME RemoveFound PROVE ClaimsEnd'
    BY <1>8, RemoveKeepsClaims DEF RemoveFound, TypeInvariant
  <1>9. ASSUME NEW r \in Runs, Cleanup(r) PROVE ClaimsEnd'
    BY <1>9, RemoveKeepsClaims DEF Cleanup
  <1>11. ASSUME NEW r \in Runs, NEW v \in Values, Written(r, v) PROVE ClaimsEnd'
    <2>1. SameEntries
      BY <1>11, DoneEntries
    <2>2. UNCHANGED <<run, wire, waiting, doomed>>
      BY <1>11 DEF Written, nodeVars
    <2> QED
      BY <2>1, <2>2, SameMessages
  <1>10. ASSUME UNCHANGED vars PROVE ClaimsEnd'
    <2>1. SameEntries /\ UNCHANGED <<run, wire, waiting, doomed>>
      BY <1>10, SameCache DEF vars, nodeVars, registryVars
    <2> QED
      BY <2>1, SameMessages
  <1> QED
    BY <1>1, <1>2, <1>3, <1>4, <1>5, <1>6, <1>7, <1>8, <1>9, <1>10, <1>11 DEF Next

-----------------------------------------------------------------------------
\* Places, names

LEMMA RunsAtTargetsKept ==
  ASSUME TypeInvariant, RunsAtTargets, [Next]_vars
  PROVE  RunsAtTargets'
  <1>1. ASSUME NEW n \in Nodes, NEW r \in Runs, Begin(n, r) \/ Step(n, r) \/ Finish(n, r) \/ Hang(n, r)
        PROVE  RunsAtTargets'
    <2>1. \A k \in Nodes, s \in Runs : <<k, s>> # <<n, r>> => run'[k][s] = run[k][s]
      BY <1>1 DEF Begin, Step, Finish, Hang, Becomes, TypeInvariant
    <2>2. n \in Targets[r]
      <3>1. CASE Begin(n, r)
        BY <3>1 DEF Begin
      <3>2. CASE Step(n, r) \/ Finish(n, r) \/ Hang(n, r)
        <4>1. run[n][r] \in Active
          BY <3>2 DEF Step, Finish, Hang
        <4> QED
          BY <4>1 DEF Active, RunsAtTargets
      <3> QED
        BY <1>1, <3>1, <3>2
    <2> QED
      BY <2>1, <2>2 DEF RunsAtTargets
  <1>2. ASSUME NEW n \in Nodes, End(n) \/ Restart(n) PROVE RunsAtTargets'
    <2>1. \A k \in Nodes, s \in Runs : run'[k][s] # "none" => run[k][s] # "none"
      <3>1. CASE End(n)
        BY <3>1 DEF End, Active, TypeInvariant
      <3>2. CASE Restart(n)
        BY <3>2 DEF Restart, TypeInvariant
      <3> QED
        BY <1>2, <3>1, <3>2
    <2> QED
      BY <2>1 DEF RunsAtTargets
  <1>3. CASE UNCHANGED run
    BY <1>3 DEF RunsAtTargets
  <1>4. ASSUME NEW n \in Nodes, Leave(n) \/ Receive(n) PROVE UNCHANGED run
    BY <1>4 DEF Leave, Receive, nodeVars
  <1>5. ASSUME OnNodeUpdate \/ RemoveFound \/ \E r \in Runs : Cleanup(r) \/ \E v \in Values : Written(r, v)
        PROVE  UNCHANGED run
    BY <1>5 DEF OnNodeUpdate, RemoveFound, Cleanup, Written, nodeVars
  <1> QED
    BY <1>1, <1>2, <1>3, <1>4, <1>5 DEF Next, vars, nodeVars

\* Only what a node has told of a run is written.
LEMMA EntriesAtTargetsKept ==
  ASSUME TypeInvariant, ClaimsEnd, RunsAtTargets, EntriesAtTargets, [Next]_vars
  PROVE  EntriesAtTargets'
  <1> USE RegistryAssumption
  <1>1. CASE UNCHANGED <<status, writes>>
    BY <1>1 DEF EntriesAtTargets, Pending
  <1>2. ASSUME NEW runs \in SUBSET Runs, RemoveTaskStatus(runs) PROVE EntriesAtTargets'
    <2>1. Write(runs, NoNode)
      BY <1>2 DEF RemoveTaskStatus
    <2>2. Begins(runs, NoNode)
      BY <2>1, Begun DEF Values
    <2> QED
      BY <2>2 DEF EntriesAtTargets, Begins, Values
  <1>3. ASSUME NEW n \in Nodes, NEW r \in Runs, wire[n][1] \in RunEvents, wire[n][1].id = r,
               wire[n][1].state # "stopped", 1 \in Sent(n), AddTaskStatus(r, n)
        PROVE  EntriesAtTargets'
    <2>1. Write({r}, n)
      BY <1>3 DEF AddTaskStatus
    <2>2. Begins({r}, n)
      BY <2>1, Begun DEF Values
    <2>3. Claims(n, r, 1)
      BY <1>3 DEF Claims
    <2>4. n \in Targets[r]
      BY <1>3, <2>3 DEF ClaimsEnd, RunsAtTargets
    <2> QED
      BY <2>2, <2>4 DEF EntriesAtTargets, Begins, Values
  <1>4. ASSUME NEW n \in Nodes, Receive(n) PROVE EntriesAtTargets'
    BY <1>1, <1>2, <1>3, <1>4, Received DEF cached
  <1>5. ASSUME NEW r \in Runs, NEW v \in Values, Written(r, v) PROVE EntriesAtTargets'
    <2> SUFFICES ASSUME NEW q \in Runs, NEW n \in Nodes, Pending(q, n)' \/ status'[q] = n
                 PROVE  Pending(q, n) \/ status[q] = n
      BY DEF EntriesAtTargets
    <2> QED
      BY <1>5, Done DEF Values
  <1>6. ASSUME RemoveFound \/ \E r \in Runs : Cleanup(r) PROVE EntriesAtTargets'
    BY <1>2, <1>6 DEF RemoveFound, Cleanup, TypeInvariant
  <1>7. ASSUME NEW n \in Nodes, NEW r \in Runs,
               Begin(n, r) \/ Step(n, r) \/ Finish(n, r) \/ Hang(n, r)
        PROVE  UNCHANGED <<status, writes>>
    BY <1>7 DEF Begin, Step, Finish, Hang, registryVars, cached
  <1>8. ASSUME NEW n \in Nodes, Leave(n) \/ End(n) \/ Restart(n) PROVE UNCHANGED <<status, writes>>
    BY <1>8 DEF Leave, End, Restart, registryVars, cached
  <1>9. ASSUME OnNodeUpdate \/ UNCHANGED vars PROVE UNCHANGED <<status, writes>>
    BY <1>9 DEF OnNodeUpdate, vars, registryVars, cached
  <1> QED
    BY <1>1, <1>4, <1>5, <1>6, <1>7, <1>8, <1>9 DEF Next

\* A write of another value crosses those under way.
LEMMA SingleKept ==
  ASSUME TypeInvariant, Single, [Next]_vars
  PROVE  Single'
  <1> USE RegistryAssumption
  <1>1. CASE UNCHANGED writes /\ crossed \subseteq crossed'
    BY <1>1 DEF Single, Pending
  <1>2. ASSUME NEW runs \in SUBSET Runs, NEW x \in Values, Write(runs, x) PROVE Single'
    <2> SUFFICES ASSUME NEW r \in Runs \ crossed', NEW v \in Values, NEW w \in Values,
                        Pending(r, v)', Pending(r, w)'
                 PROVE  v = w
      BY DEF Single
    <2>3. Begins(runs, x)
      BY <1>2, Begun
    <2>1. CASE r \in runs
      BY <2>1, <2>3 DEF Begins
    <2>2. CASE r \notin runs
      <3>1. r \notin crossed /\ Pending(r, v) /\ Pending(r, w)
        BY <2>2, <2>3 DEF Begins
      <3> QED
        BY <3>1 DEF Single
    <2> QED
      BY <2>1, <2>2
  <1>3. ASSUME NEW n \in Nodes, Receive(n) PROVE Single'
    BY <1>1, <1>2, <1>3, Received DEF cached, RemoveTaskStatus, AddTaskStatus, Values
  <1>4. ASSUME NEW r \in Runs, NEW v \in Values, Written(r, v) PROVE Single'
    <2>1. crossed' = crossed
      BY <1>4 DEF Written
    <2> QED
      BY <1>4, <2>1, Done DEF Single
  <1>5. ASSUME RemoveFound \/ \E r \in Runs : Cleanup(r) PROVE Single'
    BY <1>2, <1>5 DEF RemoveFound, Cleanup, RemoveTaskStatus, TypeInvariant, Values
  <1>6. ASSUME NEW n \in Nodes, NEW r \in Runs, Begin(n, r) \/ Step(n, r) \/ Finish(n, r) \/ Hang(n, r)
        PROVE  Single'
    BY <1>1, <1>6 DEF Begin, Step, Finish, Hang, registryVars, cached
  <1>7. ASSUME NEW n \in Nodes, Leave(n) \/ End(n) \/ Restart(n) PROVE Single'
    BY <1>1, <1>7 DEF Leave, End, Restart, registryVars, cached
  <1>8. ASSUME OnNodeUpdate \/ UNCHANGED vars PROVE Single'
    BY <1>1, <1>8 DEF OnNodeUpdate, vars, registryVars, cached
  <1> QED
    BY <1>3, <1>4, <1>5, <1>6, <1>7, <1>8 DEF Next

LEMMA NamesFollowKept ==
  ASSUME TypeInvariant, Single, NamesFollow, [Next]_vars
  PROVE  NamesFollow'
  <1> USE RegistryAssumption
  <1>1. ASSUME NEW n \in Nodes, NEW m \in Message, Post(n, m), UNCHANGED cached,
               \A r \in Runs : (r \in names' <=> r \in names)
                                \/ (n = Here /\ m \in RunEvents /\ m.id = r)
        PROVE  NamesFollow'
    <2> SUFFICES ASSUME NEW r \in Runs, ~ Agrees(r)' PROVE OnItsWay(r)'
      BY DEF NamesFollow
    <2>2. CASE ~ (r \in names' <=> r \in names)
      <3>1. /\ n = Here /\ m \in RunEvents /\ m.id = r
            /\ Len(wire[Here]) + 1 \in Sent(Here)' /\ wire'[Here][Len(wire[Here]) + 1] = m
        BY <1>1, <2>2, Posting DEF Sent
      <3> QED
        BY <3>1 DEF OnItsWay
    <2>3. CASE r \in names' <=> r \in names
      <3>1. PICK p \in Sent(Here) : wire[Here][p] \in RunEvents /\ wire[Here][p].id = r
        <4>1. ~ Agrees(r)
          BY <1>1, <2>3, SameCache DEF Agrees, SameEntries, Values
        <4> QED
          BY <4>1 DEF NamesFollow, OnItsWay
      <3>2. p \in Sent(Here)' /\ wire'[Here][p] = wire[Here][p]
        BY <1>1, Posting DEF Sent
      <3> QED
        BY <3>1, <3>2 DEF OnItsWay
    <2> QED
      BY <2>2, <2>3
  <1>2. ASSUME NEW n \in Nodes, NEW r \in Runs, Begin(n, r) \/ Step(n, r) \/ Finish(n, r)
        PROVE  NamesFollow'
    <2>1. \E s \in {"started", "running", "stopped"} : Post(n, RunEvent(r, s))
      BY <1>2 DEF Begin, Step, Finish
    <2>2. /\ UNCHANGED cached
          /\ \A k \in Runs : (k \in names' <=> k \in names) \/ (n = Here /\ k = r)
      BY <1>2 DEF Begin, Step, Finish, registryVars
    <2>3. \A s \in {"started", "running", "stopped"} :
             RunEvent(r, s) \in Message /\ RunEvent(r, s) \in RunEvents /\ RunEvent(r, s).id = r
      BY MessageKinds DEF Message
    <2> QED
      BY <1>1, <2>1, <2>2, <2>3
  <1>3. ASSUME NEW n \in Nodes, Leave(n) \/ Restart(n) PROVE NamesFollow'
    <2>1. \E m \in Message : Post(n, m)
      BY <1>3, MessageKinds DEF Leave, Restart, Message
    <2>2. UNCHANGED <<cached, names>>
      BY <1>3 DEF Leave, Restart, registryVars
    <2> QED
      BY <1>1, <2>1, <2>2
  <1>4. ASSUME NEW n \in Nodes, Receive(n) PROVE NamesFollow'
    <2> SUFFICES ASSUME NEW r \in Runs, ~ Agrees(r)' PROVE OnItsWay(r)'
      BY DEF NamesFollow
    <2>1. ASSUME NEW s \in Runs, RemoveTaskStatus({s}) \/ AddTaskStatus(s, n)
          PROVE  s # r /\ ~ Agrees(r)
      <3>1. CASE RemoveTaskStatus({s})
        <4>1. NoNode \in Values /\ Write({s}, NoNode) /\ names' = names \ {s}
          BY <3>1 DEF RemoveTaskStatus, Values
        <4>2. Begins({s}, NoNode) /\ Decides({s}, NoNode)
          BY <3>1, <4>1, Begun, BegunEntries
        <4> QED
          BY <4>1, <4>2 DEF Agrees, Begins, Decides
      <3>2. CASE AddTaskStatus(s, n)
        <4>1. /\ n \in Values /\ NoNode \in Values /\ n # NoNode
              /\ Write({s}, n) /\ names' = names \cup {s}
          BY <1>4, <3>2 DEF AddTaskStatus, Values
        <4>2. Begins({s}, n) /\ Decides({s}, n)
          BY <3>2, <4>1, Begun, BegunEntries
        <4> QED
          BY <4>1, <4>2 DEF Agrees, Begins, Decides
      <3> QED
        BY <2>1, <3>1, <3>2
    <2>3. ~ Agrees(r) /\ (wire[n][1] \in RunEvents => wire[n][1].id # r)
      <3>1. CASE UNCHANGED <<cached, names>> /\ wire[n][1] \in NodeMessages
        <4>1. wire[n][1] \notin RunEvents
          BY <3>1, MessageKinds
        <4>2. ~ Agrees(r)
          BY <3>1, SameCache DEF Agrees, SameEntries, Values
        <4> QED
          BY <4>1, <4>2
      <3>2. ASSUME NEW s \in Runs, wire[n][1].id = s, RemoveTaskStatus({s}) \/ AddTaskStatus(s, n)
            PROVE  ~ Agrees(r) /\ wire[n][1].id # r
        BY <2>1, <3>2
      <3> QED
        BY <1>4, <3>1, <3>2, Received
    <2>4. PICK p \in Sent(Here) : wire[Here][p] \in RunEvents /\ wire[Here][p].id = r
      BY <2>3 DEF NamesFollow, OnItsWay
    <2>5. CASE n # Here
      BY <1>4, <2>4, <2>5, Arriving DEF OnItsWay, Sent
    <2>6. CASE n = Here
      <3>1. p # 1
        BY <2>3, <2>4, <2>6
      <3>2. p - 1 \in Sent(Here)' /\ wire'[Here][p - 1] = wire[Here][p]
        BY <1>4, <2>6, <3>1, Arriving DEF Sent
      <3> QED
        BY <2>4, <3>2 DEF OnItsWay
    <2> QED
      BY <2>5, <2>6
  <1>5. ASSUME NEW runs \in SUBSET Runs, RemoveTaskStatus(runs), UNCHANGED wire PROVE NamesFollow'
    <2>1. NoNode \in Values /\ Write(runs, NoNode) /\ names' = names \ runs
      BY <1>5 DEF RemoveTaskStatus, Values
    <2>4. Begins(runs, NoNode) /\ Decides(runs, NoNode)
      BY <2>1, Begun, BegunEntries
    <2>2. \A r \in Runs : Agrees(r) => Agrees(r)'
      BY <2>1, <2>4 DEF Agrees, Begins, Decides
    <2>3. \A r \in Runs : OnItsWay(r)' <=> OnItsWay(r)
      BY <1>5 DEF OnItsWay, Sent
    <2> QED
      BY <2>2, <2>3 DEF NamesFollow
  <1>6. ASSUME SameEntries, UNCHANGED <<wire, names>> PROVE NamesFollow'
    <2>1. \A r \in Runs : Agrees(r) => Agrees(r)'
      BY <1>6 DEF SameEntries, Agrees, Values
    <2>2. \A r \in Runs : OnItsWay(r)' <=> OnItsWay(r)
      BY <1>6 DEF OnItsWay, Sent
    <2> QED
      BY <2>1, <2>2 DEF NamesFollow
  <1>7. ASSUME NEW n \in Nodes, NEW r \in Runs, Hang(n, r) PROVE NamesFollow'
    BY <1>6, <1>7, SameCache DEF Hang, registryVars
  <1>8. ASSUME NEW n \in Nodes, End(n) PROVE NamesFollow'
    BY <1>6, <1>8, SameCache DEF End, registryVars
  <1>9. ASSUME RemoveFound \/ \E r \in Runs : Cleanup(r) PROVE NamesFollow'
    BY <1>5, <1>9 DEF RemoveFound, Cleanup, TypeInvariant
  <1>10. ASSUME OnNodeUpdate PROVE NamesFollow'
    <2>1. /\ UNCHANGED <<wire, status, writes, names>> /\ crossed \subseteq crossed'
      BY <1>10 DEF OnNodeUpdate
    <2>2. SameEntries
      BY <2>1 DEF SameEntries, Will, Pending
    <2> QED
      BY <1>6, <2>1, <2>2
  <1>11. ASSUME NEW r \in Runs, NEW v \in Values, Written(r, v) PROVE NamesFollow'
    BY <1>6, <1>11, DoneEntries DEF Written
  <1>12. ASSUME UNCHANGED vars PROVE NamesFollow'
    BY <1>6, <1>12, SameCache DEF vars, registryVars
  <1> QED
    BY <1>2, <1>3, <1>4, <1>7, <1>8, <1>9, <1>10, <1>11, <1>12 DEF Next

-----------------------------------------------------------------------------
\* Theorems

\* The inductive invariant of the registry: an ended run is only claimed by what a later
\* message takes back, and the name of a run differs from what its status will be only
\* while the runner here has something to say.  What the status will be is known for the
\* runs whose writes have not crossed: all that are under way write the same.
THEOREM RegistryInvariant == Spec => []RegistryInv
  <1>1. Init => RegistryInv
    <2> SUFFICES ASSUME Init PROVE RegistryInv
      OBVIOUS
    <2>1. TypeInvariant
      <3>1. <<>> \in Seq(RunEvents \cup NodeMessages) /\ <<>> \in Seq(NodeMessages)
        OBVIOUS
      <3>2. \A n \in Nodes : starts[n] \in 1..MaxStarts
        BY RegistryAssumption DEF Init
      <3>3. [r \in Runs |-> "none"] \in [Runs -> Places] /\ [r \in Runs |-> 0] \in [Runs -> 0..MaxSteps]
        BY RegistryAssumption DEF Places
      <3>4. [r \in Runs |-> [v \in Values |-> 0]] \in [Runs -> [Values -> Nat]]
            /\ [r \in Runs |-> NoNode] \in [Runs -> Values]
        BY DEF Values
      <3> QED
        BY <3>1, <3>2, <3>3, <3>4 DEF Init, TypeInvariant
    <2>2. \A n \in Nodes : Sent(n) = {}
      BY DEF Init, Sent
    <2>5. \A r \in Runs, v \in Values : ~ Pending(r, v)
      BY DEF Init, Pending
    <2>3. ClaimsEnd
      <3>1. \A r \in Runs, n \in Nodes : ~ Entered(r, n)
        BY <2>5, RegistryAssumption DEF Init, Entered, Will
      <3> QED
        BY <2>2, <3>1 DEF ClaimsEnd, Claims
    <2>4. RunsAtTargets /\ NamesFollow
      BY <2>5 DEF Init, RunsAtTargets, NamesFollow, Agrees, Will
    <2>6. Single /\ EntriesAtTargets
      BY <2>5, RegistryAssumption DEF Init, Single, EntriesAtTargets, Values
    <2> QED
      BY <2>1, <2>3, <2>4, <2>6 DEF RegistryInv
  <1>2. RegistryInv /\ [Next]_vars => RegistryInv'
    BY Typed, SingleKept, ClaimsEndKept, RunsAtTargetsKept, EntriesAtTargetsKept, NamesFollowKept
    DEF RegistryInv
  <1> QED
    BY <1>1, <1>2, PTL DEF Spec

\* When nothing is being written, a status is what it will be.
LEMMA QuietEntries ==
  ASSUME Quiet
  PROVE  \A r \in Runs, v \in Values : Will(r, v) <=> status[r] = v
  BY DEF Quiet, Will

\* Name and status of a run agree once all is dealt with.
LEMMA QuietAgrees ==
  ASSUME RegistryInv, Quiet, NEW r \in Runs \ crossed
  PROVE  r \in names <=> r \in Listed
  <1>1. Sent(Here) = {}
    BY RegistryAssumption DEF Quiet, Sent
  <1>2. r \in names <=> ~ Will(r, NoNode)
    BY <1>1 DEF RegistryInv, NamesFollow, Agrees, OnItsWay
  <1>3. Will(r, NoNode) <=> status[r] = NoNode
    BY QuietEntries DEF Values
  <1> QED
    BY <1>2, <1>3 DEF Listed

\* Once everything posted and written has been dealt with, no run is listed that has ended
\* or been dropped, unless its writes crossed (onTaskRunnerEvent, onNodeUpdate), for any
\* number of nodes, restarts and runs.
THEOREM NoPhantomRuns == Spec => []NoPhantoms
  <1>1. RegistryInv => NoPhantoms
    <2> SUFFICES ASSUME RegistryInv, Quiet, NEW r \in Runs \ crossed, r \in Listed \cup names
                 PROVE  \E n \in Targets[r] : run[n][r] \in Active \cup {"hung", "lost"}
      BY DEF NoPhantoms, Listed, RegistryInv, TypeInvariant
    <2>1. status[r] \in Nodes
      BY QuietAgrees DEF Listed, RegistryInv, TypeInvariant, Values
    <2>2. Claims(status[r], r, 0)
      BY <2>1, QuietEntries DEF Claims, Entered, Values
    <2>3. Sent(status[r]) = {} /\ ~ BackWaits(status[r]) /\ doomed = {}
      BY <2>1 DEF Quiet, Sent, BackWaits
    <2>4. run[status[r]][r] \notin {"none", "stopped", "gone"}
      BY <2>1, <2>2, <2>3 DEF RegistryInv, ClaimsEnd, StopComes, BackComes
    <2>5. run[status[r]][r] \in Places
      BY <2>1 DEF RegistryInv, TypeInvariant
    <2>6. status[r] \in Targets[r]
      BY <2>1, <2>4 DEF RegistryInv, RunsAtTargets
    <2> QED
      BY <2>4, <2>5, <2>6 DEF Places
  <1> QED
    BY <1>1, RegistryInvariant, PTL

\* Once everything posted and written has been dealt with, the names that are counted for
\* the limit are those of the runs that are listed, but for those whose writes crossed
\* (addLocalRunner, addTaskStatus and their counterparts).
THEOREM CountsFollowList == Spec => []CountsAgree
  <1>1. RegistryInv => CountsAgree
    <2> SUFFICES ASSUME RegistryInv, Quiet PROVE names \ crossed = Listed \ crossed
      BY DEF CountsAgree
    <2>1. \A r \in Runs \ crossed : r \in names <=> r \in Listed
      BY QuietAgrees
    <2>2. names \subseteq Runs /\ Listed \subseteq Runs
      BY DEF RegistryInv, TypeInvariant, Listed
    <2> QED
      BY <2>1, <2>2
  <1> QED
    BY <1>1, RegistryInvariant, PTL

-----------------------------------------------------------------------------
\* The abstract specification

\* The elements of a sequence.
Elements(s) == {s[i] : i \in DOMAIN s}

LEMMA AppendAdds ==
  ASSUME NEW S, NEW s \in Seq(S), NEW e \in S
  PROVE  Elements(Append(s, e)) = Elements(s) \cup {e}
  <1> DEFINE t == Append(s, e)
  <1>1. /\ DOMAIN s = 1 .. Len(s) /\ DOMAIN t = 1 .. Len(s) + 1 /\ Len(s) \in Nat
        /\ \A i \in 1 .. Len(s) : t[i] = s[i]
        /\ t[Len(s) + 1] = e
    BY Appending
  <1> HIDE DEF t
  <1>2. Elements(s) \cup {e} \subseteq Elements(t)
    BY <1>1 DEF Elements
  <1>3. Elements(t) \subseteq Elements(s) \cup {e}
    BY <1>1 DEF Elements
  <1> QED
    BY <1>2, <1>3 DEF t

LEMMA TailLeaves ==
  ASSUME NEW S, NEW s \in Seq(S), s # <<>>
  PROVE  Elements(s) = Elements(Tail(s)) \cup {s[1]}
  <1> DEFINE t == Tail(s)
  <1>1. /\ Len(s) \in Nat \ {0} /\ t \in Seq(S) /\ Len(t) = Len(s) - 1
        /\ \A i \in 1 .. Len(s) - 1 : t[i] = s[i + 1]
    BY Taking
  <1>2. DOMAIN s = 1 .. Len(s) /\ DOMAIN t = 1 .. Len(t)
    BY <1>1
  <1> HIDE DEF t
  <1>3. \A i \in DOMAIN s : i = 1 \/ (i - 1 \in DOMAIN t /\ t[i - 1] = s[i])
    BY <1>1, <1>2
  <1>4. \A i \in DOMAIN t : i + 1 \in DOMAIN s /\ t[i] = s[i + 1]
    BY <1>1, <1>2
  <1>5. Elements(s) \subseteq Elements(t) \cup {s[1]}
    BY <1>3 DEF Elements
  <1>6. Elements(t) \cup {s[1]} \subseteq Elements(s)
    <2>1. 1 \in DOMAIN s
      BY <1>1, <1>2
    <2> QED
      BY <1>4, <2>1 DEF Elements
  <1> QED
    BY <1>5, <1>6 DEF t

\* What is posted is on the wire besides what was there.
LEMMA OnWirePosted ==
  ASSUME TypeInvariant, NEW n \in Nodes, NEW m \in Message, Post(n, m)
  PROVE  OnWire' = OnWire \cup {m}
  <1>1. OnWire = UNION {Elements(wire[k]) : k \in Nodes}
        /\ OnWire' = UNION {Elements(wire'[k]) : k \in Nodes}
    BY DEF OnWire, Elements
  <1>2. wire'[n] = Append(wire[n], m) /\ \A k \in Nodes \ {n} : wire'[k] = wire[k]
    BY DEF Post, TypeInvariant
  <1>3. wire[n] \in Seq(Message)
    BY DEF TypeInvariant, Message
  <1>4. Elements(wire'[n]) = Elements(wire[n]) \cup {m}
    BY <1>2, <1>3, AppendAdds
  <1> QED
    BY <1>1, <1>2, <1>4

\* What is received has been on the wire; the rest stays.
LEMMA OnWireReceived ==
  ASSUME TypeInvariant, NEW n \in Nodes, Receive(n)
  PROVE  OnWire = OnWire' \cup {wire[n][1]}
  <1>1. OnWire = UNION {Elements(wire[k]) : k \in Nodes}
        /\ OnWire' = UNION {Elements(wire'[k]) : k \in Nodes}
    BY DEF OnWire, Elements
  <1>2. wire[n] # <<>> /\ wire[n] \in Seq(Message)
    BY Received DEF TypeInvariant, Message
  <1>3. wire'[n] = Tail(wire[n]) /\ \A k \in Nodes \ {n} : wire'[k] = wire[k]
    BY Received DEF TypeInvariant
  <1>4. Elements(wire[n]) = Elements(wire'[n]) \cup {wire[n][1]}
    BY <1>2, <1>3, TailLeaves
  <1> QED
    BY <1>1, <1>3, <1>4

\* A run that is listed goes on, an event of it, a removal or news of a node it may be at
\* is under way, or its writes crossed.
AllConcerned == Listed \subseteq Going \cup Told \cup Moved \cup crossed

LEMMA ListedConcerned ==
  ASSUME RegistryInv
  PROVE  AllConcerned
  <1> SUFFICES ASSUME NEW r \in Runs \ crossed, status[r] \in Nodes, r \notin Going,
                      \A v \in Values : ~ Pending(r, v)
               PROVE  r \in Told \cup Moved
    BY DEF AllConcerned, Listed, RegistryInv, TypeInvariant, Told, Moved, Values
  <1> DEFINE n == status[r]
  <1>1. /\ run[n][r] # "none"
        /\ run[n][r] = "stopped" => StopComes(n, r, 0)
        /\ run[n][r] = "gone" => BackComes(n, 0) \/ BackWaits(n) \/ r \in doomed
    <2>1. Claims(n, r, 0)
      BY DEF Claims, Entered, Will
    <2> QED
      BY <2>1 DEF RegistryInv, ClaimsEnd
  <1>2. n \in Targets[r]
    BY <1>1 DEF RegistryInv, RunsAtTargets
  <1>3. run[n][r] \in {"stopped", "gone"}
    BY <1>1, <1>2 DEF Going, RegistryInv, TypeInvariant, Places
  <1>4. \A p \in Sent(n) : wire[n][p] \in OnWire
    BY DEF OnWire, Sent, RegistryInv, TypeInvariant
  <1>5. CASE run[n][r] = "stopped"
    <2>1. RunEvent(r, "stopped") \in OnWire
      BY <1>1, <1>4, <1>5 DEF StopComes
    <2> QED
      BY <2>1, MessageKinds DEF Told
  <1>6. CASE run[n][r] = "gone"
    <2>1. NodeMessage(n, "register") \in NodeMessages /\ NodeMessage(n, "register").node = n
      BY MessageKinds DEF NodeMessage
    <2>2. CASE BackComes(n, 0)
      <3>1. NodeMessage(n, "register") \in OnWire
        BY <1>4, <2>2 DEF BackComes
      <3> QED
        BY <1>2, <2>1, <3>1 DEF Moved
    <2>3. CASE BackWaits(n)
      <3>1. NodeMessage(n, "register") \in Waiting
        BY <2>3 DEF BackWaits, Waiting, RegistryInv, TypeInvariant
      <3> QED
        BY <1>2, <2>1, <3>1 DEF Moved
    <2>4. CASE r \in doomed
      BY <2>4 DEF Moved
    <2> QED
      BY <1>1, <1>6, <2>2, <2>3, <2>4
  <1> QED
    BY <1>3, <1>5, <1>6

\* An event that is posted is a report, and news of a node concerns the runs it may have.
LEMMA PostTells ==
  ASSUME TypeInvariant, NEW n \in Nodes, UNCHANGED <<waiting, doomed, writes>>
  PROVE  /\ \A r \in Runs, s \in {"started", "running", "stopped"} :
              Post(n, RunEvent(r, s)) => Told' = Told \cup {r} /\ UNCHANGED Moved
         /\ \A s \in {"register", "unregister"} :
              Post(n, NodeMessage(n, s)) =>
                UNCHANGED Told /\ Moved' = Moved \cup {r \in Runs : n \in Targets[r]}
  <1>1. ASSUME NEW r \in Runs, NEW s \in {"started", "running", "stopped"}, Post(n, RunEvent(r, s))
        PROVE  Told' = Told \cup {r} /\ UNCHANGED Moved
    <2> DEFINE m == RunEvent(r, s)
    <2>1. m \in RunEvents /\ m.id = r /\ m \in Message /\ m \notin NodeMessages
      BY MessageKinds DEF Message
    <2>2. OnWire' = OnWire \cup {m}
      BY <1>1, <2>1, OnWirePosted
    <2>3. Told' = Told \cup {r}
      BY <2>1, <2>2 DEF Told, Pending
    <2>4. UNCHANGED Moved
      BY <2>1, <2>2 DEF Moved, Waiting, Pending
    <2> QED
      BY <2>3, <2>4
  <1>2. ASSUME NEW s \in {"register", "unregister"}, Post(n, NodeMessage(n, s))
        PROVE  UNCHANGED Told /\ Moved' = Moved \cup {r \in Runs : n \in Targets[r]}
    <2> DEFINE m == NodeMessage(n, s)
    <2>1. m \in NodeMessages /\ m.node = n /\ m \in Message /\ m \notin RunEvents
      BY MessageKinds DEF Message, NodeMessage
    <2>2. OnWire' = OnWire \cup {m}
      BY <1>2, <2>1, OnWirePosted
    <2>3. UNCHANGED Told
      BY <2>1, <2>2 DEF Told, Pending
    <2>4. Moved' = Moved \cup {r \in Runs : n \in Targets[r]}
      BY <2>1, <2>2 DEF Moved, Waiting, Pending
    <2> QED
      BY <2>3, <2>4
  <1> QED
    BY <1>1, <1>2

\* Only runs of which something is under way come to be crossed.
CrossedTold == crossed \subseteq crossed' /\ crossed' \subseteq crossed \cup Told \cup Moved

Tells(runs, v) ==
  /\ UNCHANGED Listed /\ CrossedTold
  /\ \A r \in Runs :
       /\ (\E n \in Nodes : Pending(r, n))'
            <=> (\E n \in Nodes : Pending(r, n)) \/ (r \in runs /\ v \in Nodes)
       /\ Pending(r, NoNode)' <=> Pending(r, NoNode) \/ (r \in runs /\ v = NoNode)

\* Writing makes the runs reported or moved, and crosses only what was.
LEMMA WriteTells ==
  ASSUME TypeInvariant, NEW runs \in SUBSET Runs, NEW v \in Values, Write(runs, v)
  PROVE  Tells(runs, v)
  <1>1. /\ status' = status /\ crossed \subseteq crossed'
        /\ \A r \in Runs, w \in Values : Pending(r, w)' <=> Pending(r, w) \/ (r \in runs /\ w = v)
    <2>1. Begins(runs, v)
      BY Begun
    <2> QED
      BY <2>1 DEF Begins
  <1>2. UNCHANGED Listed
    BY <1>1 DEF Listed
  <1>3. ASSUME NEW r \in Runs
        PROVE  /\ (\E n \in Nodes : Pending(r, n))'
                    <=> (\E n \in Nodes : Pending(r, n)) \/ (r \in runs /\ v \in Nodes)
               /\ Pending(r, NoNode)' <=> Pending(r, NoNode) \/ (r \in runs /\ v = NoNode)
    BY <1>1 DEF Values
  <1>4. crossed' \subseteq crossed \cup {r \in Runs : \E w \in Values : Pending(r, w)}
    BY DEF Write
  <1>5. \A r \in Runs, w \in Values : Pending(r, w) => r \in Told \cup Moved
    BY DEF Told, Moved, Values
  <1> QED
    BY <1>1, <1>2, <1>3, <1>4, <1>5 DEF Tells, CrossedTold

-----------------------------------------------------------------------------
\* The steps of the list

AbstractVars == <<Going, Told, Moved, crossed, Listed>>

LEMMA AbstractSteps ==
  AllConcerned' /\ ((List!Change /\ CrossedTold) \/ UNCHANGED AbstractVars) => [List!Next]_List!vars
  <1>1. UNCHANGED AbstractVars => UNCHANGED List!vars
    BY DEF List!vars, AbstractVars
  <1>2. ASSUME AllConcerned', List!Change, CrossedTold PROVE List!Next
    BY <1>2 DEF AllConcerned, CrossedTold, List!Next
  <1> QED
    BY <1>1, <1>2

\* A runner goes on.
LEMMA RunnerMaps ==
  ASSUME RegistryInv, NEW n \in Nodes, NEW r \in Runs, Begin(n, r) \/ Step(n, r) \/ Finish(n, r)
  PROVE  List!Report(r) /\ CrossedTold
  <1>1. UNCHANGED <<waiting, doomed, status, writes, crossed>> /\ n \in Targets[r]
    BY DEF Begin, Step, Finish, registryVars, cached, RegistryInv, RunsAtTargets, Active
  <1>2. \A k \in Nodes, q \in Runs : <<k, q>> # <<n, r>> => run'[k][q] = run[k][q]
    BY DEF Begin, Step, Finish, Becomes, RegistryInv, TypeInvariant
  <1>3. run[n][r] \in Active \/ run'[n][r] \in Active
    BY DEF Begin, Step, Finish, Becomes, RegistryInv, TypeInvariant, Active
  <1>4. \A q \in Runs \ {r} : q \in Going' <=> q \in Going
    BY <1>2, RegistryAssumption DEF Going
  <1>5. r \in Going \cup Going'
    BY <1>1, <1>3, RegistryAssumption DEF Going
  <1>6. Going' \in {Going \cup {r}, Going \ {r}}
    BY <1>4 DEF Going
  <1>7. Told' = Told \cup {r} /\ UNCHANGED Moved
    <2>1. \E s \in {"started", "running", "stopped"} : Post(n, RunEvent(r, s))
      BY DEF Begin, Step, Finish
    <2> QED
      BY <1>1, <2>1, PostTells DEF RegistryInv
  <1>8. UNCHANGED Listed
    BY <1>1 DEF Listed
  <1> QED
    BY <1>1, <1>5, <1>6, <1>7, <1>8 DEF List!Report, CrossedTold

\* A node leaves or is back.
LEMMA NodeMaps ==
  ASSUME RegistryInv, NEW n \in Nodes, Leave(n) \/ Restart(n)
  PROVE  List!Move({r \in Runs : n \in Targets[r]}) /\ CrossedTold
  <1>1. UNCHANGED <<waiting, doomed, status, writes, crossed>>
    BY DEF Leave, Restart, registryVars, cached
  <1>2. UNCHANGED Told /\ Moved' = Moved \cup {r \in Runs : n \in Targets[r]}
    <2>1. \E s \in {"register", "unregister"} : Post(n, NodeMessage(n, s))
      BY DEF Leave, Restart
    <2> QED
      BY <1>1, <2>1, PostTells DEF RegistryInv
  <1>3. \A k \in Nodes, r \in Runs :
          \/ run'[k][r] = run[k][r]
          \/ k = n /\ run[k][r] = "lost" /\ run'[k][r] = "gone"
    <2>1. run \in [Nodes -> [Runs -> Places]]
      BY DEF RegistryInv, TypeInvariant
    <2>2. CASE Leave(n)
      BY <2>2 DEF Leave
    <2>3. CASE Restart(n)
      BY <2>1, <2>3 DEF Restart
    <2> QED
      BY <2>2, <2>3
  <1>4. Going' \subseteq Going
    BY <1>3, RegistryAssumption DEF Going, Active
  <1>5. Going \ Going' \subseteq {r \in Runs : n \in Targets[r]}
    BY <1>3, RegistryAssumption DEF Going
  <1>6. UNCHANGED Listed
    BY <1>1 DEF Listed
  <1> QED
    BY <1>1, <1>2, <1>4, <1>5, <1>6 DEF List!Move, CrossedTold

\* A runner hangs or is lost with its node: the list does not know.
LEMMA SilentMaps ==
  ASSUME RegistryInv, NEW n \in Nodes, End(n) \/ \E r \in Runs : Hang(n, r)
  PROVE  UNCHANGED AbstractVars
  <1>1. UNCHANGED <<wire, waiting, status, writes, crossed, doomed>>
    BY DEF End, Hang, registryVars, cached
  <1> DEFINE GoesOn(place) == place \in Active \cup {"hung", "lost"}
  <1>2. \A k \in Nodes, q \in Runs : GoesOn(run'[k][q]) <=> GoesOn(run[k][q])
    <2>1. CASE End(n)
      BY <2>1 DEF End, RegistryInv, TypeInvariant
    <2>2. ASSUME NEW r \in Runs, Hang(n, r)
          PROVE  \A k \in Nodes, q \in Runs : GoesOn(run'[k][q]) <=> GoesOn(run[k][q])
      BY <2>2 DEF Hang, Becomes, RegistryInv, TypeInvariant
    <2> QED
      BY <2>1, <2>2
  <1>3. UNCHANGED Going
    BY <1>2, RegistryAssumption DEF Going
  <1>4. UNCHANGED <<Told, Moved, Listed>>
    BY <1>1 DEF OnWire, Told, Moved, Waiting, Listed, Pending
  <1> QED
    BY <1>1, <1>3, <1>4 DEF AbstractVars

\* A message arrives: an event is heard, news of a node waits.
LEMMA ReceiveMaps ==
  ASSUME RegistryInv, NEW n \in Nodes, Receive(n)
  PROVE  (List!Change /\ CrossedTold) \/ UNCHANGED AbstractVars
  <1> DEFINE m == wire[n][1]
  <1>1. OnWire = OnWire' \cup {m} /\ UNCHANGED <<run, doomed>>
    BY OnWireReceived DEF RegistryInv, Receive, nodeVars
  <1>2. UNCHANGED Going
    BY <1>1 DEF Going
  <1> HIDE DEF m
  <1>3. CASE m \in NodeMessages /\ waiting' = Append(waiting, m) /\ UNCHANGED <<cached, names>>
    <2>1. m \notin RunEvents
      BY <1>3, MessageKinds
    <2>2. Waiting' = Waiting \cup {m}
      <3>1. waiting \in Seq(NodeMessages)
        BY DEF RegistryInv, TypeInvariant
      <3>2. Elements(waiting') = Elements(waiting) \cup {m}
        BY <1>3, <3>1, AppendAdds
      <3> QED
        BY <3>2 DEF Waiting, Elements
    <2>6. UNCHANGED <<status, writes, crossed>>
      BY <1>3 DEF cached
    <2>3. UNCHANGED Told
      BY <1>1, <2>1, <2>6 DEF Told, Pending
    <2>4. UNCHANGED Moved
      BY <1>1, <1>3, <2>2, <2>6 DEF Moved, Pending
    <2>5. UNCHANGED Listed
      BY <2>6 DEF Listed
    <2> QED
      BY <1>2, <2>3, <2>4, <2>5, <2>6 DEF AbstractVars
  <1>4. ASSUME NEW r \in Runs, m \in RunEvents, UNCHANGED waiting, m.id = r,
               RemoveTaskStatus({r}) \/ AddTaskStatus(r, n)
        PROVE  List!Change /\ CrossedTold
    <2>1. m \notin NodeMessages
      BY <1>4, MessageKinds
    <2>2. PICK v \in Values : Write({r}, v)
      BY <1>4 DEF RemoveTaskStatus, AddTaskStatus, Values
    <2>3. /\ UNCHANGED Listed /\ CrossedTold
          /\ \A q \in Runs :
               /\ (\E k \in Nodes : Pending(q, k))'
                    <=> (\E k \in Nodes : Pending(q, k)) \/ (q = r /\ v \in Nodes)
               /\ Pending(q, NoNode)' <=> Pending(q, NoNode) \/ (q = r /\ v = NoNode)
      <3>1. Tells({r}, v)
        BY <2>2, WriteTells DEF RegistryInv
      <3> QED
        BY <3>1 DEF Tells
    <2>4. r \in Told /\ Told' \in {Told, Told \ {r}}
      <3>1. r \in Told
        BY <1>1, <1>4 DEF Told
      <3>2. \A q \in Runs \ {r} : q \in Told' <=> q \in Told
        BY <1>1, <1>4, <2>3 DEF Told
      <3>3. Told' \subseteq Runs /\ Told \subseteq Runs
        <4>1. \A x \in RunEvents : x.id \in Runs
          BY DEF RunEvents
        <4> QED
          BY <4>1 DEF Told
      <3> QED
        BY <3>1, <3>2, <3>3
    <2>5. Moved' \in {Moved, Moved \cup {r}}
      <3>1. \A q \in Runs \ {r} : q \in Moved' <=> q \in Moved
        BY <1>1, <1>4, <2>1, <2>3 DEF Moved, Waiting
      <3>2. r \in Moved => r \in Moved'
        BY <1>1, <1>4, <2>1, <2>3 DEF Moved, Waiting
      <3>3. Moved' \subseteq Runs /\ Moved \subseteq Runs
        BY DEF Moved
      <3> QED
        BY <3>1, <3>2, <3>3
    <2> QED
      BY <1>2, <2>3, <2>4, <2>5 DEF List!Change, List!Hear
  <1> QED
    BY <1>3, <1>4, Received DEF RegistryInv, m

\* Statuses are to be removed, or runs to be removed are found.
LEMMA RemovalMaps ==
  ASSUME RegistryInv, OnNodeUpdate \/ RemoveFound \/ \E r \in Runs : Cleanup(r)
  PROVE  List!Change /\ CrossedTold
  <1>1. UNCHANGED <<run, wire, status>>
    BY DEF OnNodeUpdate, RemoveFound, Cleanup, nodeVars, RemoveTaskStatus, Write
  <1>2. UNCHANGED <<Going, Listed>>
    BY <1>1 DEF Going, Listed
  <1>3. CASE OnNodeUpdate
    <2> DEFINE m == Head(waiting)
    <2>1. m \in Waiting /\ Waiting' \subseteq Waiting
      <3>1. waiting \in Seq(NodeMessages) /\ waiting # <<>> /\ waiting' = Tail(waiting)
        BY <1>3 DEF OnNodeUpdate, RegistryInv, TypeInvariant
      <3>2. Elements(waiting) = Elements(waiting') \cup {waiting[1]} /\ m = waiting[1]
        BY <3>1, TailLeaves, Taking
      <3> QED
        BY <3>2 DEF Waiting, Elements
    <2>2. doomed' \subseteq doomed \cup {r \in Runs : status[r] = m.node}
      BY <1>3 DEF OnNodeUpdate
    <2>8. UNCHANGED <<writes, Told>>
      BY <1>1, <1>3 DEF OnNodeUpdate, Told, OnWire, Pending
    <2>3. \A r \in Runs : status[r] \in Nodes => status[r] \in Targets[r]
      BY DEF RegistryInv, EntriesAtTargets
    <2>4. m.node \in Nodes
      <3>1. waiting \in Seq(NodeMessages) /\ waiting # <<>>
        BY <1>3 DEF OnNodeUpdate, RegistryInv, TypeInvariant
      <3>2. m \in NodeMessages
        BY <3>1, Taking
      <3> HIDE DEF m
      <3> QED
        BY <3>2 DEF NodeMessages
    <2>5. \A r \in Runs : r \in doomed' => r \in Moved
      BY <2>1, <2>2, <2>3, <2>4 DEF Moved
    <2>6. Moved' \subseteq Moved
      BY <1>1, <2>1, <2>5, <2>8 DEF Moved, OnWire, Pending
    <2>7. CrossedTold
      <3>1. crossed' = crossed \cup {r \in Runs : Pending(r, m.node)}
        BY <1>3 DEF OnNodeUpdate
      <3> QED
        BY <2>4, <3>1 DEF CrossedTold, Told
    <2>9. List!Drop({})
      BY <1>2, <2>6, <2>8 DEF List!Drop
    <2> QED
      BY <2>7, <2>9 DEF List!Change
  <1>4. ASSUME NEW runs \in SUBSET Runs, RemoveTaskStatus(runs), UNCHANGED waiting,
               doomed' = doomed \/ (doomed' = {} /\ runs = doomed)
        PROVE  UNCHANGED Told /\ Moved' = Moved \cup runs /\ CrossedTold
    <2>1. NoNode \in Values /\ NoNode \notin Nodes /\ Write(runs, NoNode)
      BY <1>4, RegistryAssumption DEF Values, RemoveTaskStatus
    <2>2. /\ CrossedTold
          /\ \A q \in Runs :
               /\ (\E k \in Nodes : Pending(q, k))' <=> (\E k \in Nodes : Pending(q, k))
               /\ Pending(q, NoNode)' <=> Pending(q, NoNode) \/ q \in runs
      <3>1. Tells(runs, NoNode)
        BY <2>1, WriteTells DEF RegistryInv
      <3> QED
        BY <2>1, <3>1 DEF Tells
    <2>3. UNCHANGED <<OnWire, Waiting>>
      BY <1>1, <1>4 DEF OnWire, Waiting
    <2>4. UNCHANGED Told
      BY <2>2, <2>3 DEF Told
    <2>5. Moved' = Moved \cup runs
      BY <1>4, <2>2, <2>3 DEF Moved
    <2> QED
      BY <2>2, <2>4, <2>5
  <1>5. CASE RemoveFound
    <2>1. doomed \in SUBSET Runs /\ RemoveTaskStatus(doomed) /\ UNCHANGED waiting /\ doomed' = {}
      BY <1>5 DEF RemoveFound, RegistryInv, TypeInvariant
    <2>2. UNCHANGED Told /\ Moved' = Moved \cup doomed /\ CrossedTold
      BY <1>4, <2>1
    <2>3. Moved' \subseteq Moved
      BY <2>1, <2>2 DEF Moved
    <2>4. List!Drop({})
      BY <1>2, <2>2, <2>3 DEF List!Drop
    <2> QED
      BY <2>2, <2>4 DEF List!Change
  <1>6. ASSUME NEW r \in Runs, Cleanup(r) PROVE List!Change /\ CrossedTold
    <2>1. UNCHANGED Told /\ Moved' = Moved \cup {r} /\ CrossedTold
      BY <1>4, <1>6 DEF Cleanup
    <2>2. List!Move({r})
      BY <1>2, <2>1 DEF List!Move
    <2> QED
      BY <2>1, <2>2 DEF List!Change
  <1> QED
    BY <1>3, <1>5, <1>6

\* A write is there: a run is entered or dropped.
LEMMA WrittenMaps ==
  ASSUME RegistryInv, NEW r \in Runs, NEW v \in Values, Written(r, v)
  PROVE  List!Change /\ CrossedTold
  <1>1. UNCHANGED <<run, OnWire, Waiting, doomed, crossed>>
    BY DEF Written, nodeVars, OnWire, Waiting
  <1>2. UNCHANGED Going /\ CrossedTold
    BY <1>1 DEF Going, CrossedTold
  <1>3. /\ \A q \in Runs \ {r} : status'[q] = status[q]
        /\ status'[r] = v /\ Pending(r, v)
        /\ \A q \in Runs, w \in Values :
             /\ Pending(q, w)' => Pending(q, w)
             /\ Pending(q, w) => Pending(q, w)' \/ (q = r /\ w = v)
    BY Done DEF RegistryInv
  <1>4. CASE v \in Nodes
    <2>1. r \in Told
      BY <1>3, <1>4 DEF Told
    <2>2. UNCHANGED Moved
      BY <1>1, <1>3, <1>4, RegistryAssumption DEF Moved, Values
    <2>3. Told' \in {Told, Told \ {r}}
      <3>1. \A q \in Runs \ {r} : q \in Told' <=> q \in Told
        BY <1>1, <1>3 DEF Told, Values
      <3>2. Told' \subseteq Runs /\ Told \subseteq Runs
        <4>1. \A x \in RunEvents : x.id \in Runs
          BY DEF RunEvents
        <4> QED
          BY <4>1 DEF Told
      <3> QED
        BY <2>1, <3>1, <3>2
    <2>4. Listed' = Listed \cup {r}
      BY <1>3, <1>4, RegistryAssumption DEF Listed
    <2>5. List!Hear(r)
      BY <1>2, <2>1, <2>2, <2>3, <2>4 DEF List!Hear
    <2> QED
      BY <1>2, <2>5 DEF List!Change
  <1>5. CASE v = NoNode
    <2>1. r \in Moved
      BY <1>3, <1>5 DEF Moved
    <2>2. Moved' \subseteq Moved
      BY <1>1, <1>3 DEF Moved, Values
    <2>3. UNCHANGED Told
      BY <1>1, <1>3, <1>5, RegistryAssumption DEF Told, Values
    <2>4. Listed' = Listed \ {r}
      BY <1>3, <1>5 DEF Listed
    <2>5. List!Drop({r})
      BY <1>2, <2>1, <2>2, <2>3, <2>4 DEF List!Drop
    <2>6. {r} \in SUBSET Runs
      OBVIOUS
    <2> QED
      BY <1>2, <2>5, <2>6 DEF List!Change
  <1> QED
    BY <1>4, <1>5 DEF Values

\* The registry implements Listing: an event is a report until its write is there, and
\* what is removed is only dropped (onTaskRunnerEvent, onNodeUpdate, cleanup).  That what is
\* listed goes on, is concerned by news or was written across is the invariant of the claims.
THEOREM Implementation == Spec => ImplementsListing
  <1>1. Init => List!Init
    <2> SUFFICES ASSUME Init PROVE List!Init
      OBVIOUS
    <2>1. OnWire = {} /\ Waiting = {}
      BY DEF Init, OnWire, Waiting
    <2>2. Told = {} /\ Moved = {} /\ Listed = {} /\ crossed = {}
      <3>1. \A r \in Runs, v \in Values : ~ Pending(r, v)
        BY DEF Init, Pending
      <3>2. Told = {} /\ Moved = {}
        BY <2>1, <3>1 DEF Init, Told, Moved, Values
      <3> QED
        BY <3>2 DEF Init, Listed
    <2>3. Going = {}
      BY RegistryAssumption DEF Init, Going, Active
    <2> QED
      BY <2>2, <2>3 DEF List!Init
  <1>2. RegistryInv => AllConcerned
    BY ListedConcerned
  <1>3. RegistryInv /\ AllConcerned' /\ [Next]_vars => [List!Next]_List!vars
    <2> SUFFICES ASSUME RegistryInv, AllConcerned', [Next]_vars
                 PROVE  (List!Change /\ CrossedTold) \/ UNCHANGED AbstractVars
      BY AbstractSteps
    <2>1. ASSUME NEW n \in Nodes, NEW r \in Runs, Begin(n, r) \/ Step(n, r) \/ Finish(n, r)
          PROVE  List!Change /\ CrossedTold
      BY <2>1, RunnerMaps DEF List!Change
    <2>2. ASSUME NEW n \in Nodes, Leave(n) \/ Restart(n) PROVE List!Change /\ CrossedTold
      <3>1. {r \in Runs : n \in Targets[r]} \in SUBSET Runs
        OBVIOUS
      <3> QED
        BY <2>2, <3>1, NodeMaps DEF List!Change
    <2>3. ASSUME NEW n \in Nodes, End(n) \/ \E r \in Runs : Hang(n, r) PROVE UNCHANGED AbstractVars
      BY <2>3, SilentMaps
    <2>4. ASSUME NEW n \in Nodes, Receive(n)
          PROVE  (List!Change /\ CrossedTold) \/ UNCHANGED AbstractVars
      BY <2>4, ReceiveMaps
    <2>5. ASSUME OnNodeUpdate \/ RemoveFound \/ \E r \in Runs : Cleanup(r)
          PROVE  List!Change /\ CrossedTold
      BY <2>5, RemovalMaps
    <2>7. ASSUME NEW r \in Runs, NEW v \in Values, Written(r, v) PROVE List!Change /\ CrossedTold
      BY <2>7, WrittenMaps
    <2>6. ASSUME UNCHANGED vars PROVE UNCHANGED AbstractVars
      <3>1. UNCHANGED <<run, wire, waiting, status, writes, crossed, doomed>>
        BY <2>6 DEF vars, nodeVars, registryVars, cached
      <3> QED
        BY <3>1 DEF AbstractVars, Going, OnWire, Told, Moved, Waiting, Listed, Pending
    <2> QED
      BY <2>1, <2>2, <2>3, <2>4, <2>5, <2>6, <2>7 DEF Next
  <1> QED
    BY <1>1, <1>2, <1>3, RegistryInvariant, PTL DEF Spec, ImplementsListing, List!Spec

=============================================================================
