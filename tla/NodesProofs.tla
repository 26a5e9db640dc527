----------------------------- MODULE NodesProofs -----------------------------
(***************************************************************************)
(* Proofs about Nodes for any instances on any hosts, under any ids, that  *)
(* come, leave and crash in any order.                                     *)
(***************************************************************************)
EXTENDS Nodes, TLAPS

Box(i) == 1 .. Len(inbox[i])

\* On the bus, or just off it.
Working(i) == phase[i] \in {"subscribed", "announced", "idle", "leaving", "left"}

Joined(i) == Working(i) \/ phase[i] \in {"exited", "crashed"}

Unregisters(m, j) == m.node = j /\ m.state = "unregister"

\* What i knows of k: that it is in the list (position 0), or by a message that waits.
Knows(i, k, p) ==
  \/ p = 0 /\ k \in nodes[i]
  \/ p \in Box(i) /\ inbox[i][p].node = k

KnowsIn(i, j, p) == Knows(i, j, p) /\ (p = 0 \/ inbox[i][p].state # "unregister")

Typed ==
  /\ phase \in [Instances -> Phases]
  /\ DOMAIN nr = Instances
  /\ nodes \in [Instances -> SUBSET Instances]
  /\ inbox \in [Instances -> Seq(Messages)]

\* Register() is left behind by who is leaving only.
Lates ==
  /\ late \in [Instances -> Lateness]
  /\ \A i \in Instances :
        late[i] # "nothing" => phase[i] \in {"leaving", "left", "exited", "crashed"}

\* Only who works knows others, others that have joined and are no namesakes.
Heard ==
  \A i, k \in Instances : \A p \in Box(i) \cup {0} : Knows(i, k, p) =>
    Working(i) /\ Joined(k) /\ ~ EqNode(i, k)

\* Who says that it leaves does.
Said ==
  \A i \in Instances : \A p \in Box(i) :
    inbox[i][p].state = "unregister" =>
      phase[inbox[i][p].node] \in {"leaving", "left", "exited", "crashed"}

\* Who has left, and not as idle, has told all who know it.
LastWord ==
  \A i, j \in Instances : \A p \in Box(i) \cup {0} :
    Subscribed(i) /\ phase[j] \in {"left", "exited"} /\ ~ LeftIdle(j) /\ KnowsIn(i, j, p) =>
      \E q \in Box(i) : q > p /\ Unregisters(inbox[i][q], j)

\* The instances of a node follow each other.
OneAtATime ==
  \A j, k \in Instances : NodeOf[j] = NodeOf[k] /\ Live(j) /\ Live(k) => j = k

\* What is known of an instance before the last word of a namesake is about one that is no more.
InOrder ==
  \A i, j, k \in Instances : \A p \in Box(i) \cup {0} : \A q \in Box(i) :
    /\ Knows(i, k, p) /\ q > p /\ Unregisters(inbox[i][q], j)
    /\ NodeOf[k] = NodeOf[j]
    => k = j \/ ~ Live(k)

NodesInv == Typed /\ Lates /\ Heard /\ Said /\ LastWord

-----------------------------------------------------------------------------
\* What a step is to an instance i

Stays(i) == inbox'[i] = inbox[i] /\ nodes'[i] = nodes[i]

Hears(i, j) ==
  /\ Subscribed(i) /\ phase'[i] = phase[i] /\ ~ EqNode(i, j)
  /\ Working(j) /\ Working(j)'
  /\ inbox'[i] = Append(inbox[i], [node |-> j, state |-> State(j)'])
  /\ nodes'[i] = nodes[i]

Takes(i) ==
  /\ inbox[i] # <<>> /\ inbox'[i] = Tail(inbox[i])
  /\ phase'[i] = phase[i]
  /\ LET m == Head(inbox[i]) IN
       \/ m.state = "unregister" /\ nodes'[i] = nodes[i] \ Same(i, m.node)
       \/ m.state # "unregister" /\ nodes'[i] \in SUBSET (nodes[i] \cup {m.node})

Ends(i) == inbox'[i] = <<>> /\ nodes'[i] = {}

Moves(i) ==
  \/ phase'[i] = phase[i]
  \/ <<phase[i], phase'[i]>> \in
       {<<"off", "startup">>, <<"startup", "subscribed">>, <<"subscribed", "announced">>,
        <<"announced", "idle">>, <<"startup", "alone">>, <<"subscribed", "leaving">>,
        <<"announced", "leaving">>, <<"idle", "leaving">>, <<"leaving", "left">>,
        <<"alone", "offline">>}
  \/ <<phase[i], phase'[i]>> = <<"left", "exited">> /\ Ends(i)
  \/ Live(i) /\ phase'[i] = "crashed" /\ Ends(i)

-----------------------------------------------------------------------------
\* Lemmas about messages

LEMMA Appending ==
  ASSUME NEW S, NEW s \in Seq(S), NEW e \in S
  PROVE  /\ Append(s, e) \in Seq(S) /\ Len(Append(s, e)) = Len(s) + 1 /\ Len(s) \in Nat
         /\ \A p \in 1 .. Len(s) : Append(s, e)[p] = s[p]
         /\ Append(s, e)[Len(s) + 1] = e
  OBVIOUS

LEMMA Taking ==
  ASSUME NEW S, NEW s \in Seq(S), s # <<>>
  PROVE  /\ Head(s) = s[1] /\ Head(s) \in S /\ 1 \in 1 .. Len(s)
         /\ Tail(s) \in Seq(S) /\ Len(Tail(s)) = Len(s) - 1 /\ Len(s) \in Nat \ {0}
         /\ \A p \in 1 .. Len(s) - 1 : Tail(s)[p] = s[p + 1]
  OBVIOUS

\* What an instance posts reaches those on the bus that are no namesakes, and changes
\* nothing for the others.
LEMMA Posting ==
  ASSUME Typed, NEW i \in Instances, NEW boxes \in [Instances -> Seq(Messages)],
         Working(i), Working(i)', UNCHANGED nr,
         inbox' = Posted(i, State(i)', boxes),
         \A j \in Instances \ {i} :
           boxes[j] = inbox[j] /\ phase'[j] = phase[j] /\ nodes'[j] = nodes[j]
  PROVE  /\ inbox' \in [Instances -> Seq(Messages)]
         /\ inbox'[i] = boxes[i]
         /\ \A j \in Instances \ {i} : Stays(j) \/ Hears(j, i)
         /\ \A j \in Instances : Subscribed(j) /\ ~ EqNode(j, i) => Hears(j, i)
  <1> DEFINE m == [node |-> i, state |-> State(i)']
  <1>1. m \in Messages
    BY DEF Messages, State, Working
  <1>2. \A j \in Instances : EqNode(i, j) <=> EqNode(j, i)
    BY DEF EqNode
  <1>3. \A j \in Instances :
           inbox'[j] = IF Subscribed(j) /\ ~ EqNode(j, i) THEN Append(boxes[j], m) ELSE boxes[j]
    BY <1>2 DEF Posted
  <1>4. \A j \in Instances : Append(boxes[j], m) \in Seq(Messages)
    BY <1>1
  <1>5. EqNode(i, i)
    BY DEF EqNode
  <1>6. inbox' \in [Instances -> Seq(Messages)]
    <2>1. DOMAIN inbox' = Instances /\ inbox' = [j \in Instances |-> inbox'[j]]
      BY DEF Posted
    <2>2. \A j \in Instances : inbox'[j] \in Seq(Messages)
      BY <1>3, <1>4
    <2> QED
      BY <2>1, <2>2
  <1>7. \A j \in Instances : Subscribed(j) /\ ~ EqNode(j, i) => Hears(j, i)
    BY <1>3, <1>5 DEF Hears
  <1>8. \A j \in Instances \ {i} : Stays(j) \/ Hears(j, i)
    BY <1>3, <1>7 DEF Stays
  <1> QED
    BY <1>3, <1>5, <1>6, <1>7, <1>8

-----------------------------------------------------------------------------
\* What a step is

\* A step that only moves one instance on.
LEMMA Moving ==
  ASSUME Typed, NEW i \in Instances, NEW to \in Phases, GoTo(i, to)
  PROVE  /\ phase' \in [Instances -> Phases] /\ phase'[i] = to
         /\ \A j \in Instances \ {i} : phase'[j] = phase[j]
  BY DEF GoTo, Typed

\* Who handles a message works.
LEMMA Handling ==
  ASSUME Typed, Heard, NEW i \in Instances, inbox[i] # <<>>
  PROVE  /\ Working(i) /\ Message(i) = inbox[i][1] /\ Message(i) \in Messages /\ 1 \in Box(i)
         /\ Taken(i) \in [Instances -> Seq(Messages)] /\ Taken(i)[i] = Tail(inbox[i])
         /\ \A j \in Instances \ {i} : Taken(i)[j] = inbox[j]
  <1>1. inbox[i] \in Seq(Messages)
    BY DEF Typed
  <1>2. /\ Message(i) = inbox[i][1] /\ Message(i) \in Messages /\ 1 \in Box(i)
        /\ Tail(inbox[i]) \in Seq(Messages)
    BY <1>1, Taking DEF Message, Box
  <1>3. Message(i).node \in Instances
    BY <1>2 DEF Messages
  <1>4. Working(i)
    BY <1>2, <1>3 DEF Heard, Knows
  <1> QED
    BY <1>2, <1>4 DEF Taken, Typed

StepOf ==
  /\ \A i \in Instances : Stays(i) \/ Takes(i) \/ Ends(i) \/ \E j \in Instances : Hears(i, j)
  /\ \A i \in Instances : Moves(i) /\ (nr'[i] = nr[i] \/ phase[i] = "off")
  /\ \A i, j \in Instances :
        phase[j] # "left" /\ phase'[j] = "left" /\ Subscribed(i) /\ ~ EqNode(i, j) => Hears(i, j)
  /\ Typed'

LEMMA Steps ==
  ASSUME Typed, Heard, [Next]_vars
  PROVE  StepOf
  <1>1. ASSUME NEW i \in Instances,
               Start(i) \/ Subscribe(i) \/ Idle(i) \/ Unregister(i) \/ Offline(i)
        PROVE  StepOf
    <2>1. UNCHANGED <<inbox, nodes>> /\ \A j \in Instances : Stays(j)
      BY <1>1 DEF Start, Subscribe, Idle, Unregister, Offline, Stays
    <2>2. PICK to \in Phases : GoTo(i, to) /\ to # "left"
               /\ <<phase[i], to>> \in
                    {<<"off", "startup">>, <<"startup", "subscribed">>, <<"announced", "idle">>,
                     <<"startup", "alone">>, <<"subscribed", "leaving">>,
                     <<"announced", "leaving">>, <<"idle", "leaving">>, <<"alone", "offline">>}
      BY <1>1 DEF Start, Subscribe, Idle, Unregister, Offline, Phases
    <2>3. \A j \in Instances : Moves(j) /\ (phase'[j] = "left" => phase[j] = "left")
      BY <2>2, Moving DEF Moves
    <2>4. \A j \in Instances : nr'[j] = nr[j] \/ phase[j] = "off"
      BY <1>1 DEF Start, Subscribe, Idle, Unregister, Offline, Typed
    <2>5. DOMAIN nr' = Instances
      BY <1>1 DEF Start, Subscribe, Idle, Unregister, Offline, Typed
    <2> QED
      BY <2>1, <2>2, <2>3, <2>4, <2>5, Moving DEF StepOf, Typed
  <1>2. ASSUME NEW i \in Instances, Announce(i) \/ Depart(i) PROVE StepOf
    <2>1. PICK to \in {"announced", "left"} :
             /\ GoTo(i, to) /\ <<phase[i], to>> \in {<<"subscribed", "announced">>, <<"leaving", "left">>}
             /\ inbox' = Posted(i, State(i)', inbox)
             /\ UNCHANGED <<nr, nodes>>
      <3>1. CASE Announce(i)
        BY <3>1, Moving DEF Announce, State, Phases
      <3>2. CASE Depart(i)
        BY <3>2, Moving DEF Depart, State, Phases
      <3> QED
        BY <1>2, <3>1, <3>2
    <2>2. /\ phase' \in [Instances -> Phases] /\ phase'[i] = to
          /\ \A j \in Instances \ {i} : phase'[j] = phase[j]
      BY <2>1, Moving DEF Phases
    <2>3. Working(i) /\ Working(i)' /\ inbox' = Posted(i, State(i)', inbox)
      BY <2>1, <2>2 DEF Working, State
    <2>4. /\ inbox' \in [Instances -> Seq(Messages)] /\ inbox'[i] = inbox[i]
          /\ \A j \in Instances \ {i} : Stays(j) \/ Hears(j, i)
          /\ \A j \in Instances : Subscribed(j) /\ ~ EqNode(j, i) => Hears(j, i)
      BY <2>1, <2>2, <2>3, Posting DEF Typed
    <2>5. \A j \in Instances : Moves(j)
      BY <2>1, <2>2 DEF Moves
    <2>6. Stays(i)
      BY <2>1, <2>4 DEF Stays
    <2> QED
      BY <2>1, <2>2, <2>4, <2>5, <2>6 DEF StepOf, Typed
  <1>3. ASSUME NEW i \in Instances, Exit(i) \/ Crash(i) PROVE StepOf
    <2>1. PICK to \in {"exited", "crashed"} :
             /\ End(i, to)
             /\ to = "exited" => phase[i] = "left"
             /\ to = "crashed" => Live(i)
      BY <1>3 DEF Exit, Crash
    <2>2. /\ phase' \in [Instances -> Phases] /\ phase'[i] = to
          /\ \A j \in Instances \ {i} : phase'[j] = phase[j]
      BY <2>1, Moving DEF End, Phases
    <2>3. Ends(i) /\ \A j \in Instances \ {i} : Stays(j)
      BY <2>1 DEF End, Ends, Stays, Typed
    <2>4. \A j \in Instances : Moves(j)
      BY <2>1, <2>2, <2>3 DEF Moves
    <2>5. UNCHANGED nr /\ inbox' \in [Instances -> Seq(Messages)]
          /\ nodes' \in [Instances -> SUBSET Instances]
      BY <2>1 DEF End, Typed
    <2> QED
      BY <2>1, <2>2, <2>3, <2>4, <2>5 DEF StepOf, Typed
  <1>4. ASSUME NEW i \in Instances, Meet(i) PROVE StepOf
    <2>1. /\ inbox[i] # <<>> /\ Introduces(i, Message(i)) /\ UNCHANGED <<phase, nr>>
          /\ inbox' = Posted(i, State(i)', Taken(i))
      BY <1>4 DEF Meet, Ready, State
    <2>2. /\ Working(i) /\ Working(i)' /\ Message(i) \in Messages
          /\ Taken(i) \in [Instances -> Seq(Messages)] /\ Taken(i)[i] = Tail(inbox[i])
          /\ \A j \in Instances \ {i} : Taken(i)[j] = inbox[j]
      BY <2>1, Handling DEF Working
    <2>3. /\ nodes' \in [Instances -> SUBSET Instances]
          /\ nodes'[i] \in SUBSET (nodes[i] \cup {Message(i).node})
          /\ \A j \in Instances \ {i} : nodes'[j] = nodes[j]
      BY <1>4, <2>2 DEF Meet, Typed, Messages
    <2>4. /\ inbox' \in [Instances -> Seq(Messages)] /\ inbox'[i] = Tail(inbox[i])
          /\ \A j \in Instances \ {i} : Stays(j) \/ Hears(j, i)
      <3>1. UNCHANGED nr /\ \A j \in Instances \ {i} :
              Taken(i)[j] = inbox[j] /\ phase'[j] = phase[j] /\ nodes'[j] = nodes[j]
        BY <2>1, <2>2, <2>3
      <3> QED
        BY <2>1, <2>2, <3>1, Posting
    <2>5. Takes(i)
      BY <2>1, <2>3, <2>4 DEF Takes, Introduces, Message
    <2> QED
      BY <2>1, <2>3, <2>4, <2>5 DEF StepOf, Typed, Moves
  <1>5. ASSUME NEW i \in Instances, Part(i) \/ Ignore(i) PROVE StepOf
    <2>1. inbox[i] # <<>> /\ inbox' = Taken(i) /\ UNCHANGED <<phase, nr>>
      BY <1>5 DEF Part, Ignore, Ready
    <2>2. /\ inbox' \in [Instances -> Seq(Messages)] /\ inbox'[i] = Tail(inbox[i])
          /\ \A j \in Instances \ {i} : inbox'[j] = inbox[j]
      BY <2>1, Handling
    <2>3. /\ nodes' \in [Instances -> SUBSET Instances]
          /\ \A j \in Instances \ {i} : nodes'[j] = nodes[j]
          /\ \/ Message(i).state = "unregister" /\ nodes'[i] = nodes[i] \ Same(i, Message(i).node)
             \/ Message(i).state # "unregister" /\ nodes'[i] = nodes[i]
      BY <1>5 DEF Part, Ignore, Typed
    <2>4. Takes(i)
      BY <2>1, <2>2, <2>3 DEF Takes, Message
    <2> QED
      BY <2>1, <2>2, <2>3, <2>4 DEF StepOf, Typed, Moves, Stays
  <1>6. ASSUME NEW i \in Instances, LateAnnounce(i) PROVE StepOf
    <2>1. UNCHANGED <<phase, nr, nodes>> /\ inbox' = Posted(i, State(i)', inbox)
      BY <1>6 DEF LateAnnounce, State, Typed
    <2>2. Working(i) /\ Working(i)'
      BY <1>6 DEF LateAnnounce, Working
    <2>3. /\ inbox' \in [Instances -> Seq(Messages)] /\ inbox'[i] = inbox[i]
          /\ \A j \in Instances \ {i} : Stays(j) \/ Hears(j, i)
      BY <2>1, <2>2, Posting DEF Typed
    <2>4. Stays(i)
      BY <2>1, <2>3 DEF Stays
    <2> QED
      BY <2>1, <2>3, <2>4 DEF StepOf, Typed, Moves
  <1>7. ASSUME UNCHANGED <<phase, nr, nodes, inbox>> PROVE StepOf
    BY <1>7 DEF StepOf, Typed, Moves, Stays
  <1> QED
    BY <1>1, <1>2, <1>3, <1>4, <1>5, <1>6, <1>7
    DEF Next, Startup, Shutdown, Handle, Met, Parted, LateIdle, vars

\* Whose idle() came late keeps it, and nobody's does before the shutdown.
LEMMA LatesKept ==
  ASSUME Typed, Heard, Lates, [Next]_vars
  PROVE  Lates' /\ \A i \in Instances : LeftIdle(i) => LeftIdle(i)'
  <1>1. ASSUME UNCHANGED late
        PROVE  Lates' /\ \A i \in Instances : LeftIdle(i) => LeftIdle(i)'
    <2>1. StepOf
      BY Steps
    <2> QED
      BY <1>1, <2>1 DEF Lates, LeftIdle, StepOf, Moves
  <1>2. ASSUME NEW i \in Instances, Unregister(i) \/ LateAnnounce(i) \/ LateIdle(i)
        PROVE  Lates' /\ \A j \in Instances : LeftIdle(j) => LeftIdle(j)'
    <2>1. PICK to \in Lateness : late' = [late EXCEPT ![i] = to]
      BY <1>2 DEF Unregister, LateAnnounce, LateIdle, Lateness
    <2>2. late[i] # "idled"
      BY <1>2 DEF Unregister, LateAnnounce, LateIdle, Lates
    <2>3. /\ phase'[i] \in {"leaving", "left"}
          /\ \A j \in Instances \ {i} : phase'[j] = phase[j]
      BY <1>2, Moving DEF Unregister, LateAnnounce, LateIdle, Phases
    <2> QED
      BY <2>1, <2>2, <2>3 DEF Lates, LeftIdle
  <1>3. ASSUME NEW i \in Instances, Exit(i) \/ Crash(i)
        PROVE  Lates' /\ \A j \in Instances : LeftIdle(j) => LeftIdle(j)'
    <2>1. PICK to \in {"exited", "crashed"} : End(i, to)
      BY <1>3 DEF Exit, Crash
    <2>2. /\ phase'[i] = to
          /\ \A j \in Instances \ {i} : phase'[j] = phase[j]
      BY <2>1, Moving DEF End, Phases
    <2>3. late' = [late EXCEPT ![i] = IF @ = "idled" THEN @ ELSE "nothing"]
      BY <2>1 DEF End
    <2> QED
      BY <2>2, <2>3 DEF Lates, LeftIdle, Lateness
  <1> QED
    BY <1>1, <1>2, <1>3
    DEF Next, Startup, Shutdown, Handle, Start, Subscribe, Announce, Idle, Offline, Depart,
        Meet, Met, Part, Parted, Ignore, vars

-----------------------------------------------------------------------------
\* What is known after a step

\* Who has joined stays so and keeps its number; who works goes on, or ends knowing nobody.
LEMMA Staying ==
  ASSUME StepOf, NEW i \in Instances
  PROVE  /\ Joined(i) => Joined(i)' /\ nr'[i] = nr[i]
         /\ Working(i) => Working(i)' \/ Ends(i)
         /\ phase[i] \in {"leaving", "left", "exited", "crashed"} =>
              phase'[i] \in {"leaving", "left", "exited", "crashed"}
         /\ phase[i] \in {"exited", "crashed"} => phase'[i] \in {"exited", "crashed"}
         /\ Subscribed(i)' => Subscribed(i) \/ phase[i] = "startup"
         /\ phase'[i] = "exited" => phase[i] \in {"left", "exited"}
  BY DEF StepOf, Moves, Joined, Working, Subscribed, Live

\* Whoever ends knows nobody.
LEMMA Ending ==
  ASSUME NEW i \in Instances, Ends(i)
  PROVE  Box(i)' = {} /\ \A k \in Instances : \A p \in {0} : ~ Knows(i, k, p)'
  BY DEF Ends, Box, Knows

\* The messages of an instance are the ones of before, moved on by one if it took one,
\* and what it just heard.
Moved(i, d) ==
  /\ \A q \in Box(i)' :
       \/ q + d \in Box(i) /\ inbox'[i][q] = inbox[i][q + d]
       \/ d = 0 /\ q = Len(inbox[i]) + 1 /\ \E j \in Instances :
            Hears(i, j) /\ inbox'[i][q] = [node |-> j, state |-> State(j)']
  /\ \A q \in Box(i) : q > d => q - d \in Box(i)' /\ inbox'[i][q - d] = inbox[i][q]

LEMMA Resting ==
  ASSUME Typed, NEW i \in Instances,
         Stays(i) \/ \E j \in Instances : Hears(i, j)
  PROVE  /\ Moved(i, 0) /\ nodes'[i] = nodes[i]
         /\ ~ Takes(i)
  <1>1. inbox[i] \in Seq(Messages)
    BY DEF Typed
  <1>2. CASE Stays(i)
    <2>1. ~ Takes(i)
      <3>1. inbox[i] # <<>> => Len(Tail(inbox[i])) = Len(inbox[i]) - 1 /\ Len(inbox[i]) \in Nat
        BY <1>1, Taking
      <3>2. Len(inbox[i]) \in Nat => Len(inbox[i]) # Len(inbox[i]) - 1
        OBVIOUS
      <3>3. inbox[i] # <<>> => Tail(inbox[i]) # inbox[i]
        BY <3>1, <3>2, Zenon
      <3> QED
        BY <1>2, <3>3 DEF Stays, Takes
    <2> QED
      BY <1>1, <1>2, <2>1 DEF Stays, Moved, Box
  <1>3. ASSUME NEW j \in Instances, Hears(i, j)
        PROVE  /\ Moved(i, 0) /\ nodes'[i] = nodes[i]
               /\ ~ Takes(i)
    <2> DEFINE m == [node |-> j, state |-> State(j)']
    <2>1. m \in Messages
      BY <1>3 DEF Messages, State, Hears, Working
    <2>2. inbox'[i] = Append(inbox[i], m) /\ nodes'[i] = nodes[i]
      BY <1>3 DEF Hears
    <2>3. /\ Len(inbox'[i]) = Len(inbox[i]) + 1 /\ Len(inbox[i]) \in Nat
          /\ \A p \in 1 .. Len(inbox[i]) : inbox'[i][p] = inbox[i][p]
          /\ inbox'[i][Len(inbox[i]) + 1] = m
      BY <1>1, <2>1, <2>2, Appending
    <2>4. \A q \in Box(i)' : q \in Box(i) \/ q = Len(inbox[i]) + 1
      BY <2>3 DEF Box
    <2>5. \A q \in Box(i) : q + 0 = q /\ q - 0 = q /\ q \in Box(i)'
      BY <2>3 DEF Box
    <2>6. \A q \in Box(i) : inbox'[i][q] = inbox[i][q]
      BY <2>3 DEF Box
    <2>7. ~ Takes(i)
      <3>1. inbox[i] # <<>> => Len(Tail(inbox[i])) = Len(inbox[i]) - 1
        BY <1>1, Taking
      <3>2. Len(inbox'[i]) # Len(inbox[i]) - 1
        BY <2>3
      <3> QED
        BY <3>1, <3>2 DEF Takes
    <2> QED
      BY <1>3, <2>2, <2>3, <2>4, <2>5, <2>6, <2>7 DEF Moved
  <1> QED
    BY <1>2, <1>3

LEMMA MovingOn ==
  ASSUME Typed, NEW i \in Instances, inbox[i] # <<>>, inbox'[i] = Tail(inbox[i])
  PROVE  Moved(i, 1)
  <1>1. inbox[i] \in Seq(Messages)
    BY DEF Typed
  <1>2. /\ Len(inbox'[i]) = Len(inbox[i]) - 1 /\ Len(inbox[i]) \in Nat \ {0}
        /\ \A p \in 1 .. Len(inbox[i]) - 1 : inbox'[i][p] = inbox[i][p + 1]
    BY <1>1, Taking
  <1>3. \A q \in Box(i)' : q + 1 \in Box(i) /\ inbox'[i][q] = inbox[i][q + 1]
    BY <1>2 DEF Box
  <1>4. \A q \in Box(i) : q > 1 => q - 1 \in Box(i)' /\ inbox'[i][q - 1] = inbox[i][(q - 1) + 1]
                                   /\ (q - 1) + 1 = q
    BY <1>2 DEF Box
  <1> QED
    BY <1>3, <1>4 DEF Moved

LEMMA Shifting ==
  ASSUME Typed, StepOf, NEW i \in Instances, ~ Ends(i)
  PROVE  \/ ~ Takes(i) /\ Moved(i, 0) /\ nodes'[i] = nodes[i]
         \/ Takes(i) /\ Moved(i, 1)
  BY Resting, MovingOn DEF StepOf, Takes

\* What an instance knows after a step it has just heard, or knew before, from the same
\* place or from the one behind it.
LEMMA Origin ==
  ASSUME Typed, StepOf, NEW i \in Instances, NEW k \in Instances, NEW p \in (Box(i) \cup {0})',
         Knows(i, k, p)'
  PROVE  \/ /\ p = Len(inbox[i]) + 1 /\ Hears(i, k) /\ inbox'[i][p].state = State(k)'
            /\ ~ Takes(i) /\ Moved(i, 0)
         \/ \E o \in Box(i) \cup {0} :
              /\ Knows(i, k, o)
              /\ KnowsIn(i, k, p)' => KnowsIn(i, k, o)
              /\ \/ ~ Takes(i) /\ Moved(i, 0) /\ o = p
                 \/ Takes(i) /\ Moved(i, 1) /\ o = p + 1
                 \/ Takes(i) /\ Moved(i, 1) /\ o = 0 /\ p = 0 /\ k \in nodes[i] /\ k \in nodes'[i]
  <1> DEFINE Inherited(o) ==
        /\ Knows(i, k, o)
        /\ KnowsIn(i, k, p)' => KnowsIn(i, k, o)
        /\ \/ ~ Takes(i) /\ Moved(i, 0) /\ o = p
           \/ Takes(i) /\ Moved(i, 1) /\ o = p + 1
           \/ Takes(i) /\ Moved(i, 1) /\ o = 0 /\ p = 0 /\ k \in nodes[i] /\ k \in nodes'[i]
  <1>1. ~ Ends(i)
    BY Ending
  <1>2. 0 \notin Box(i) /\ 0 \notin Box(i)' /\ p \in Nat
    BY DEF Box
  <1>3. CASE p = 0
    <2>1. k \in nodes'[i]
      BY <1>2, <1>3 DEF Knows
    <2>2. CASE k \in nodes[i]
      <3>1. Knows(i, k, 0) /\ KnowsIn(i, k, 0)
        BY <2>2 DEF Knows, KnowsIn
      <3>2. Inherited(0)
        BY <1>1, <1>3, <2>1, <2>2, <3>1, Shifting
      <3> QED
        BY <3>2
    <2>3. CASE k \notin nodes[i]
      <3>1. Takes(i) /\ Moved(i, 1)
        BY <1>1, <2>1, <2>3, Shifting
      <3>2. inbox[i][1].node = k /\ inbox[i][1].state # "unregister" /\ 1 \in Box(i)
        <4>1. inbox[i] \in Seq(Messages)
          BY DEF Typed
        <4>2. Head(inbox[i]) = inbox[i][1] /\ 1 \in Box(i)
          BY <3>1, <4>1, Taking DEF Takes, Box
        <4> QED
          BY <2>1, <2>3, <3>1, <4>2 DEF Takes
      <3>3. Knows(i, k, 1) /\ KnowsIn(i, k, 1)
        BY <3>2 DEF Knows, KnowsIn
      <3>4. Inherited(1)
        BY <1>3, <3>1, <3>3
      <3> QED
        BY <3>2, <3>4
    <2> QED
      BY <2>2, <2>3
  <1>4. CASE p # 0
    <2>1. p \in Box(i)' /\ inbox'[i][p].node = k
      BY <1>4 DEF Knows
    <2>2. CASE ~ Takes(i) /\ Moved(i, 0)
      <3>1. p + 0 = p
        BY <1>2
      <3>2. CASE p \in Box(i) /\ inbox'[i][p] = inbox[i][p]
        <4>1. Inherited(p)
          BY <1>4, <2>1, <2>2, <3>2 DEF Knows, KnowsIn
        <4> QED
          BY <3>2, <4>1
      <3>3. CASE p = Len(inbox[i]) + 1 /\ \E j \in Instances :
                   Hears(i, j) /\ inbox'[i][p] = [node |-> j, state |-> State(j)']
        BY <2>1, <2>2, <3>3
      <3> QED
        BY <2>1, <2>2, <3>1, <3>2, <3>3 DEF Moved
    <2>3. CASE Takes(i) /\ Moved(i, 1)
      <3>1. p + 1 \in Box(i) /\ inbox'[i][p] = inbox[i][p + 1]
        BY <2>1, <2>3 DEF Moved
      <3>2. Inherited(p + 1)
        BY <1>4, <2>1, <2>3, <3>1 DEF Knows, KnowsIn
      <3> QED
        BY <3>1, <3>2
    <2> QED
      BY <1>1, <2>2, <2>3, Shifting
  <1> QED
    BY <1>3, <1>4

-----------------------------------------------------------------------------
\* The invariant

LEMMA HeardKept ==
  ASSUME NodesInv, StepOf
  PROVE  Heard'
  <1> SUFFICES ASSUME NEW i \in Instances, NEW k \in Instances, NEW p \in (Box(i) \cup {0})',
                      Knows(i, k, p)'
               PROVE  Working(i)' /\ Joined(k)' /\ ~ EqNode(i, k)'
    BY DEF Heard
  <1>1. ~ Ends(i)
    BY Ending
  <1>2. Working(i) /\ Joined(k) /\ ~ EqNode(i, k)
    <2>1. CASE Hears(i, k)
      BY <2>1 DEF Hears, Working, Subscribed, Joined
    <2>2. CASE \E o \in Box(i) \cup {0} : Knows(i, k, o)
      BY <2>2 DEF NodesInv, Heard
    <2> QED
      BY <2>1, <2>2, Origin DEF NodesInv
  <1>3. nr'[i] = nr[i] /\ nr'[k] = nr[k] /\ Working(i)' /\ Joined(k)'
    BY <1>1, <1>2, Staying DEF Joined
  <1> QED
    BY <1>2, <1>3 DEF EqNode

LEMMA SaidKept ==
  ASSUME NodesInv, StepOf
  PROVE  Said'
  <1> SUFFICES ASSUME NEW i \in Instances, NEW p \in Box(i)', inbox'[i][p].state = "unregister"
               PROVE  phase'[inbox'[i][p].node] \in {"leaving", "left", "exited", "crashed"}
    BY DEF Said
  <1>1. p \in Nat \ {0} /\ inbox'[i][p] \in Messages
    <2>1. inbox'[i] \in Seq(Messages)
      BY DEF StepOf, Typed
    <2> QED
      BY <2>1 DEF Box
  <1>2. PICK k \in Instances : inbox'[i][p].node = k
    BY <1>1 DEF Messages
  <1>3. Knows(i, k, p)'
    BY <1>2 DEF Knows
  <1>4. CASE Hears(i, k) /\ inbox'[i][p].state = State(k)'
    <2>1. Working(k)' /\ State(k)' = "unregister"
      BY <1>4 DEF Hears
    <2>2. phase'[k] \in {"leaving", "left"}
      BY <2>1 DEF State, Working
    <2> QED
      BY <1>2, <2>2
  <1>5. ASSUME ~ (Hears(i, k) /\ inbox'[i][p].state = State(k)')
        PROVE  phase[k] \in {"leaving", "left", "exited", "crashed"}
    <2>1. PICK o \in Box(i) \cup {0} :
             /\ Knows(i, k, o)
             /\ \/ Moved(i, 0) /\ o = p
                \/ Moved(i, 1) /\ o = p + 1
      BY <1>1, <1>3, <1>5, Origin DEF NodesInv
    <2>2. o # 0 /\ p + 0 = p /\ o \in Box(i)
      BY <1>1, <2>1
    <2>3. inbox'[i][p] = inbox[i][o]
      <3>1. CASE Moved(i, 0) /\ o = p
        <4>1. CASE inbox'[i][p] = inbox[i][p + 0]
          BY <2>2, <3>1, <4>1
        <4>2. ASSUME NEW j \in Instances, Hears(i, j), inbox'[i][p] = [node |-> j, state |-> State(j)']
              PROVE  FALSE
          <5>1. j = k /\ inbox'[i][p].state = State(j)'
            BY <1>2, <4>2
          <5> QED
            BY <1>5, <4>2, <5>1
        <4> QED
          BY <3>1, <4>1, <4>2 DEF Moved
      <3>2. CASE Moved(i, 1) /\ o = p + 1
        <4>1. inbox'[i][p] = inbox[i][p + 1] \/ 1 = 0
          BY <3>2 DEF Moved
        <4> QED
          BY <3>2, <4>1
      <3> QED
        BY <2>1, <3>1, <3>2
    <2> QED
      BY <1>2, <2>2, <2>3 DEF NodesInv, Said
  <1>6. CASE ~ (Hears(i, k) /\ inbox'[i][p].state = State(k)')
    BY <1>2, <1>5, <1>6, Staying
  <1> QED
    BY <1>4, <1>6

LEMMA LastWordKept ==
  ASSUME NodesInv, StepOf, \A i \in Instances : LeftIdle(i) => LeftIdle(i)'
  PROVE  LastWord'
  <1> SUFFICES ASSUME NEW i \in Instances, NEW j \in Instances, NEW p \in (Box(i) \cup {0})',
                      Subscribed(i)', phase'[j] \in {"left", "exited"}, ~ LeftIdle(j)',
                      KnowsIn(i, j, p)'
               PROVE  \E q \in Box(i)' : q > p /\ Unregisters(inbox'[i][q], j)
    BY DEF LastWord, Unregisters
  <1> USE DEF NodesInv
  <1>1. Knows(i, j, p)' /\ ~ Ends(i)
    BY Ending DEF KnowsIn
  <1>2. inbox[i] \in Seq(Messages) /\ Len(inbox[i]) \in Nat /\ p \in Nat
    BY DEF Typed, Box
  \* It has just left: the news come behind everything.
  <1>3. CASE phase[j] \notin {"left", "exited"}
    <2>1. phase'[j] = "left" /\ Working(j)'
      BY <1>3, Staying DEF Working
    <2>2. Working(i) /\ ~ EqNode(i, j)
      <3>1. CASE Hears(i, j)
        BY <3>1 DEF Hears, Working, Subscribed
      <3>2. CASE \E o \in Box(i) \cup {0} : Knows(i, j, o)
        BY <3>2 DEF Heard
      <3> QED
        BY <1>1, <3>1, <3>2, Origin
    <2>3. Subscribed(i)
      BY <2>2, Staying DEF Working, Subscribed
    <2>4. Hears(i, j)
      BY <1>3, <2>1, <2>2, <2>3 DEF StepOf
    <2> DEFINE m == [node |-> j, state |-> State(j)']
    <2>5. m.node = j /\ m.state = "unregister" /\ m \in Messages
      BY <2>1 DEF State, Messages, LeftIdle
    <2>6. /\ Len(inbox'[i]) = Len(inbox[i]) + 1
          /\ \A q \in 1 .. Len(inbox[i]) : inbox'[i][q] = inbox[i][q]
          /\ inbox'[i][Len(inbox[i]) + 1] = m
      BY <1>2, <2>4, <2>5, Appending DEF Hears
    <2>7. p # Len(inbox[i]) + 1
      <3>1. CASE p = Len(inbox[i]) + 1
        <4>1. p # 0 /\ inbox'[i][p].state = "unregister"
          BY <1>2, <2>5, <2>6, <3>1
        <4> QED
          BY <4>1 DEF KnowsIn
      <3> QED
        BY <3>1
    <2>8. Len(inbox[i]) + 1 \in Box(i)' /\ Len(inbox[i]) + 1 > p
      BY <1>2, <2>6, <2>7 DEF Box
    <2> QED
      BY <2>5, <2>6, <2>8 DEF Unregisters
  \* It had left before: the news are still to come.
  <1>4. CASE phase[j] \in {"left", "exited"}
    <2>1. PICK o \in Box(i) \cup {0} :
             /\ KnowsIn(i, j, o)
             /\ \/ ~ Takes(i) /\ Moved(i, 0) /\ o = p
                \/ Takes(i) /\ Moved(i, 1) /\ o = p + 1
                \/ Takes(i) /\ Moved(i, 1) /\ o = 0 /\ p = 0 /\ j \in nodes[i] /\ j \in nodes'[i]
      <3>1. CASE /\ p = Len(inbox[i]) + 1 /\ Hears(i, j) /\ inbox'[i][p].state = State(j)'
        <4>1. p # 0 /\ inbox'[i][p].state = "unregister"
          BY <1>2, <3>1 DEF State, LeftIdle
        <4> QED
          BY <4>1 DEF KnowsIn
      <3> QED
        BY <1>1, <3>1, Origin
    <2>2. Working(i)
      BY <2>1 DEF Heard, KnowsIn
    <2>3. Subscribed(i)
      BY <2>2, Staying DEF Working, Subscribed
    <2>4. PICK q \in Box(i) : q > o /\ Unregisters(inbox[i][q], j)
      BY <1>4, <2>1, <2>3 DEF LastWord
    <2>5. CASE Moved(i, 0) /\ o = p
      <3>1. q > 0 /\ q - 0 = q
        BY DEF Box
      <3> QED
        BY <2>4, <2>5, <3>1 DEF Moved
    <2>6. CASE Moved(i, 1) /\ o = p + 1
      <3>1. q > 1 /\ q - 1 > p
        BY <1>2, <2>4, <2>6 DEF Box
      <3> QED
        BY <2>4, <2>6, <3>1 DEF Moved
    <2>7. CASE Takes(i) /\ Moved(i, 1) /\ p = 0 /\ j \in nodes[i] /\ j \in nodes'[i]
      <3>1. q # 1
        <4>1. SUFFICES ASSUME q = 1 PROVE FALSE
          OBVIOUS
        <4>2. Head(inbox[i]) = inbox[i][1]
          BY <1>2, <2>7, Taking DEF Takes
        <4>3. nodes'[i] = nodes[i] \ Same(i, j)
          BY <2>4, <2>7, <4>1, <4>2 DEF Takes, Unregisters
        <4>4. j \in Same(i, j)
          BY <2>7 DEF Same, EqNode
        <4> QED
          BY <2>7, <4>3, <4>4
      <3>2. q > 1 /\ q - 1 > p
        BY <2>7, <3>1 DEF Box
      <3> QED
        BY <2>4, <2>7, <3>2 DEF Moved
    <2> QED
      BY <2>1, <2>5, <2>6, <2>7
  <1> QED
    BY <1>3, <1>4

\* The inductive invariant: who knows and is known works or has worked, who says that
\* it leaves does, and behind everything that is known of an instance that has left
\* its last word still waits, if idle() did not come after its unregister().
THEOREM NodesInvariant == Spec => []NodesInv
  <1>1. Init => NodesInv
    <2> SUFFICES ASSUME Init PROVE NodesInv
      OBVIOUS
    <2>1. Typed /\ Lates
      BY DEF Init, Typed, Lates, Phases, Lateness
    <2>2. \A i \in Instances : Box(i) = {} /\ nodes[i] = {} /\ ~ Subscribed(i)
      BY DEF Init, Box, Subscribed
    <2> QED
      BY <2>1, <2>2 DEF NodesInv, Heard, Said, LastWord, Knows
  <1>2. NodesInv /\ [Next]_vars => NodesInv'
    BY Steps, LatesKept, HeardKept, SaidKept, LastWordKept DEF NodesInv, StepOf
  <1> QED
    BY <1>1, <1>2, PTL DEF Spec

\* Nobody keeps an instance that has left in its list when all is at rest, whoever came,
\* crashed or came back before: the last word of an instance reaches everyone who knows it.
\* An instance whose idle() came after its unregister() has no such last word.
THEOREM GhostsGo == Spec => []NoGhosts
  <1>1. NodesInv => NoGhosts
    <2> SUFFICES ASSUME NodesInv, Quiet, NEW i \in Idling, NEW j \in nodes[i]
                 PROVE  phase[j] \in {"idle", "crashed"} \/ LeftIdle(j)
      BY DEF NoGhosts
    <2>1. i \in Instances /\ j \in Instances /\ Subscribed(i) /\ Box(i) = {}
      BY DEF Idling, Subscribed, Quiet, Box, NodesInv, Typed
    <2>2. Knows(i, j, 0) /\ KnowsIn(i, j, 0)
      BY DEF Knows, KnowsIn
    <2>3. Joined(j)
      BY <2>1, <2>2 DEF NodesInv, Heard
    <2>4. phase[j] \notin {"left", "exited"} \/ LeftIdle(j)
      BY <2>1, <2>2 DEF NodesInv, LastWord
    <2> QED
      BY <2>1, <2>3, <2>4 DEF Joined, Working, Quiet
  <1> QED
    BY <1>1, NodesInvariant, PTL

-----------------------------------------------------------------------------
\* One instance of a node at a time

LEMMA OneAtATimeKept ==
  ASSUME NodesInv, ~ Overlapping, OneAtATime, [Next]_vars
  PROVE  OneAtATime'
  <1>1. StepOf
    BY Steps DEF NodesInv
  <1>2. ASSUME NEW i \in Instances, Start(i) PROVE OneAtATime'
    <2>1. \A j \in Instances : NodeOf[j] = NodeOf[i] => ~ Live(j)
      BY <1>2 DEF Start
    <2>2. \A j \in Instances \ {i} : Live(j)' <=> Live(j)
      BY <1>2, Moving DEF Start, Phases, Live, NodesInv
    <2> QED
      BY <2>1, <2>2 DEF OneAtATime
  <1>3. ASSUME \A i \in Instances : ~ Start(i) PROVE OneAtATime'
    <2>1. ASSUME NEW j \in Instances, phase[j] = "off" PROVE phase'[j] = "off"
      <3>1. CASE phase' = phase
        BY <2>1, <3>1
      <3>2. CASE phase' # phase
        <4>1. PICK i \in Instances, to \in Phases : GoTo(i, to) /\ phase[i] # "off"
          BY <1>3, <3>2
          DEF Next, Startup, Shutdown, Handle, Subscribe, Announce, Idle, Unregister, Depart, Offline,
              LateAnnounce, LateIdle, Exit, Crash, End, Live, Meet, Met, Part, Parted, Ignore, Phases, vars
        <4> QED
          BY <2>1, <4>1, Moving DEF NodesInv
      <3> QED
        BY <3>1, <3>2
    <2>2. \A j \in Instances : Live(j)' => Live(j)
      BY <1>1, <2>1 DEF StepOf, Moves, Live
    <2> QED
      BY <2>2 DEF OneAtATime
  <1> QED
    BY <1>2, <1>3

LEMMA InOrderKept ==
  ASSUME NodesInv, StepOf, InOrder, OneAtATime'
  PROVE  InOrder'
  <1> SUFFICES ASSUME NEW i \in Instances, NEW j \in Instances, NEW k \in Instances,
                      NEW p \in (Box(i) \cup {0})', NEW q \in Box(i)',
                      Knows(i, k, p)', q > p, Unregisters(inbox'[i][q], j),
                      NodeOf[k] = NodeOf[j], k # j
               PROVE  ~ Live(k)'
    BY DEF InOrder, Unregisters
  <1>1. inbox[i] \in Seq(Messages) /\ Len(inbox[i]) \in Nat /\ p \in Nat /\ q \in Nat /\ q # 0
    BY DEF Typed, Box, NodesInv
  <1>2. Knows(i, j, q)'
    BY DEF Knows, Unregisters
  \* The last word of j is new: k does not live, since j does.
  <1>3. CASE Hears(i, j) /\ inbox'[i][q].state = State(j)'
    <2>1. State(j)' = "unregister" /\ Working(j)'
      BY <1>3 DEF Unregisters, Hears
    <2>2. Live(j)'
      BY <2>1 DEF Working, Live
    <2> QED
      BY <2>2 DEF OneAtATime
  \* It was there before, and so was what is known of k.
  <1>4. CASE ~ (Hears(i, j) /\ inbox'[i][q].state = State(j)')
    <2>1. PICK r \in Box(i) \cup {0} :
             /\ Knows(i, j, r)
             /\ \/ ~ Takes(i) /\ Moved(i, 0) /\ r = q
                \/ Takes(i) /\ Moved(i, 1) /\ r = q + 1
      BY <1>1, <1>2, <1>4, Origin DEF NodesInv
    <2>2. r \in Box(i) /\ r # 0 /\ r \in Nat
      BY <1>1, <2>1 DEF Box
    <2>3. inbox'[i][q] = inbox[i][r]
      <3>1. CASE Moved(i, 0) /\ r = q
        <4>1. q + 0 = q
          BY <1>1
        <4>2. q # Len(inbox[i]) + 1
          BY <1>1, <2>2, <3>1 DEF Box
        <4>3. inbox'[i][q] = inbox[i][q + 0]
          BY <3>1, <4>2 DEF Moved
        <4> QED
          BY <3>1, <4>1, <4>3
      <3>2. CASE Moved(i, 1) /\ r = q + 1
        <4>1. inbox'[i][q] = inbox[i][q + 1] \/ 1 = 0
          BY <3>2 DEF Moved
        <4> QED
          BY <3>2, <4>1
      <3> QED
        BY <2>1, <3>1, <3>2
    <2>4. PICK o \in Box(i) \cup {0} :
             /\ Knows(i, k, o)
             /\ \/ ~ Takes(i) /\ o = p
                \/ Takes(i) /\ o = p + 1
                \/ Takes(i) /\ o = 0 /\ p = 0
      <3>1. ~ (p = Len(inbox[i]) + 1 /\ ~ Takes(i))
        BY <1>1, <2>1, <2>2 DEF Box
      <3> QED
        BY <3>1, Origin DEF NodesInv
    <2>5. r > o
      BY <1>1, <2>1, <2>2, <2>4
    <2>6. ~ Live(k)
      BY <2>2, <2>3, <2>4, <2>5 DEF InOrder
    <2>7. Joined(k)
      BY <2>4 DEF NodesInv, Heard
    <2>8. phase[k] \in {"exited", "crashed"}
      BY <2>6, <2>7 DEF Live, Joined, Working
    <2> QED
      BY <2>8, Staying DEF Live
  <1> QED
    BY <1>3, <1>4

OrderInv == NodesInv /\ OneAtATime /\ InOrder

\* As long as an instance starts only when no other of its node lives, what is known of
\* an instance when the last word of its predecessor arrives is about nobody who lives.
THEOREM OrderInvariant ==
  ASSUME ~ Overlapping
  PROVE  Spec => []OrderInv
  <1>1. Init => OneAtATime /\ InOrder
    BY DEF Init, OneAtATime, InOrder, Live, Box, Knows
  <1>2. NodesInv /\ OneAtATime /\ InOrder /\ [Next]_vars => (OneAtATime /\ InOrder)'
    BY Steps, OneAtATimeKept, InOrderKept DEF NodesInv
  <1> QED
    BY <1>1, <1>2, NodesInvariant, PTL DEF Spec, OrderInv

-----------------------------------------------------------------------------
\* The system implements Membership

Lives == [i \in Instances |-> LifeOf(i)]

LEMMA Living ==
  ASSUME Typed, NEW i \in Instances, NEW to \in Phases, GoTo(i, to)
  PROVE  /\ Lives' = [Lives EXCEPT ![i] = LifeOf(i)']
         /\ phase'[i] = to /\ Lives[i] = LifeOf(i)
         /\ LifeOf(i)' = LifeOf(i) => Lives' = Lives
  <1>1. phase'[i] = to /\ \A j \in Instances \ {i} : phase'[j] = phase[j]
    BY Moving
  <1>2. \A j \in Instances \ {i} : LifeOf(j)' = LifeOf(j)
    BY <1>1 DEF LifeOf
  <1>3. \A j \in Instances : Lives[j] = LifeOf(j) /\ Lives'[j] = LifeOf(j)'
    BY DEF Lives
  <1> QED
    BY <1>1, <1>2, <1>3 DEF Lives

\* Nobody is forgotten who is still in: of the same node and number as the one that
\* leaves is only this one itself, or an instance that is no more.
LEMMA Forgetting ==
  ASSUME OrderInv, NEW i \in Instances, Part(i), NEW k \in Same(i, Message(i).node)
  PROVE  Lives[k] \in {"out", "down"}
  <1> DEFINE j == Message(i).node
  <1>1. inbox[i] # <<>> /\ Message(i).state = "unregister"
    BY DEF Part, Ready
  <1>2. Message(i) = inbox[i][1] /\ Message(i) \in Messages /\ 1 \in Box(i)
    BY <1>1, Handling DEF OrderInv, NodesInv
  <1>3. k \in nodes[i] /\ k \in Instances /\ NodeOf[k] = NodeOf[j]
    BY DEF Same, EqNode, OrderInv, NodesInv, Typed
  <1>4. Knows(i, k, 0) /\ j \in Instances /\ Unregisters(inbox[i][1], j)
    BY <1>1, <1>2, <1>3 DEF Knows, Messages, Unregisters
  <1>5. phase[j] \in {"leaving", "left", "exited", "crashed"}
    BY <1>1, <1>2 DEF OrderInv, NodesInv, Said
  <1>6. Joined(k)
    BY <1>3, <1>4 DEF OrderInv, NodesInv, Heard
  <1>7. k = j \/ ~ Live(k)
    BY <1>2, <1>3, <1>4 DEF OrderInv, InOrder
  <1>8. phase[k] \in {"leaving", "left", "exited", "crashed"}
    BY <1>5, <1>6, <1>7 DEF Live, Joined, Working
  <1> QED
    BY <1>3, <1>8 DEF Lives, LifeOf

LEMMA Refining ==
  ASSUME OrderInv, [Next]_vars
  PROVE  M!Next \/ UNCHANGED <<Lives, nodes>>
  <1> USE DEF OrderInv, NodesInv
  <1>1. ASSUME UNCHANGED <<phase, nodes>> PROVE UNCHANGED <<Lives, nodes>>
    BY <1>1 DEF Lives, LifeOf
  <1>2. ASSUME NEW i \in Instances,
               Start(i) \/ Announce(i) \/ Idle(i) \/ Depart(i) \/ Offline(i)
        PROVE  UNCHANGED <<Lives, nodes>>
    <2>1. PICK to \in Phases :
             GoTo(i, to) /\ <<phase[i], to>> \in
               {<<"off", "startup">>, <<"subscribed", "announced">>, <<"announced", "idle">>,
                <<"startup", "alone">>, <<"leaving", "left">>, <<"alone", "offline">>}
      BY <1>2 DEF Start, Announce, Idle, Depart, Offline, Phases
    <2>2. LifeOf(i)' = LifeOf(i)
      BY <2>1, Living DEF LifeOf
    <2> QED
      BY <1>2, <2>1, <2>2, Living DEF Start, Announce, Idle, Depart, Offline
  <1>3. ASSUME NEW i \in Instances, Subscribe(i) PROVE M!Next
    <2>1. Lives' = [Lives EXCEPT ![i] = "in"] /\ Lives[i] = "new"
      BY <1>3, Living DEF Subscribe, LifeOf, Phases
    <2>2. M!Join(i)
      BY <1>3, <2>1 DEF M!Join, M!Become, Subscribe, Lives
    <2> QED
      BY <2>2 DEF M!Next
  <1>4. ASSUME NEW i \in Instances, Unregister(i) PROVE M!Next
    <2>1. Lives' = [Lives EXCEPT ![i] = "out"] /\ Lives[i] = "in"
      BY <1>4, Living DEF Unregister, LifeOf, Phases
    <2>2. M!Leave(i)
      BY <1>4, <2>1 DEF M!Leave, M!Become, Unregister, Lives
    <2> QED
      BY <2>2 DEF M!Next
  <1>5. ASSUME NEW i \in Instances, Exit(i) PROVE M!Next
    <2>1. Lives' = [Lives EXCEPT ![i] = "out"] /\ Lives[i] = "out"
      BY <1>5, Living DEF Exit, End, LifeOf, Phases
    <2>2. M!End(i)
      BY <1>5, <2>1 DEF M!End, M!Become, Exit, End, Lives
    <2> QED
      BY <2>2 DEF M!Next
  <1>6. ASSUME NEW i \in Instances, Crash(i) PROVE M!Next
    <2>1. Lives' = [Lives EXCEPT ![i] = "down"] /\ Lives[i] \in {"new", "in", "out"}
      BY <1>6, Living DEF Crash, End, LifeOf, Phases, Live
    <2>2. M!Fail(i)
      BY <1>6, <2>1 DEF M!Fail, M!Become, Crash, End, Lives
    <2> QED
      BY <2>2 DEF M!Next
  <1>7. ASSUME NEW i \in Instances, Meet(i) PROVE M!Next \/ UNCHANGED <<Lives, nodes>>
    <2> DEFINE j == Message(i).node
    <2>1. inbox[i] # <<>> /\ Message(i).state # "unregister" /\ UNCHANGED Lives
      BY <1>7, <1>1 DEF Meet, Ready, Introduces, Lives, LifeOf
    <2>2. Message(i) = inbox[i][1] /\ Message(i) \in Messages /\ 1 \in Box(i)
      BY <2>1, Handling
    <2>3. j \in Instances /\ Knows(i, j, 1)
      BY <2>2 DEF Knows, Messages
    <2>4. Joined(j) /\ ~ EqNode(i, j)
      BY <2>2, <2>3 DEF Heard
    <2>5. j # i /\ Lives[j] # "new"
      BY <2>3, <2>4 DEF EqNode, Joined, Working, Lives, LifeOf
    <2>6. CASE Known(i, j)
      <3>1. nodes' = [nodes EXCEPT ![i] = nodes[i]]
        BY <1>7, <2>6 DEF Meet
      <3>2. nodes' = nodes
        BY <3>1 DEF Typed
      <3> QED
        BY <2>1, <3>2
    <2>7. CASE ~ Known(i, j)
      <3>1. nodes' = [nodes EXCEPT ![i] = @ \cup {j}]
        BY <1>7, <2>7 DEF Meet
      <3>2. M!Learn(i, j)
        BY <2>1, <2>5, <3>1 DEF M!Learn, Lives
      <3> QED
        BY <2>3, <3>2 DEF M!Next
    <2> QED
      BY <2>6, <2>7
  <1>8. ASSUME NEW i \in Instances, Part(i) PROVE M!Next
    <2> DEFINE others == Same(i, Message(i).node)
    <2>1. others \in SUBSET nodes[i]
      BY DEF Same
    <2>2. \A k \in others : Lives[k] \in {"out", "down"}
      BY <1>8, Forgetting
    <2>3. UNCHANGED Lives /\ nodes' = [nodes EXCEPT ![i] = @ \ others]
      BY <1>8 DEF Part, Lives, LifeOf
    <2>4. M!Forget(i, others)
      BY <2>2, <2>3 DEF M!Forget, Lives
    <2> QED
      BY <2>1, <2>4 DEF M!Next
  <1>9. ASSUME NEW i \in Instances,
               Met(i) \/ Parted(i) \/ Ignore(i) \/ LateAnnounce(i) \/ LateIdle(i)
        PROVE  UNCHANGED <<Lives, nodes>>
    BY <1>1, <1>9 DEF Met, Parted, Ignore, LateAnnounce, LateIdle
  <1>10. CASE UNCHANGED vars
    BY <1>1, <1>10 DEF vars
  <1> QED
    BY <1>2, <1>3, <1>4, <1>5, <1>6, <1>7, <1>8, <1>9, <1>10
    DEF Next, Startup, Shutdown, Handle

\* The system does what Membership promises: instances learn only of those that have
\* come in, and forget nobody before unregister() has begun, although onNodeInfo takes
\* a node from the list by its id and number, which a restart has in common with the
\* instance before it.
THEOREM MembershipImplemented ==
  ASSUME ~ Overlapping
  PROVE  Spec => ImplementsMembership
  <1>1. Init => M!Init
    <2> SUFFICES ASSUME Init PROVE M!Init
      OBVIOUS
    <2>1. \A i \in Instances : LifeOf(i) = "new"
      BY DEF Init, LifeOf
    <2> QED
      BY <2>1 DEF Init, M!Init
  <1>2. OrderInv /\ [Next]_vars => [M!Next]_(M!vars)
    BY Refining DEF M!vars, Lives
  <1> QED
    BY <1>1, <1>2, OrderInvariant, PTL DEF Spec, ImplementsMembership, M!Spec

-----------------------------------------------------------------------------
\* Who is up is known to all that are, and its node named

Up(j) == phase[j] \in {"announced", "idle"}

\* Of the node n there waits a last word behind position p.
Gone(i, n, p) ==
  \E q \in Box(i) : q > p /\ inbox[i][q].state = "unregister" /\ NodeOf[inbox[i][q].node] = n

\* i knows j, or a message of j waits, and nothing that waits takes it back.
Sees(i, j, p) ==
  /\ ~ Gone(i, NodeOf[j], p)
  /\ \/ p = 0 /\ Known(i, j)
     \/ p \in Box(i) /\ inbox[i][p].node = j /\ inbox[i][p].state # "unregister"

Seen(i, j) == \E p \in Box(i) \cup {0} : Sees(i, j, p)

\* j will answer to i.
Asked(i, j) == \E p \in Box(j) : inbox[j][p].node = i /\ inbox[j][p].state = "register"

Tied ==
  \A i, j \in Instances : i # j /\ Up(i) /\ Up(j) => Seen(i, j) \/ Asked(i, j)

\* The tasks of i name the node n, or will when the handler goes on.
Named(i, n) ==
  n \in taskNodes[i] \/ (handling[i].doing = "adding" /\ NodeOf[handling[i].node] = n)

\* The same for the node of j: a message of j will add it, if nothing of that node is
\* known before.
Names(i, j, p) ==
  /\ ~ Gone(i, NodeOf[j], p)
  /\ \/ p = 0 /\ Named(i, NodeOf[j])
     \/ /\ p \in Box(i) /\ inbox[i][p].node = j /\ inbox[i][p].state # "unregister"
        /\ \/ inbox[i][p].state = "register"
           \/ \A k \in Instances : \A r \in Box(i) \cup {0} :
                 r < p /\ Knows(i, k, r) => NodeOf[k] # NodeOf[j]

Offers(i, j) == \E p \in Box(i) \cup {0} : Names(i, j, p)

\* If anything of its node is known, the tasks name the node of who is up.
Offered ==
  \A i, j, k \in Instances : \A p \in Box(i) \cup {0} :
    i # j /\ Subscribed(i) /\ Up(j) /\ Knows(i, k, p) /\ NodeOf[k] = NodeOf[j] => Offers(i, j)

\* Nodes are named of which somebody is in, or crashed, or left as idle, or whose last
\* word waits.
Told(i, n, p) ==
  \/ p = 0 /\ Named(i, n)
  \/ p \in Box(i) /\ NodeOf[inbox[i][p].node] = n /\ inbox[i][p].state # "unregister"

Backed(n) ==
  \E j \in Instances :
    /\ NodeOf[j] = n
    /\ phase[j] \in {"subscribed", "announced", "idle", "leaving", "crashed"} \/ LeftIdle(j)

Founded ==
  \A i, k \in Instances : \A p \in Box(i) \cup {0} :
    Subscribed(i) /\ Told(i, NodeOf[k], p) =>
      NodeOf[k] # NodeOf[i] /\ (Gone(i, NodeOf[k], p) \/ Backed(NodeOf[k]))

\* The tasks name nodes only, and of who does not work, none.
TasksTyped ==
  /\ taskNodes \in [Instances -> SUBSET {NodeOf[i] : i \in Instances}]
  /\ handling \in [Instances -> {Nothing} \cup {Removing(known) : known \in SUBSET Instances}
        \cup [doing : {"adding"}, node : Instances, state : {"register", "idle"}]]
  /\ \A i \in Instances : ~ Working(i) => taskNodes[i] = {} /\ handling[i] = Nothing

MeetingInv == TasksTyped /\ Tied /\ Offered /\ Founded

\* It goes on with what it is at, or something reaches it.
Keeps(i) ==
  /\ Moved(i, 0) /\ nodes'[i] = nodes[i]
  /\ \A k \in Instances : Named(i, NodeOf[k])' <=> Named(i, NodeOf[k])

\* It meets the sender, and all who are on the bus hear of i.
Greets(i) ==
  /\ Moved(i, 1) /\ inbox[i][1].state # "unregister"
  /\ nodes[i] \subseteq nodes'[i]
  /\ \A k \in Instances : k = inbox[i][1].node => Known(i, k)'
  /\ \A k \in Instances :
        Named(i, NodeOf[k])' <=> Named(i, NodeOf[k]) \/ NodeOf[k] = NodeOf[inbox[i][1].node]
  /\ \A k \in Instances : Subscribed(k) /\ ~ EqNode(k, i) => Hears(k, i)

\* It parts with the sender.
Dismisses(i) ==
  /\ Moved(i, 1) /\ inbox[i][1].state = "unregister"
  /\ nodes'[i] = nodes[i] \ Same(i, inbox[i][1].node)
  /\ \A k \in Instances :
        Named(i, NodeOf[k])' <=> Named(i, NodeOf[k]) /\ NodeOf[k] # NodeOf[inbox[i][1].node]

\* It knows the sender, which is idle.
Passes(i) ==
  /\ Moved(i, 1) /\ inbox[i][1].state = "idle" /\ Known(i, inbox[i][1].node)
  /\ nodes'[i] = nodes[i]
  /\ \A k \in Instances : Named(i, NodeOf[k])' <=> Named(i, NodeOf[k])

Courses ==
  /\ \A i \in Instances :
        \/ Keeps(i)
        \/ inbox[i] # <<>> /\ (Greets(i) \/ Dismisses(i) \/ Passes(i))
        \/ phase'[i] \in {"exited", "crashed"}
  /\ \A i, j \in Instances :
        /\ phase[j] = "subscribed" /\ phase'[j] = "announced"
        /\ Subscribed(i) /\ ~ EqNode(i, j)
        => Hears(i, j)

LEMMA Bystanding ==
  ASSUME Typed, NEW i \in Instances,
         Stays(i) \/ \E j \in Instances : Hears(i, j),
         taskNodes'[i] = taskNodes[i], handling'[i] = handling[i]
  PROVE  Keeps(i)
  <1>1. \A n : Named(i, n)' <=> Named(i, n)
    BY DEF Named
  <1> QED
    BY <1>1, Resting DEF Keeps

LEMMA Coursing ==
  ASSUME NodesInv, TasksTyped, [Next]_vars
  PROVE  Courses /\ TasksTyped'
  <1> USE DEF NodesInv
  <1>1. ASSUME NEW i \in Instances,
               Start(i) \/ Subscribe(i) \/ Idle(i) \/ Unregister(i) \/ Offline(i)
        PROVE  Courses /\ TasksTyped'
    <2>1. UNCHANGED <<inbox, nodes, taskNodes, handling>> /\ \A j \in Instances : Stays(j)
      BY <1>1 DEF Start, Subscribe, Idle, Unregister, Offline, Stays
    <2>2. PICK to \in Phases : GoTo(i, to) /\ to # "announced"
               /\ <<phase[i], to>> \in
                    {<<"off", "startup">>, <<"startup", "subscribed">>, <<"announced", "idle">>,
                     <<"startup", "alone">>, <<"subscribed", "leaving">>,
                     <<"announced", "leaving">>, <<"idle", "leaving">>, <<"alone", "offline">>}
      BY <1>1 DEF Start, Subscribe, Idle, Unregister, Offline, Phases
    <2>3. \A j \in Instances : /\ Working(j) => Working(j)'
                               /\ phase'[j] = "announced" => phase[j] = "announced"
      BY <2>2, Moving DEF Working
    <2>4. \A j \in Instances : Keeps(j)
      BY <2>1, Bystanding
    <2>5. TasksTyped'
      BY <2>1, <2>3 DEF TasksTyped
    <2> QED
      BY <2>3, <2>4, <2>5 DEF Courses
  <1>2. ASSUME NEW i \in Instances, Announce(i) \/ Depart(i)
        PROVE  Courses /\ TasksTyped'
    <2>1. PICK to \in {"announced", "left"} :
             /\ GoTo(i, to) /\ <<phase[i], to>> \in {<<"subscribed", "announced">>, <<"leaving", "left">>}
             /\ inbox' = Posted(i, State(i)', inbox)
             /\ UNCHANGED <<nr, nodes, taskNodes, handling>>
      <3>1. CASE Announce(i)
        BY <3>1, Moving DEF Announce, State, Phases
      <3>2. CASE Depart(i)
        BY <3>2, Moving DEF Depart, State, Phases
      <3> QED
        BY <1>2, <3>1, <3>2
    <2>2. /\ phase' \in [Instances -> Phases] /\ phase'[i] = to
          /\ \A j \in Instances \ {i} : phase'[j] = phase[j]
      BY <2>1, Moving DEF Phases
    <2>3. Working(i) /\ Working(i)' /\ inbox' = Posted(i, State(i)', inbox)
      BY <2>1, <2>2 DEF Working, State
    <2>4. /\ inbox'[i] = inbox[i]
          /\ \A j \in Instances \ {i} : Stays(j) \/ Hears(j, i)
          /\ \A j \in Instances : Subscribed(j) /\ ~ EqNode(j, i) => Hears(j, i)
      BY <2>1, <2>2, <2>3, Posting DEF Typed
    <2>5. \A j \in Instances : Stays(j) \/ Hears(j, i)
      BY <2>1, <2>4 DEF Stays
    <2>6. \A j \in Instances : Keeps(j)
      BY <2>1, <2>5, Bystanding
    <2>7. \A j \in Instances : Working(j) => Working(j)'
      BY <2>2, <2>3 DEF Working
    <2>8. TasksTyped'
      BY <2>1, <2>7 DEF TasksTyped
    <2>9. \A j \in Instances : phase[j] = "subscribed" /\ phase'[j] = "announced" => j = i
      BY <2>2
    <2> QED
      BY <2>4, <2>6, <2>8, <2>9 DEF Courses
  <1>3. ASSUME NEW i \in Instances, Exit(i) \/ Crash(i)
        PROVE  Courses /\ TasksTyped'
    <2>1. PICK to \in {"exited", "crashed"} : End(i, to)
      BY <1>3 DEF Exit, Crash
    <2>2. /\ phase'[i] = to
          /\ \A j \in Instances \ {i} : phase'[j] = phase[j]
      BY <2>1, Moving DEF End, Phases
    <2>3. \A j \in Instances \ {i} :
             Stays(j) /\ taskNodes'[j] = taskNodes[j] /\ handling'[j] = handling[j]
      BY <2>1 DEF End, Stays, Typed, TasksTyped
    <2>4. \A j \in Instances \ {i} : Keeps(j)
      BY <2>3, Bystanding
    <2>5. taskNodes'[i] = {} /\ handling'[i] = Nothing
      BY <2>1 DEF End, TasksTyped
    <2>6. TasksTyped'
      BY <2>1, <2>2, <2>3, <2>5 DEF TasksTyped, End, Working
    <2>7. \A j \in Instances : phase'[j] = "announced" => phase[j] = "announced"
      BY <2>2
    <2> QED
      BY <2>2, <2>4, <2>6, <2>7 DEF Courses
  <1>4. ASSUME NEW i \in Instances, Meet(i)
        PROVE  Courses /\ TasksTyped'
    <2> DEFINE m == Message(i)
    <2>1. /\ inbox[i] # <<>> /\ handling[i] = Nothing /\ m.state \in {"register", "idle"}
          /\ UNCHANGED <<phase, nr, taskNodes>>
          /\ inbox' = Posted(i, State(i)', Taken(i))
      BY <1>4 DEF Meet, Ready, State, Introduces
    <2>2. /\ Working(i) /\ Working(i)' /\ m \in Messages /\ m = inbox[i][1]
          /\ Taken(i) \in [Instances -> Seq(Messages)] /\ Taken(i)[i] = Tail(inbox[i])
          /\ \A j \in Instances \ {i} : Taken(i)[j] = inbox[j]
      BY <2>1, Handling DEF Working
    <2>3. m.node \in Instances /\ inbox[i][1].node = m.node /\ inbox[i][1].state = m.state
      BY <2>2 DEF Messages
    <2> HIDE DEF m
    <2>4. /\ nodes'[i] = IF Known(i, m.node) THEN nodes[i] ELSE nodes[i] \cup {m.node}
          /\ \A j \in Instances \ {i} : nodes'[j] = nodes[j]
      BY <1>4 DEF m, Meet, Typed
    <2>5. /\ inbox'[i] = Tail(inbox[i])
          /\ \A j \in Instances \ {i} : Stays(j) \/ Hears(j, i)
          /\ \A j \in Instances : Subscribed(j) /\ ~ EqNode(j, i) => Hears(j, i)
      <3>1. \A j \in Instances \ {i} :
               Taken(i)[j] = inbox[j] /\ phase'[j] = phase[j] /\ nodes'[j] = nodes[j]
        BY <2>1, <2>2, <2>4
      <3> QED
        BY <2>1, <2>2, <3>1, Posting
    <2>6. /\ handling'[i] = Adding(m)
          /\ \A j \in Instances \ {i} : handling'[j] = handling[j]
      BY <1>4 DEF m, Meet, TasksTyped
    <2>7. ASSUME NEW k \in Instances, k = m.node PROVE Known(i, k)'
      <3>1. \E j \in nodes'[i] : NodeOf[j] = NodeOf[k] /\ nr[j] = nr[k]
        BY <2>4, <2>7 DEF Known, Same, EqNode
      <3> QED
        BY <2>1, <3>1 DEF Known, Same, EqNode
    <2>8. \A n : Named(i, n)' <=> Named(i, n) \/ n = NodeOf[m.node]
      BY <2>1, <2>3, <2>6 DEF Named, Nothing, Adding
    <2>9. Greets(i)
      <3>1. nodes[i] \subseteq nodes'[i]
        BY <2>4
      <3>2. Moved(i, 1)
        BY <2>1, <2>5, MovingOn
      <3>3. \A k \in Instances :
              Named(i, NodeOf[k])' <=> Named(i, NodeOf[k]) \/ NodeOf[k] = NodeOf[m.node]
        BY <2>8
      <3> QED
        BY <2>1, <2>3, <2>5, <2>7, <3>1, <3>2, <3>3 DEF Greets
    <2>10. \A j \in Instances \ {i} : Keeps(j)
      BY <2>1, <2>5, <2>6, Bystanding
    <2>11. TasksTyped'
      <3>1. Adding(m) \in [doing : {"adding"}, node : Instances, state : {"register", "idle"}]
        BY <2>1, <2>3 DEF Adding
      <3>2. handling' = [handling EXCEPT ![i] = Adding(m)]
        BY <1>4 DEF m, Meet
      <3>3. \A j \in Instances : Working(j)' <=> Working(j)
        BY <2>1 DEF Working
      <3> QED
        BY <2>1, <2>2, <2>6, <3>1, <3>2, <3>3 DEF TasksTyped
    <2> QED
      BY <2>1, <2>9, <2>10, <2>11 DEF Courses
  <1>5. ASSUME NEW i \in Instances, Part(i)
        PROVE  Courses /\ TasksTyped'
    <2> DEFINE m == Message(i)
    <2>1. /\ inbox[i] # <<>> /\ handling[i] = Nothing /\ m.state = "unregister"
          /\ UNCHANGED <<phase, nr>> /\ inbox' = Taken(i)
      BY <1>5 DEF Part, Ready
    <2>2. /\ m = inbox[i][1] /\ Taken(i)[i] = Tail(inbox[i])
          /\ \A j \in Instances \ {i} : Taken(i)[j] = inbox[j]
      BY <2>1, Handling
    <2>3. /\ nodes'[i] = nodes[i] \ Same(i, m.node) /\ taskNodes'[i] = taskNodes[i] \ {NodeOf[m.node]}
          /\ \A j \in Instances \ {i} :
               nodes'[j] = nodes[j] /\ taskNodes'[j] = taskNodes[j] /\ handling'[j] = handling[j]
      BY <1>5 DEF Part, Typed, TasksTyped
    <2>4. handling'[i] \in {Nothing} \cup {Removing(known) : known \in SUBSET Instances}
      BY <1>5 DEF Part, Typed, TasksTyped, Same
    <2>5. handling'[i].doing # "adding"
      BY <2>4 DEF Nothing, Removing
    <2>6. \A n : Named(i, n)' <=> Named(i, n) /\ n # NodeOf[m.node]
      BY <2>1, <2>3, <2>5 DEF Named, Nothing
    <2>7. Dismisses(i)
      BY <2>1, <2>2, <2>3, <2>6, MovingOn DEF Dismisses
    <2>8. \A j \in Instances \ {i} : Keeps(j)
      BY <2>1, <2>2, <2>3, Bystanding DEF Stays
    <2>9. TasksTyped'
      <3>1. /\ DOMAIN handling' = Instances /\ DOMAIN taskNodes' = Instances
            /\ handling' = [j \in Instances |-> handling'[j]]
            /\ taskNodes' = [j \in Instances |-> taskNodes'[j]]
        BY <1>5 DEF Part, TasksTyped
      <3>2. \A j \in Instances : Working(j)' <=> Working(j)
        BY <2>1 DEF Working
      <3>3. Working(i)
        BY <2>1, Handling
      <3> QED
        BY <2>3, <2>4, <3>1, <3>2, <3>3 DEF TasksTyped
    <2> QED
      BY <2>1, <2>7, <2>8, <2>9 DEF Courses
  <1>6. ASSUME NEW i \in Instances, Ignore(i)
        PROVE  Courses /\ TasksTyped'
    <2> DEFINE m == Message(i)
    <2>1. /\ inbox[i] # <<>> /\ m.state \notin {"unregister", "register"}
          /\ m.state = "idle" => Known(i, m.node)
          /\ UNCHANGED <<phase, nr, nodes, taskNodes, handling>> /\ inbox' = Taken(i)
      BY <1>6 DEF Ignore, Ready, Introduces
    <2>2. /\ m = inbox[i][1] /\ m \in Messages /\ Taken(i)[i] = Tail(inbox[i])
          /\ \A j \in Instances \ {i} : Taken(i)[j] = inbox[j]
      BY <2>1, Handling
    <2>3. m.state = "idle"
      BY <2>1, <2>2 DEF Messages
    <2>4. \A n : Named(i, n)' <=> Named(i, n)
      BY <2>1 DEF Named
    <2>5. Passes(i)
      BY <2>1, <2>2, <2>3, <2>4, MovingOn DEF Passes
    <2>6. \A j \in Instances \ {i} : Keeps(j)
      BY <2>1, <2>2, Bystanding DEF Stays
    <2>7. TasksTyped'
      BY <2>1 DEF TasksTyped, Working
    <2> QED
      BY <2>1, <2>5, <2>6, <2>7 DEF Courses
  <1>7. ASSUME NEW i \in Instances, Met(i) \/ Parted(i)
        PROVE  Courses /\ TasksTyped'
    <2>1. UNCHANGED <<phase, nr, nodes, inbox>> /\ \A j \in Instances : Stays(j)
      BY <1>7 DEF Met, Parted, Stays
    <2>2. /\ handling'[i] = Nothing
          /\ \A j \in Instances \ {i} :
               taskNodes'[j] = taskNodes[j] /\ handling'[j] = handling[j]
      BY <1>7 DEF Met, Parted, TasksTyped
    <2>3. \A n : Named(i, n)' <=> Named(i, n)
      <3>1. CASE Met(i)
        <4>1. handling[i].doing = "adding" /\ taskNodes'[i] = taskNodes[i] \cup {NodeOf[handling[i].node]}
          BY <3>1 DEF Met, TasksTyped
        <4> QED
          BY <2>2, <4>1 DEF Named, Nothing
      <3>2. CASE Parted(i)
        <4>1. handling[i].doing = "removing" /\ taskNodes'[i] = taskNodes[i]
          BY <3>2 DEF Parted
        <4> QED
          BY <2>2, <4>1 DEF Named, Nothing
      <3> QED
        BY <1>7, <3>1, <3>2
    <2>4. Keeps(i)
      BY <2>1, <2>3, Resting DEF Keeps
    <2>5. \A j \in Instances \ {i} : Keeps(j)
      BY <2>1, <2>2, Bystanding
    <2>6. TasksTyped'
      <3>1. \A j \in Instances : Working(j)' <=> Working(j)
        BY <2>1 DEF Working
      <3>2. CASE Met(i)
        <4>1. /\ taskNodes' = [taskNodes EXCEPT ![i] = @ \cup {NodeOf[handling[i].node]}]
              /\ handling' = [handling EXCEPT ![i] = Nothing]
              /\ handling[i].doing = "adding"
          BY <3>2 DEF Met
        <4>2. handling[i] \in [doing : {"adding"}, node : Instances, state : {"register", "idle"}]
          BY <4>1 DEF TasksTyped, Nothing, Removing
        <4>3. handling[i].node \in Instances /\ Working(i)
          BY <4>1, <4>2 DEF TasksTyped, Nothing
        <4> QED
          BY <3>1, <4>1, <4>3 DEF TasksTyped
      <3>3. CASE Parted(i)
        BY <3>1, <3>3 DEF Parted, TasksTyped
      <3> QED
        BY <1>7, <3>2, <3>3
    <2> QED
      BY <2>1, <2>4, <2>5, <2>6 DEF Courses
  <1>8. ASSUME NEW i \in Instances, LateAnnounce(i)
        PROVE  Courses /\ TasksTyped'
    <2>1. /\ UNCHANGED <<phase, nr, nodes, taskNodes, handling>>
          /\ inbox' = Posted(i, State(i)', inbox)
      BY <1>8 DEF LateAnnounce, State, Lates
    <2>2. Working(i) /\ Working(i)'
      BY <1>8 DEF LateAnnounce, Working
    <2>3. /\ inbox'[i] = inbox[i]
          /\ \A j \in Instances \ {i} : Stays(j) \/ Hears(j, i)
      BY <2>1, <2>2, Posting DEF Typed
    <2>4. \A j \in Instances : Keeps(j)
      BY <2>1, <2>3, Bystanding DEF Stays
    <2> QED
      BY <2>1, <2>4 DEF Courses, TasksTyped, Working
  <1>9. ASSUME UNCHANGED <<phase, nodes, taskNodes, inbox, handling>>
        PROVE  Courses /\ TasksTyped'
    <2>1. \A j \in Instances : Keeps(j)
      BY <1>9, Bystanding DEF Stays
    <2> QED
      BY <1>9, <2>1 DEF Courses, TasksTyped, Working
  <1> QED
    BY <1>1, <1>2, <1>3, <1>4, <1>5, <1>6, <1>7, <1>8, <1>9
    DEF Next, Startup, Shutdown, Handle, LateIdle, vars


\* A last word of the node of who is up does not come up behind what is known: only a
\* namesake could say it, and none lives.
LEMMA NotGone ==
  ASSUME NodesInv, StepOf, OneAtATime', NEW i \in Instances, NEW j \in Instances, Up(j)',
         NEW p \in Nat, NEW d \in {0, 1}, Moved(i, d), Gone(i, NodeOf[j], p)'
  PROVE  Gone(i, NodeOf[j], p + d)
  <1>1. PICK q \in Box(i)' : /\ q > p /\ inbox'[i][q].state = "unregister"
                             /\ NodeOf[inbox'[i][q].node] = NodeOf[j]
    BY DEF Gone
  <1>2. CASE q + d \in Box(i) /\ inbox'[i][q] = inbox[i][q + d]
    <2>1. q + d > p + d
      BY <1>1 DEF Box
    <2> QED
      BY <1>1, <1>2, <2>1 DEF Gone
  <1>3. ASSUME NEW k \in Instances, Hears(i, k), inbox'[i][q] = [node |-> k, state |-> State(k)']
        PROVE  FALSE
    <2>1. State(k)' = "unregister" /\ NodeOf[k] = NodeOf[j] /\ Working(k)'
      <3>1. inbox'[i][q].state = State(k)' /\ inbox'[i][q].node = k
        BY <1>3
      <3>2. Working(k)'
        BY <1>3 DEF Hears
      <3> QED
        BY <1>1, <3>1, <3>2
    <2>2. Live(k)' /\ Live(j)'
      BY <2>1 DEF Working, Live, Up
    <2>3. k = j
      BY <2>1, <2>2 DEF OneAtATime
    <2> QED
      BY <2>1, <2>3 DEF State, Up
  <1> QED
    BY <1>2, <1>3 DEF Moved

\* What i knows at a position it did before, unless it is the news.
LEMMA KnownBefore ==
  ASSUME NEW i \in Instances, NEW k \in Instances, NEW d \in {0, 1}, NEW r \in Nat \ {0},
         Moved(i, d), r + d \in Box(i), Knows(i, k, r)'
  PROVE  Knows(i, k, r + d)
  <1>1. r \in Box(i)' /\ inbox'[i][r].node = k
    BY DEF Knows
  <1>2. r # Len(inbox[i]) + 1 \/ d # 0
    BY DEF Box
  <1>3. inbox'[i][r] = inbox[i][r + d]
    BY <1>1, <1>2 DEF Moved
  <1> QED
    BY <1>1, <1>3 DEF Knows

\* Numbers do not change any more.
LEMMA SameNode ==
  ASSUME NodesInv, StepOf, NEW i \in Instances, NEW k \in nodes[i], NEW j \in Instances, Up(j)
  PROVE  /\ k \in Instances /\ Knows(i, k, 0)
         /\ EqNode(k, j)' <=> EqNode(k, j)
  <1>1. k \in Instances /\ Knows(i, k, 0)
    BY DEF NodesInv, Typed, Knows
  <1>2. Joined(k)
    BY <1>1 DEF NodesInv, Heard
  <1>3. Joined(j)
    BY DEF Up, Joined, Working
  <1> QED
    BY <1>1, <1>2, <1>3, Staying DEF EqNode

\* What is known of an instance that is up stays so.
LEMMA SeenKept ==
  ASSUME NodesInv, StepOf, Courses, OneAtATime',
         NEW i \in Instances, NEW j \in Instances, Up(j), Up(j)', Seen(i, j),
         phase'[i] \notin {"exited", "crashed"}
  PROVE  Seen(i, j)'
  <1>1. PICK p \in Box(i) \cup {0} : Sees(i, j, p)
    BY DEF Seen
  <1>2. p \in Nat /\ Len(inbox[i]) \in Nat
    BY DEF Box, NodesInv, Typed
  <1>3. CASE Keeps(i)
    <2>1. Moved(i, 0) /\ nodes'[i] = nodes[i] /\ p + 0 = p /\ p - 0 = p
      BY <1>2, <1>3 DEF Keeps
    <2>2. ~ Gone(i, NodeOf[j], p)'
      BY <1>1, <1>2, <2>1, NotGone DEF Sees
    <2>3. CASE p = 0 /\ Known(i, j)
      <3>1. Known(i, j)'
        BY <2>1, <2>3, SameNode DEF Known, Same
      <3> QED
        BY <2>2, <2>3, <3>1 DEF Seen, Sees
    <2>4. CASE p \in Box(i) /\ inbox[i][p].node = j /\ inbox[i][p].state # "unregister"
      <3>1. p \in Box(i)' /\ inbox'[i][p] = inbox[i][p]
        BY <1>2, <2>1, <2>4 DEF Moved, Box
      <3> QED
        BY <2>2, <2>4, <3>1 DEF Seen, Sees
    <2> QED
      BY <1>1, <2>3, <2>4 DEF Sees
  <1>4. CASE inbox[i] # <<>> /\ (Greets(i) \/ Dismisses(i) \/ Passes(i))
    <2>1. Moved(i, 1)
      BY <1>4 DEF Greets, Dismisses, Passes
    <2>2. CASE p > 1
      <3>1. p - 1 \in Box(i)' /\ inbox'[i][p - 1] = inbox[i][p]
        BY <1>2, <2>1, <2>2 DEF Moved
      <3>2. ~ Gone(i, NodeOf[j], p - 1)'
        <4>1. (p - 1) + 1 = p /\ p - 1 \in Nat
          BY <1>2, <2>2
        <4>2. p - 1 \in Nat /\ Gone(i, NodeOf[j], p - 1)' => Gone(i, NodeOf[j], (p - 1) + 1)
          BY <2>1, NotGone
        <4> QED
          BY <1>1, <4>1, <4>2 DEF Sees
      <3>3. p # 0 /\ inbox[i][p].node = j /\ inbox[i][p].state # "unregister"
        BY <1>1, <2>2 DEF Sees
      <3> QED
        BY <3>1, <3>2, <3>3 DEF Seen, Sees
    <2>3. CASE p \in {0, 1}
      <3>1. 1 \in Box(i) /\ inbox[i][1] \in Messages
        BY <1>4, Taking DEF Box, NodesInv, Typed
      <3>2. ~ Gone(i, NodeOf[j], 0)'
        <4>1. Gone(i, NodeOf[j], 0)' => Gone(i, NodeOf[j], 0 + 1)
          BY <2>1, NotGone
        <4>2. Gone(i, NodeOf[j], 1) => Gone(i, NodeOf[j], 0)
          BY DEF Gone, Box
        <4> QED
          BY <1>1, <2>3, <4>1, <4>2 DEF Sees
      <3>3. inbox[i][1].state = "unregister" => p = 0 /\ NodeOf[inbox[i][1].node] # NodeOf[j]
        BY <1>1, <2>3, <3>1 DEF Sees, Gone
      <3>4. Known(i, j)'
        <4>1. CASE p = 0
          <5>1. PICK k \in nodes[i] : EqNode(k, j)
            BY <1>1, <4>1 DEF Sees, Known, Same, Box
          <5>2. k \in nodes'[i]
            <6>1. CASE Dismisses(i)
              <7>1. NodeOf[k] = NodeOf[j] /\ NodeOf[j] # NodeOf[inbox[i][1].node]
                BY <3>3, <5>1, <6>1 DEF Dismisses, EqNode
              <7> QED
                BY <5>1, <6>1, <7>1 DEF Dismisses, Same, EqNode
            <6> QED
              BY <1>4, <5>1, <6>1 DEF Greets, Passes
          <5>3. EqNode(k, j)'
            BY <5>1, SameNode
          <5> QED
            BY <5>2, <5>3 DEF Known, Same
        <4>2. CASE p = 1
          <5>1. inbox[i][1].node = j /\ inbox[i][1].state # "unregister"
            BY <1>1, <4>2 DEF Sees
          <5>2. CASE Greets(i)
            BY <5>1, <5>2 DEF Greets
          <5>3. CASE Passes(i)
            BY <5>1, <5>3, SameNode DEF Passes, Known, Same
          <5> QED
            BY <1>4, <5>1, <5>2, <5>3 DEF Dismisses
        <4> QED
          BY <2>3, <4>1, <4>2
      <3> QED
        BY <3>2, <3>4 DEF Seen, Sees
    <2> QED
      BY <1>2, <2>2, <2>3
  <1> QED
    BY <1>3, <1>4 DEF Courses

\* Who has just heard of an instance that is up knows it.
LEMMA SeenAtOnce ==
  ASSUME NodesInv, NEW i \in Instances, NEW j \in Instances, Up(j)', Hears(i, j)
  PROVE  /\ Seen(i, j)'
         /\ \E p \in Box(i)' :
              /\ p = Len(inbox[i]) + 1 /\ inbox'[i][p].node = j /\ inbox'[i][p].state = State(j)'
              /\ ~ Gone(i, NodeOf[j], p)'
         /\ State(j)' # "unregister"
  <1> DEFINE m == [node |-> j, state |-> State(j)']
  <1>1. m.node = j /\ m.state = State(j)' /\ State(j)' # "unregister" /\ m \in Messages
    BY DEF State, Messages, Up
  <1>2. inbox[i] \in Seq(Messages) /\ inbox'[i] = Append(inbox[i], m)
    BY DEF NodesInv, Typed, Hears
  <1>3. /\ Len(inbox'[i]) = Len(inbox[i]) + 1 /\ Len(inbox[i]) \in Nat
        /\ inbox'[i][Len(inbox[i]) + 1] = m
    BY <1>1, <1>2, Appending
  <1>4. PICK p \in Box(i)' : p = Len(inbox[i]) + 1 /\ ~ \E q \in Box(i)' : q > p
    <2>1. Len(inbox[i]) + 1 \in Box(i)' /\ \A q \in Box(i)' : ~ q > Len(inbox[i]) + 1
      BY <1>3 DEF Box
    <2> QED
      BY <2>1
  <1>5. /\ p \in Box(i)' /\ inbox'[i][p].node = j /\ inbox'[i][p].state = State(j)'
        /\ ~ Gone(i, NodeOf[j], p)'
    BY <1>1, <1>3, <1>4 DEF Gone
  <1>6. Seen(i, j)'
    BY <1>1, <1>5 DEF Seen, Sees
  <1> QED
    BY <1>1, <1>4, <1>5, <1>6

LEMMA TiedKept ==
  ASSUME NodesInv, StepOf, Courses, OneAtATime, OneAtATime', Tied
  PROVE  Tied'
  <1> SUFFICES ASSUME NEW i \in Instances, NEW j \in Instances, i # j, Up(i)', Up(j)'
               PROVE  Seen(i, j)' \/ Asked(i, j)'
    BY DEF Tied
  <1>1. /\ Up(i) \/ (phase[i] = "subscribed" /\ phase'[i] = "announced")
        /\ Up(j) \/ (phase[j] = "subscribed" /\ phase'[j] = "announced")
    BY DEF StepOf, Moves, Up, Live
  <1>2. Live(i) /\ Live(j) /\ Subscribed(i) /\ Subscribed(j)
    BY <1>1 DEF Up, Live, Subscribed
  <1>3. ~ EqNode(i, j) /\ ~ EqNode(j, i)
    BY <1>2 DEF OneAtATime, EqNode
  <1>4. CASE ~ Up(j)
    BY <1>1, <1>2, <1>3, <1>4, SeenAtOnce DEF Courses
  <1>5. CASE Up(j) /\ ~ Up(i)
    <2>1. Hears(j, i) /\ phase'[i] = "announced"
      BY <1>1, <1>2, <1>3, <1>5 DEF Courses
    <2>2. State(i)' = "register"
      BY <2>1 DEF State
    <2> QED
      BY <2>1, <2>2, SeenAtOnce DEF Asked
  <1>6. CASE Up(j) /\ Up(i) /\ Seen(i, j)
    BY <1>6, SeenKept DEF Up
  <1>7. CASE Up(j) /\ Up(i) /\ Asked(i, j)
    <2>1. PICK p \in Box(j) : inbox[j][p].node = i /\ inbox[j][p].state = "register"
      BY <1>7 DEF Asked
    <2>2. p \in Nat \ {0}
      BY DEF Box
    <2>3. CASE Keeps(j)
      <3>1. p - 0 \in Box(j)' /\ inbox'[j][p - 0] = inbox[j][p]
        BY <2>2, <2>3 DEF Keeps, Moved
      <3> QED
        BY <2>1, <3>1 DEF Asked
    <2>4. CASE p > 1 /\ Moved(j, 1)
      <3>1. p - 1 \in Box(j)' /\ inbox'[j][p - 1] = inbox[j][p]
        BY <2>4 DEF Moved
      <3> QED
        BY <2>1, <3>1 DEF Asked
    <2>5. CASE p = 1 /\ (Greets(j) \/ Dismisses(j) \/ Passes(j))
      <3>1. Greets(j)
        BY <2>1, <2>5 DEF Dismisses, Passes
      <3>2. Hears(i, j)
        BY <1>2, <1>3, <3>1 DEF Greets
      <3> QED
        BY <3>2, SeenAtOnce
    <2> QED
      BY <2>2, <2>3, <2>4, <2>5 DEF Courses, Up, Greets, Dismisses, Passes
  <1> QED
    BY <1>4, <1>5, <1>6, <1>7 DEF Tied


\* A node once named, or about to be, stays so while an instance of it is up.
LEMMA OffersKept ==
  ASSUME NodesInv, StepOf, Courses, OneAtATime',
         NEW i \in Instances, NEW j \in Instances, Up(j), Up(j)', Offers(i, j),
         phase'[i] \notin {"exited", "crashed"}
  PROVE  Offers(i, j)'
  <1>1. PICK p \in Box(i) \cup {0} : Names(i, j, p)
    BY DEF Offers
  <1>2. p \in Nat /\ Len(inbox[i]) \in Nat
    BY DEF Box, NodesInv, Typed
  <1> DEFINE Fresh(o) == \A k \in Instances : \A r \in Box(i) \cup {0} :
                            r < o /\ Knows(i, k, r) => NodeOf[k] # NodeOf[j]
             Waits(o) == /\ inbox[i][o].node = j /\ inbox[i][o].state # "unregister"
                         /\ inbox[i][o].state = "register" \/ Fresh(o)
  <1>3. ASSUME p # 0 PROVE p \in Box(i) /\ Waits(p)
    BY <1>1, <1>3 DEF Names
  <1>4. ASSUME NEW d \in {0, 1}, Moved(i, d), p > d,
               \A k \in Instances : k \in nodes'[i] => k \in nodes[i] \/ \E r \in Box(i) :
                  r < p /\ Knows(i, k, r)
        PROVE  Offers(i, j)'
    <2>1. PICK o \in Box(i)' : o = p - d /\ inbox'[i][o] = inbox[i][p] /\ o + d = p /\ o \in Nat
      <3>1. p \in Box(i) /\ (p - d) + d = p /\ p - d \in Nat
        BY <1>2, <1>3, <1>4
      <3> QED
        BY <1>4, <3>1 DEF Moved
    <2>2. ~ Gone(i, NodeOf[j], o)'
      BY <1>1, <1>4, <2>1, NotGone DEF Names
    <2>3. inbox'[i][o].node = j /\ inbox'[i][o].state # "unregister"
      BY <1>2, <1>3, <1>4, <2>1
    <2>4. ASSUME inbox'[i][o].state # "register",
                 NEW k \in Instances, NEW r \in (Box(i) \cup {0})', r < o, Knows(i, k, r)'
          PROVE  NodeOf[k] # NodeOf[j]
      <3>1. Fresh(p)
        BY <1>2, <1>3, <1>4, <2>1, <2>4
      <3>2. CASE r = 0
        <4>1. 0 \notin Box(i)'
          BY DEF Box
        <4>2. k \in nodes'[i]
          BY <2>4, <3>2, <4>1 DEF Knows
        <4>3. Knows(i, k, 0) \/ \E s \in Box(i) : s < p /\ Knows(i, k, s)
          BY <1>4, <4>2 DEF Knows
        <4>4. 0 < p
          BY <1>2, <1>4
        <4> QED
          BY <3>1, <4>3, <4>4
      <3>3. CASE r # 0
        <4>1. r \in Nat \ {0} /\ r + d < p /\ p \in 1 .. Len(inbox[i])
          BY <1>2, <1>3, <1>4, <2>1, <2>4, <3>3 DEF Box
        <4>2. r + d \in Box(i)
          BY <1>2, <4>1 DEF Box
        <4>3. Knows(i, k, r + d)
          BY <1>4, <2>4, <4>1, <4>2, KnownBefore
        <4> QED
          BY <3>1, <4>1, <4>2, <4>3
      <3> QED
        BY <3>2, <3>3
    <2>5. Names(i, j, o)'
      BY <2>2, <2>3, <2>4 DEF Names
    <2> QED
      BY <2>5 DEF Offers
  <1>5. ASSUME Named(i, NodeOf[j])', ~ Gone(i, NodeOf[j], 0)'
        PROVE  Offers(i, j)'
    BY <1>5 DEF Offers, Names
  <1>6. CASE Keeps(i)
    <2>1. CASE p > 0
      BY <1>4, <1>6, <2>1 DEF Keeps
    <2>2. CASE p = 0
      <3>1. Named(i, NodeOf[j]) /\ ~ Gone(i, NodeOf[j], 0) /\ 0 + 0 = 0
        BY <1>1, <2>2 DEF Names, Box
      <3>2. ~ Gone(i, NodeOf[j], 0)'
        BY <1>6, <3>1, NotGone DEF Keeps
      <3> QED
        BY <1>5, <1>6, <3>1, <3>2 DEF Keeps
    <2> QED
      BY <1>2, <2>1, <2>2
  <1>7. CASE inbox[i] # <<>> /\ (Greets(i) \/ Dismisses(i) \/ Passes(i))
    <2>1. Moved(i, 1) /\ 1 \in Box(i) /\ inbox[i][1] \in Messages
      BY <1>7, Taking DEF Greets, Dismisses, Passes, Box, NodesInv, Typed
    <2>2. CASE p > 1
      <3>1. ASSUME NEW k \in Instances, k \in nodes'[i], k \notin nodes[i]
            PROVE  Knows(i, k, 1)
        <4>1. Takes(i) \/ Stays(i) \/ Ends(i) \/ \E l \in Instances : Hears(i, l)
          BY DEF StepOf
        <4>2. Takes(i)
          BY <3>1, <4>1, Resting DEF Ends, NodesInv
        <4>3. Head(inbox[i]) = inbox[i][1]
          BY <1>7, Taking DEF NodesInv, Typed
        <4> QED
          BY <2>1, <3>1, <4>2, <4>3 DEF Takes, Knows
      <3> QED
        BY <1>2, <1>4, <2>1, <2>2, <3>1
    <2>3. CASE p \in {0, 1}
      <3>1. ~ Gone(i, NodeOf[j], 0)'
        <4>1. Gone(i, NodeOf[j], 0)' => Gone(i, NodeOf[j], 0 + 1)
          BY <2>1, NotGone
        <4>2. Gone(i, NodeOf[j], 1) => Gone(i, NodeOf[j], 0)
          BY DEF Gone, Box
        <4> QED
          BY <1>1, <2>3, <4>1, <4>2 DEF Names
      <3>2. Named(i, NodeOf[j])'
        <4>1. CASE p = 0
          <5>1. Named(i, NodeOf[j]) /\ ~ Gone(i, NodeOf[j], 0)
            BY <1>1, <4>1 DEF Names, Box
          <5>2. inbox[i][1].state = "unregister" => NodeOf[inbox[i][1].node] # NodeOf[j]
            BY <2>1, <5>1 DEF Gone
          <5> QED
            BY <1>7, <5>1, <5>2 DEF Greets, Dismisses, Passes
        <4>2. CASE p = 1
          <5>1. Waits(1)
            BY <1>3, <4>2
          <5>2. ~ Dismisses(i)
            BY <5>1 DEF Dismisses
          <5>3. ~ Passes(i)
            <6>1. SUFFICES ASSUME Passes(i) PROVE FALSE
              OBVIOUS
            <6>2. Fresh(1)
              BY <5>1, <6>1 DEF Passes
            <6>3. PICK k \in nodes[i] : EqNode(k, j)
              BY <5>1, <6>1 DEF Passes, Known, Same
            <6>4. Knows(i, k, 0) /\ k \in Instances /\ NodeOf[k] = NodeOf[j]
              BY <6>3 DEF Knows, EqNode, NodesInv, Typed
            <6> QED
              BY <6>2, <6>4
          <5> QED
            BY <1>7, <5>1, <5>2, <5>3 DEF Greets
        <4> QED
          BY <2>3, <4>1, <4>2
      <3> QED
        BY <1>5, <3>1, <3>2
    <2> QED
      BY <1>2, <2>2, <2>3
  <1> QED
    BY <1>6, <1>7 DEF Courses

\* Who is on the bus and knows somebody after a step was there before.
LEMMA WasThere ==
  ASSUME NodesInv, StepOf, NEW i \in Instances, Subscribed(i)', Working(i)
  PROVE  Subscribed(i)
  BY Staying DEF Working, Subscribed

LEMMA OfferedKept ==
  ASSUME NodesInv, StepOf, Courses, OneAtATime', Offered
  PROVE  Offered'
  <1> SUFFICES ASSUME NEW i \in Instances, NEW j \in Instances, NEW k \in Instances,
                      NEW p \in (Box(i) \cup {0})', i # j, Subscribed(i)', Up(j)',
                      Knows(i, k, p)', NodeOf[k] = NodeOf[j]
               PROVE  Offers(i, j)'
    BY DEF Offered
  <1>1. \/ /\ p = Len(inbox[i]) + 1 /\ Hears(i, k) /\ inbox'[i][p].state = State(k)'
           /\ Moved(i, 0) /\ nodes'[i] = nodes[i]
        \/ \E o \in Box(i) \cup {0} : Knows(i, k, o)
    BY Origin, Resting DEF NodesInv
  <1>2. Subscribed(i)
    <2>1. CASE \E o \in Box(i) \cup {0} : Knows(i, k, o)
      BY <2>1, WasThere DEF NodesInv, Heard
    <2> QED
      BY <1>1, <2>1 DEF Hears
  <1>3. phase'[i] \notin {"exited", "crashed"} /\ Live(i)' /\ Live(j)'
    BY DEF Subscribed, Live, Up
  <1>4. NodeOf[i] # NodeOf[j] /\ ~ EqNode(i, j)
    BY <1>3 DEF OneAtATime, EqNode
  <1>5. CASE ~ Up(j)
    <2>1. phase[j] = "subscribed" /\ phase'[j] = "announced"
      BY <1>5 DEF StepOf, Moves, Up, Live
    <2>2. Hears(i, j) /\ State(j)' = "register"
      BY <1>2, <1>4, <2>1 DEF Courses, State
    <2> QED
      BY <2>2, SeenAtOnce DEF Offers, Names
  <1>6. CASE Up(j) /\ Offers(i, j)
    BY <1>3, <1>6, OffersKept
  <1>7. CASE Up(j) /\ ~ Offers(i, j)
    <2>1. \A l \in Instances : \A o \in Box(i) \cup {0} : Knows(i, l, o) => NodeOf[l] # NodeOf[j]
      BY <1>2, <1>7 DEF Offered
    <2>2. p = Len(inbox[i]) + 1 /\ Hears(i, k) /\ Moved(i, 0) /\ nodes'[i] = nodes[i]
      BY <1>1, <2>1
    <2>3. k = j
      <3>1. Live(k)'
        BY <2>2 DEF Hears, Working, Live
      <3> QED
        BY <1>3, <3>1 DEF OneAtATime
    <2>4. PICK q \in Box(i)' :
             /\ q = Len(inbox[i]) + 1 /\ inbox'[i][q].node = j /\ inbox'[i][q].state # "unregister"
             /\ ~ Gone(i, NodeOf[j], q)'
      BY <2>2, <2>3, SeenAtOnce
    <2>5. ASSUME NEW l \in Instances, NEW r \in (Box(i) \cup {0})', r < q, Knows(i, l, r)'
          PROVE  NodeOf[l] # NodeOf[j]
      <3>1. CASE r = 0
        <4>1. 0 \notin Box(i)'
          BY DEF Box
        <4>2. Knows(i, l, 0)
          BY <2>2, <2>5, <3>1, <4>1 DEF Knows
        <4> QED
          BY <2>1, <4>2
      <3>2. CASE r # 0
        <4>1. r \in Nat \ {0} /\ Len(inbox[i]) \in Nat
          BY <3>2 DEF Box, NodesInv, Typed
        <4>2. r + 0 = r /\ r \in Box(i)
          BY <2>4, <2>5, <4>1 DEF Box
        <4>3. Knows(i, l, r + 0)
          BY <2>2, <2>5, <4>1, <4>2, KnownBefore
        <4> QED
          BY <2>1, <4>2, <4>3
      <3> QED
        BY <3>1, <3>2
    <2>6. Names(i, j, q)'
      BY <2>4, <2>5 DEF Names
    <2> QED
      BY <2>6 DEF Offers
  <1> QED
    BY <1>5, <1>6, <1>7


\* A last word that waits goes on waiting, unless it is the one that is taken.
LEMMA GoneKept ==
  ASSUME NEW i \in Instances, NEW n, NEW p \in Nat, NEW o \in Nat, NEW d \in {0, 1}, Moved(i, d),
         Gone(i, n, o),
         \/ o = p + d
         \/ /\ o = p /\ p = 0
            /\ ~ (inbox[i][1].state = "unregister" /\ NodeOf[inbox[i][1].node] = n)
  PROVE  Gone(i, n, p)'
  <1>1. PICK q \in Box(i) : /\ q > o /\ inbox[i][q].state = "unregister"
                            /\ NodeOf[inbox[i][q].node] = n
    BY DEF Gone
  <1>2. q > d /\ q - d > p
    <2>1. q \in Nat \ {0} /\ q # o
      BY <1>1 DEF Box
    <2>2. o = p + d \/ q # 1
      BY <1>1
    <2> QED
      BY <1>1, <2>1, <2>2
  <1>3. q - d \in Box(i)' /\ inbox'[i][q - d] = inbox[i][q]
    BY <1>2 DEF Moved
  <1> QED
    BY <1>1, <1>2, <1>3 DEF Gone

\* A node is backed as long as the instance of it does not leave, and who leaves tells all.
LEMMA BackedKept ==
  ASSUME NodesInv, StepOf, NEW n, Backed(n), \A i \in Instances : LeftIdle(i) => LeftIdle(i)'
  PROVE  \/ Backed(n)'
         \/ \E j \in Instances : /\ NodeOf[j] = n /\ phase'[j] = "left" /\ ~ LeftIdle(j)'
                                 /\ \A i \in Instances : Subscribed(i) /\ ~ EqNode(i, j) => Hears(i, j)
  <1>1. PICK j \in Instances :
           /\ NodeOf[j] = n
           /\ \/ phase[j] \in {"subscribed", "announced", "idle", "leaving", "crashed"}
              \/ LeftIdle(j)
    BY DEF Backed
  <1>2. \/ phase'[j] \in {"subscribed", "announced", "idle", "leaving", "crashed", "left"}
        \/ LeftIdle(j)'
    BY <1>1 DEF StepOf, Moves
  <1>3. CASE phase'[j] # "left" \/ LeftIdle(j)'
    BY <1>1, <1>2, <1>3 DEF Backed
  <1>4. CASE phase'[j] = "left" /\ ~ LeftIdle(j)'
    BY <1>1, <1>4 DEF StepOf
  <1> QED
    BY <1>3, <1>4

\* What is told of a node after a step was told before, unless it is the news of somebody
\* who is on the bus.
LEMMA ToldBefore ==
  ASSUME NodesInv, StepOf, Courses, NEW i \in Instances, NEW k \in Instances,
         NEW p \in (Box(i) \cup {0})', Told(i, NodeOf[k], p)', phase'[i] \notin {"exited", "crashed"}
  PROVE  \/ \E j \in Instances : /\ NodeOf[j] = NodeOf[k] /\ Hears(i, j)
                                 /\ \/ phase'[j] \in {"subscribed", "announced", "idle"}
                                    \/ LeftIdle(j)'
         \/ \E o \in Box(i) \cup {0} :
              /\ Told(i, NodeOf[k], o)
              /\ p <= Len(inbox[i])
              /\ Gone(i, NodeOf[k], o) => Gone(i, NodeOf[k], p)'
  <1> DEFINE n == NodeOf[k]
  <1>1. p \in Nat /\ Len(inbox[i]) \in Nat
    BY DEF Box, NodesInv, Typed
  <1>2. CASE p = 0
    <2>1. Named(i, n)' /\ 0 <= Len(inbox[i])
      BY <1>1, <1>2 DEF Told, Box
    <2>2. CASE Keeps(i)
      <3>1. Told(i, n, 0)
        BY <2>1, <2>2 DEF Told, Keeps
      <3>2. Gone(i, n, 0) => Gone(i, n, p)'
        BY <1>2, <2>2, GoneKept DEF Keeps
      <3> QED
        BY <1>2, <2>1, <3>1, <3>2
    <2>3. CASE inbox[i] # <<>> /\ (Greets(i) \/ Dismisses(i) \/ Passes(i))
      <3>1. Moved(i, 1) /\ 1 \in Box(i) /\ 0 + 1 = 1
        BY <2>3, Taking DEF Greets, Dismisses, Passes, Box, NodesInv, Typed
      <3>2. CASE Named(i, n)
        <4>1. ~ (inbox[i][1].state = "unregister" /\ NodeOf[inbox[i][1].node] = n)
          BY <2>1, <2>3 DEF Greets, Dismisses, Passes
        <4>2. Gone(i, n, 0) => Gone(i, n, p)'
          BY <1>2, <3>1, <4>1, GoneKept
        <4>3. Told(i, n, 0)
          BY <3>2 DEF Told
        <4> QED
          BY <1>2, <2>1, <4>2, <4>3
      <3>3. CASE ~ Named(i, n)
        <4>1. n = NodeOf[inbox[i][1].node] /\ inbox[i][1].state # "unregister"
          BY <2>1, <2>3, <3>3 DEF Greets, Dismisses, Passes
        <4>2. Told(i, n, 1)
          BY <3>1, <4>1 DEF Told
        <4>3. Gone(i, n, 1) => Gone(i, n, p)'
          BY <1>2, <3>1, GoneKept
        <4> QED
          BY <1>2, <2>1, <3>1, <4>2, <4>3
      <3> QED
        BY <3>2, <3>3
    <2> QED
      BY <2>2, <2>3 DEF Courses
  <1>3. CASE p # 0
    <2>1. p \in Box(i)' /\ NodeOf[inbox'[i][p].node] = n /\ inbox'[i][p].state # "unregister"
      BY <1>3 DEF Told
    <2>2. PICK d \in {0, 1} : Moved(i, d)
      BY DEF Courses, Keeps, Greets, Dismisses, Passes
    <2>3. CASE p + d \in Box(i) /\ inbox'[i][p] = inbox[i][p + d]
      <3>1. Told(i, n, p + d) /\ p <= Len(inbox[i])
        BY <1>1, <2>1, <2>3 DEF Told, Box
      <3>2. Gone(i, n, p + d) => Gone(i, n, p)'
        BY <1>1, <2>2, GoneKept
      <3> QED
        BY <2>3, <3>1, <3>2
    <2>4. ASSUME NEW j \in Instances, Hears(i, j), inbox'[i][p] = [node |-> j, state |-> State(j)']
          PROVE  /\ NodeOf[j] = n
                 /\ phase'[j] \in {"subscribed", "announced", "idle"} \/ LeftIdle(j)'
      <3>1. inbox'[i][p].node = j /\ inbox'[i][p].state = State(j)'
        BY <2>4
      <3>2. State(j)' # "unregister" /\ Working(j)'
        BY <2>1, <2>4, <3>1 DEF Hears
      <3> QED
        BY <2>1, <3>1, <3>2 DEF State, Working, LeftIdle
    <2> QED
      BY <2>1, <2>2, <2>3, <2>4 DEF Moved
  <1> QED
    BY <1>2, <1>3

LEMMA FoundedKept ==
  ASSUME NodesInv, TasksTyped, StepOf, Courses, OneAtATime', Founded,
         \A i \in Instances : LeftIdle(i) => LeftIdle(i)'
  PROVE  Founded'
  <1> SUFFICES ASSUME NEW i \in Instances, NEW k \in Instances, NEW p \in (Box(i) \cup {0})',
                      Subscribed(i)', Told(i, NodeOf[k], p)'
               PROVE  NodeOf[k] # NodeOf[i] /\ (Gone(i, NodeOf[k], p)' \/ Backed(NodeOf[k])')
    BY DEF Founded
  <1> DEFINE n == NodeOf[k]
  <1>1. phase'[i] \notin {"exited", "crashed"} /\ Live(i)'
    BY DEF Subscribed, Live
  <1>2. ASSUME NEW j \in Instances, NodeOf[j] = n, Hears(i, j),
               phase'[j] \in {"subscribed", "announced", "idle"} \/ LeftIdle(j)'
        PROVE  NodeOf[k] # NodeOf[i] /\ Backed(n)'
    <2>1. Backed(n)'
      BY <1>2 DEF Backed
    <2>2. Live(j)' /\ j # i
      BY <1>2 DEF Live, Hears, Working, EqNode
    <2> QED
      BY <1>1, <1>2, <2>1, <2>2 DEF OneAtATime
  <1>3. ASSUME NEW o \in Box(i) \cup {0}, Told(i, n, o), p <= Len(inbox[i]),
               Gone(i, n, o) => Gone(i, n, p)'
        PROVE  NodeOf[k] # NodeOf[i] /\ (Gone(i, n, p)' \/ Backed(n)')
    <2>1. Working(i)
      <3>1. CASE o = 0 /\ Named(i, n)
        BY <3>1 DEF Named, TasksTyped, Nothing
      <3>2. CASE o \in Box(i)
        <4>1. inbox[i][o] \in Messages
          BY <3>2 DEF Box, NodesInv, Typed
        <4>2. inbox[i][o].node \in Instances /\ Knows(i, inbox[i][o].node, o)
          BY <3>2, <4>1 DEF Messages, Knows
        <4> QED
          BY <4>2 DEF NodesInv, Heard
      <3> QED
        BY <1>3, <3>1, <3>2 DEF Told
    <2>2. Subscribed(i)
      BY <2>1, WasThere
    <2>3. NodeOf[k] # NodeOf[i] /\ (Gone(i, n, o) \/ Backed(n))
      BY <1>3, <2>2 DEF Founded
    <2>4. ASSUME NEW j \in Instances, NodeOf[j] = n, phase'[j] = "left", ~ LeftIdle(j)',
                 \A l \in Instances : Subscribed(l) /\ ~ EqNode(l, j) => Hears(l, j)
          PROVE  Gone(i, n, p)'
      <3>1. Hears(i, j)
        BY <2>2, <2>3, <2>4 DEF EqNode
      <3> DEFINE m == [node |-> j, state |-> State(j)']
      <3>2. m \in Messages /\ m.node = j /\ m.state = "unregister"
        BY <2>4 DEF Messages, State, LeftIdle
      <3>3. inbox[i] \in Seq(Messages) /\ inbox'[i] = Append(inbox[i], m)
        BY <3>1 DEF Hears, NodesInv, Typed
      <3>4. /\ Len(inbox'[i]) = Len(inbox[i]) + 1 /\ Len(inbox[i]) \in Nat
            /\ inbox'[i][Len(inbox[i]) + 1] = m
        BY <3>2, <3>3, Appending
      <3>5. p \in Nat
        BY DEF Box
      <3>6. Len(inbox[i]) + 1 \in Box(i)' /\ Len(inbox[i]) + 1 > p
        BY <1>3, <3>4, <3>5 DEF Box
      <3> QED
        BY <2>4, <3>2, <3>4, <3>6 DEF Gone
    <2> QED
      BY <1>3, <2>3, <2>4, BackedKept
  <1> QED
    BY <1>1, <1>2, <1>3, ToldBefore

-----------------------------------------------------------------------------
\* At rest

\* The inductive invariant behind the two theorems below, as long as an instance starts
\* only when no other of its node lives: of two instances that are up each has word of
\* the other or will be asked for it, and the node ids at the tasks follow what is known.
THEOREM MeetingInvariant ==
  ASSUME ~ Overlapping
  PROVE  Spec => []MeetingInv
  <1>1. Init => MeetingInv
    <2> SUFFICES ASSUME Init PROVE MeetingInv
      OBVIOUS
    <2>1. \A i \in Instances : /\ phase[i] = "off" /\ taskNodes[i] = {} /\ handling[i] = Nothing
                               /\ Box(i) = {} /\ nodes[i] = {}
      BY DEF Init, Box
    <2>2. TasksTyped
      BY DEF Init, TasksTyped
    <2>3. \A i \in Instances : ~ Up(i) /\ ~ Subscribed(i)
      BY <2>1 DEF Up, Subscribed
    <2> QED
      BY <2>2, <2>3 DEF MeetingInv, Tied, Offered, Founded
  <1>2. OrderInv /\ OrderInv' /\ MeetingInv /\ [Next]_vars => MeetingInv'
    <2> SUFFICES ASSUME OrderInv, OrderInv', MeetingInv, [Next]_vars PROVE MeetingInv'
      OBVIOUS
    <2>1. NodesInv /\ OneAtATime /\ OneAtATime' /\ TasksTyped /\ Tied /\ Offered /\ Founded
      BY DEF OrderInv, MeetingInv
    <2>2. StepOf /\ Courses /\ TasksTyped'
      BY <2>1, Steps, Coursing DEF NodesInv
    <2>3. \A i \in Instances : LeftIdle(i) => LeftIdle(i)'
      BY <2>1, LatesKept DEF NodesInv
    <2> QED
      BY <2>1, <2>2, <2>3, TiedKept, OfferedKept, FoundedKept DEF MeetingInv
  <1> QED
    BY <1>1, <1>2, OrderInvariant, PTL DEF Spec

\* All that are idle know each other when all is at rest, although a newcomer is told of
\* those before it only by their answers, and a node that restarts is announced and taken
\* from the lists by an id both its instances have.
THEOREM Acquainted ==
  ASSUME ~ Overlapping
  PROVE  Spec => []KnowEachOther
  <1>1. NodesInv /\ MeetingInv => KnowEachOther
    <2> SUFFICES ASSUME NodesInv, MeetingInv, Quiet, NEW i \in Idling, NEW j \in Idling, i # j
                 PROVE  Known(i, j)
      BY DEF KnowEachOther
    <2>1. i \in Instances /\ j \in Instances /\ Up(i) /\ Up(j)
      BY DEF Idling, Up
    <2>2. Box(i) = {} /\ Box(j) = {}
      BY <2>1 DEF Quiet, Box
    <2>3. Seen(i, j)
      BY <2>1, <2>2 DEF MeetingInv, Tied, Asked
    <2> QED
      BY <2>2, <2>3 DEF Seen, Sees
  <1> QED
    BY <1>1, NodesInvariant, MeetingInvariant, PTL

\* The tasks name the nodes of those that are up or crashed, or whose idle() came after
\* their unregister(), and no others, when all is at rest: the hooks add and remove the id
\* of a node while instances of it come and go.
THEOREM TasksFollow ==
  ASSUME ~ Overlapping
  PROVE  Spec => []TaskNodesFollow
  <1>1. NodesInv /\ MeetingInv => TaskNodesFollow
    <2> SUFFICES ASSUME NodesInv, MeetingInv, Quiet, NEW i \in Idling
                 PROVE  /\ \A j \in Idling \ {i} : NodeOf[j] \in taskNodes[i]
                        /\ \A n \in taskNodes[i] : \E j \in Instances :
                              NodeOf[j] = n /\ (phase[j] \in {"idle", "crashed"} \/ LeftIdle(j))
      BY DEF TaskNodesFollow
    <2>1. i \in Instances /\ Up(i) /\ Subscribed(i) /\ Box(i) = {} /\ handling[i] = Nothing
      BY DEF Idling, Up, Subscribed, Quiet, Box
    <2>2. ASSUME NEW n PROVE Named(i, n) <=> n \in taskNodes[i]
      BY <2>1 DEF Named, Nothing
    <2>3. ASSUME NEW j \in Idling \ {i} PROVE NodeOf[j] \in taskNodes[i]
      <3>1. j \in Instances /\ Up(j) /\ i # j /\ Box(j) = {}
        BY <2>3 DEF Idling, Up, Quiet, Box
      <3>2. Seen(i, j)
        BY <2>1, <3>1 DEF MeetingInv, Tied, Asked
      <3>3. Known(i, j)
        BY <2>1, <3>2 DEF Seen, Sees
      <3>4. PICK k \in nodes[i] : NodeOf[k] = NodeOf[j]
        BY <3>3 DEF Known, Same, EqNode
      <3>5. k \in Instances /\ Knows(i, k, 0)
        BY <2>1, <3>4 DEF NodesInv, Typed, Knows
      <3>6. Offers(i, j)
        BY <2>1, <3>1, <3>4, <3>5 DEF MeetingInv, Offered
      <3>7. Named(i, NodeOf[j])
        BY <2>1, <3>6 DEF Offers, Names
      <3> QED
        BY <2>2, <3>7
    <2>4. ASSUME NEW n \in taskNodes[i]
          PROVE  \E j \in Instances :
                   NodeOf[j] = n /\ (phase[j] \in {"idle", "crashed"} \/ LeftIdle(j))
      <3>1. PICK k \in Instances : n = NodeOf[k]
        BY <2>1 DEF MeetingInv, TasksTyped
      <3>2. Told(i, NodeOf[k], 0)
        BY <2>2, <3>1 DEF Told
      <3>3. Backed(NodeOf[k])
        BY <2>1, <3>2 DEF MeetingInv, Founded, Gone
      <3> QED
        BY <3>1, <3>3 DEF Backed, Quiet
    <2> QED
      BY <2>3, <2>4
  <1> QED
    BY <1>1, NodesInvariant, MeetingInvariant, PTL

=============================================================================
