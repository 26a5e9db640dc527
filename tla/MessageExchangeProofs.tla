----------------------- MODULE MessageExchangeProofs -----------------------
(***************************************************************************)
(* What a message collects: one answer of each node, of everybody asked    *)
(* who does not skip, unless the timer ended it; and that messages         *)
(* implement Gather.  For any instances, node ids, requests and options.   *)
(***************************************************************************)
EXTENDS MessageExchange, FiniteSetTheorems, SequenceTheorems, TLAPS

\* The answers counted by node: no node has two, none has both answered and passed, and
\* the nodes waited for are those asked that have done neither.
Counted(m) ==
  /\ m.waiting = m.sent \ (NodesOf(m.responses) \cup m.passed)
  /\ NodesOf(m.responses) \cap m.passed = {}
  /\ IsFiniteSet(NodesOf(m.responses))
  /\ Cardinality(NodesOf(m.responses)) = Len(m.responses)

\* What a phase says of a message: nothing has been answered before beforeSend has
\* ended, nobody listens before the request is posted, and only a finished message has
\* a cause, which is not "complete" unless everybody asked is in the result or has passed.
Phased(m) ==
  /\ m.phase \in {"new", "local"} => m.responses = <<>> /\ m.passed = {} /\ ~ m.listening
  /\ m.phase = "new" => m.sent = {}
  /\ m.phase = "finished" <=> m.cause # "none"
  /\ m.cause = "complete" => m.sent \ NodesOf(m.result) \subseteq m.passed

MessageOK(m) == m \in Message /\ Counted(m) /\ Phased(m)

ExchangeInv ==
  /\ TypeOK
  /\ \A q \in Requests : MessageOK(msgs[q])

-----------------------------------------------------------------------------
\* Messages

LEMMA NodesOfAppend ==
  ASSUME NEW s \in Seq(Response), NEW r \in Response
  PROVE  /\ Append(s, r) \in Seq(Response) /\ Len(Append(s, r)) = Len(s) + 1
         /\ NodesOf(Append(s, r)) = NodesOf(s) \cup {r.node}
<1> DEFINE t == Append(s, r)
<1>1. /\ t \in Seq(Response) /\ Len(s) \in Nat /\ Len(t) = Len(s) + 1
      /\ DOMAIN s = 1 .. Len(s) /\ DOMAIN t = 1 .. Len(s) + 1
  OBVIOUS
<1>2. t[Len(s) + 1] = r /\ \A i \in DOMAIN s : t[i] = s[i]
  BY AppendProperties
<1> HIDE DEF t
<1>3. DOMAIN t = DOMAIN s \cup {Len(s) + 1}
  BY <1>1
<1>4. NodesOf(t) = NodesOf(s) \cup {r.node}
  BY <1>2, <1>3 DEF NodesOf
<1> QED BY <1>1, <1>4 DEF t

\* An answer of a node that has given none is counted.
LEMMA OneMore ==
  ASSUME NEW m \in Message, Counted(m), NEW r \in Response,
         r.node \notin NodesOf(m.responses), r.node \notin m.passed,
         NEW k, k.responses = Append(m.responses, r), k.passed = m.passed,
         k.waiting = m.waiting \ {r.node}, k.sent = m.sent
  PROVE  Counted(k)
<1>1. m.responses \in Seq(Response)
  BY DEF Message
<1>2. /\ NodesOf(k.responses) = NodesOf(m.responses) \cup {r.node}
      /\ Len(k.responses) = Len(m.responses) + 1
  BY <1>1, NodesOfAppend
<1>3. /\ k.waiting = k.sent \ (NodesOf(k.responses) \cup k.passed)
      /\ NodesOf(k.responses) \cap k.passed = {}
  BY <1>2 DEF Counted
<1>4. /\ IsFiniteSet(NodesOf(k.responses))
      /\ Cardinality(NodesOf(k.responses)) = Cardinality(NodesOf(m.responses)) + 1
  <2> DEFINE nodes == NodesOf(m.responses)
  <2>1. IsFiniteSet(nodes) /\ r.node \notin nodes
    BY DEF Counted
  <2> HIDE DEF nodes
  <2>2. IsFiniteSet(nodes \cup {r.node}) /\ Cardinality(nodes \cup {r.node}) = Cardinality(nodes) + 1
    BY <2>1, FS_AddElement
  <2> QED BY <1>2, <2>2 DEF nodes
<1> QED BY <1>2, <1>3, <1>4 DEF Counted

\* A node that skips is no longer waited for, and nothing of it is collected.
LEMMA OneLess ==
  ASSUME NEW m \in Message, Counted(m), NEW n, n \notin NodesOf(m.responses),
         NEW k, k.responses = m.responses, k.passed = m.passed \cup {n},
         k.waiting = m.waiting \ {n}, k.sent = m.sent
  PROVE  Counted(k)
BY DEF Counted

LEMMA FreshOK == MessageOK(Fresh)
<1>1. NodesOf(<<>>) = {}
  BY DEF NodesOf
<1>2. Fresh \in Message
  BY DEF Fresh, Message
<1>3. Counted(Fresh)
  BY <1>1, FS_EmptySet DEF Counted, Fresh
<1> QED BY <1>2, <1>3 DEF MessageOK, Phased, Fresh

LEMMA AddressedOK ==
  ASSUME NEW m, MessageOK(m), m.phase = "new",
         NEW targets \in SUBSET NodeIds, NEW patient \in BOOLEAN
  PROVE  /\ MessageOK(Addressed(m, targets, patient))
         /\ Addressed(m, targets, patient).phase = "local"
         /\ Addressed(m, targets, patient).sent = targets
<1> DEFINE k == Addressed(m, targets, patient)
<1>1. m \in Message /\ m.responses = <<>> /\ m.passed = {} /\ ~ m.listening /\ m.cause = "none"
  BY DEF MessageOK, Phased
<1>2. /\ k \in Message /\ k.phase = "local" /\ k.responses = <<>> /\ k.passed = {} /\ ~ k.listening
      /\ k.cause = "none" /\ k.sent = targets /\ k.waiting = targets
  BY <1>1 DEF Message, Addressed
<1> HIDE DEF k
<1>3. NodesOf(<<>>) = {}
  BY DEF NodesOf
<1>4. IsFiniteSet(NodesOf(<<>>)) /\ Cardinality(NodesOf(<<>>)) = Len(<<>>)
  BY <1>3, FS_EmptySet
<1>5. Counted(k)
  BY <1>2, <1>3, <1>4 DEF Counted
<1> QED BY <1>2, <1>5 DEF MessageOK, Phased, k

LEMMA AnsweredHereOK ==
  ASSUME NEW m, MessageOK(m), m.phase = "local", NEW r \in Response
  PROVE  LET k == AnsweredHere(m, r) IN
         /\ k \in Message /\ Counted(k) /\ k.phase = "local" /\ ~ k.listening
         /\ k.cause = "none" /\ k.sent = m.sent /\ NodesOf(k.responses) = {r.node}
         /\ k.waiting = m.waiting \ {r.node} /\ k.passed = {}
<1> DEFINE k == AnsweredHere(m, r)
<1>1. /\ m \in Message /\ m.responses = <<>> /\ m.passed = {} /\ ~ m.listening
      /\ m.cause = "none" /\ Counted(m)
  BY DEF MessageOK, Phased
<1>2. /\ k = [m EXCEPT !.responses = Append(m.responses, r), !.waiting = m.waiting \ {r.node}]
      /\ Append(m.responses, r) \in Seq(Response)
  BY <1>1 DEF AnsweredHere, Message
<1>3. /\ k \in Message /\ k.phase = "local" /\ ~ k.listening /\ k.cause = "none"
      /\ k.sent = m.sent /\ k.responses = Append(m.responses, r)
      /\ k.waiting = m.waiting \ {r.node} /\ k.passed = {}
  BY <1>1, <1>2 DEF Message
<1> HIDE DEF k
<1>4. NodesOf(m.responses) = {}
  BY <1>1 DEF NodesOf
<1>5. NodesOf(k.responses) = {r.node}
  <2>1. m.responses \in Seq(Response)
    BY <1>1 DEF Message
  <2>2. NodesOf(Append(m.responses, r)) = NodesOf(m.responses) \cup {r.node}
    BY <2>1, NodesOfAppend
  <2> QED BY <1>3, <1>4, <2>2
<1>6. Counted(k)
  BY <1>1, <1>3, <1>4, OneMore
<1> QED BY <1>3, <1>5, <1>6 DEF k

LEMMA PostedOK ==
  ASSUME NEW m \in Message, Counted(m), m.phase = "local", ~ m.listening,
         m.cause = "none"
  PROVE  LET k == Posted(m) IN
         /\ MessageOK(k) /\ k.sent = m.sent /\ k.responses = m.responses
         /\ k.waiting = m.waiting /\ k.passed = m.passed
         /\ \/ k.phase = "waiting" /\ k.cause = "none"
            \/ k.phase = "finished" /\ m.waiting = {} /\ k.result = m.responses /\ k.cause = "complete"
<1> DEFINE k == Posted(m)
<1>1. CASE m.waiting = {} /\ ~ m.patient
  <2>1. k = [m EXCEPT !.phase = "finished", !.result = m.responses, !.cause = "complete"]
    BY <1>1 DEF Posted, PostProcess
  <2>2. /\ k \in Message /\ k.sent = m.sent /\ k.responses = m.responses /\ k.waiting = m.waiting
        /\ k.passed = m.passed
        /\ k.phase = "finished" /\ k.result = m.responses /\ k.cause = "complete"
    BY <2>1 DEF Message
  <2> HIDE DEF k
  <2>3. k.sent \ NodesOf(k.result) \subseteq k.passed
    BY <1>1, <2>2 DEF Counted
  <2> QED BY <2>2, <2>3 DEF MessageOK, Counted, Phased, k
<1>2. CASE ~ (m.waiting = {} /\ ~ m.patient)
  <2>1. k = [m EXCEPT !.phase = "waiting", !.listening = TRUE]
    BY <1>2 DEF Posted
  <2>2. /\ k \in Message /\ k.sent = m.sent /\ k.responses = m.responses /\ k.waiting = m.waiting
        /\ k.passed = m.passed
        /\ k.phase = "waiting" /\ k.cause = "none"
    BY <2>1 DEF Message
  <2> HIDE DEF k
  <2> QED BY <2>2 DEF MessageOK, Counted, Phased, k
<1> QED BY <1>1, <1>2

\* k is message m after answer r, which may be a skipping one; the result changes only if
\* the answer ends the message.
Took(m, k, r) ==
  /\ MessageOK(k) /\ k.sent = m.sent
  /\ NodesOf(k.responses) = IF r.skipping THEN NodesOf(m.responses)
                            ELSE NodesOf(m.responses) \cup {r.node}
  /\ r.node \in m.waiting /\ k.waiting = m.waiting \ {r.node}
  /\ \/ m.phase = "finished" /\ k.phase = "finished" /\ k.result = m.result /\ k.cause = m.cause
     \/ m.phase = "waiting" /\ k.phase = "waiting" /\ k.cause = "none"
     \/ /\ m.phase = "waiting" /\ k.phase = "finished" /\ k.waiting = {}
        /\ k.result = k.responses /\ k.cause = "complete"

LEMMA OnResultsOK ==
  ASSUME NEW q, NEW m, MessageOK(m), NEW me, NEW r \in Response, Accepts(m, q, me, r)
  PROVE  Took(m, OnResults(m, r), r)
<1> DEFINE left == m.waiting \ {r.node}
           all == IF r.skipping THEN m.responses ELSE Append(m.responses, r)
           gone == IF r.skipping THEN m.passed \cup {r.node} ELSE m.passed
           kept == [m EXCEPT !.waiting = left, !.active = left # {}, !.responses = all,
                             !.passed = gone]
           k == OnResults(m, r)
<1>1. m \in Message /\ Counted(m) /\ Phased(m) /\ m.listening /\ r.node \in m.waiting
  BY DEF MessageOK, Accepts
<1>2. /\ m.phase \in {"waiting", "finished"}
      /\ r.node \notin NodesOf(m.responses) /\ r.node \notin m.passed
  BY <1>1 DEF Phased, Counted, Message
<1>3. all \in Seq(Response) /\ left \in SUBSET NodeIds /\ gone \in SUBSET NodeIds /\ m.passed \subseteq gone
  <2>1. m.responses \in Seq(Response) /\ m.waiting \in SUBSET NodeIds /\ m.passed \in SUBSET NodeIds
    BY <1>1 DEF Message
  <2>2. r.node \in NodeIds
    BY <1>1, <2>1
  <2>3. Append(m.responses, r) \in Seq(Response)
    BY <2>1
  <2> QED BY <2>1, <2>2, <2>3
<1>4. NodesOf(all) = IF r.skipping THEN NodesOf(m.responses) ELSE NodesOf(m.responses) \cup {r.node}
  BY <1>1, NodesOfAppend DEF Message
<1>5. k = IF left = {} THEN PostProcess(kept, "complete") ELSE kept
  BY DEF OnResults
<1> HIDE DEF all, left, gone
<1>6. /\ kept \in Message /\ kept.phase = m.phase /\ kept.sent = m.sent /\ kept.waiting = left
      /\ kept.responses = all /\ kept.result = m.result /\ kept.cause = m.cause
      /\ kept.listening = m.listening /\ kept.passed = gone
  BY <1>1, <1>3 DEF Message
<1> HIDE DEF kept, k
<1>7. Counted(kept)
  <2>1. CASE r.skipping
    BY <1>1, <1>2, <1>6, <2>1, OneLess DEF all, left, gone
  <2>2. CASE ~ r.skipping
    BY <1>1, <1>2, <1>6, <2>2, OneMore DEF all, left, gone
  <2> QED BY <2>1, <2>2
<1>8. CASE left # {} \/ m.phase = "finished"
  <2>1. k = kept
    BY <1>5, <1>6, <1>8 DEF PostProcess
  <2>2. Phased(k)
    BY <1>1, <1>2, <1>3, <1>6, <2>1 DEF Phased
  <2>3. m.phase = "waiting" => m.cause = "none"
    BY <1>1 DEF Phased
  <2> QED BY <1>1, <1>2, <1>4, <1>6, <1>7, <2>1, <2>2, <2>3 DEF MessageOK, Took, k, left
<1>9. CASE left = {} /\ m.phase = "waiting"
  <2>1. k = [kept EXCEPT !.phase = "finished", !.result = all, !.cause = "complete"]
    BY <1>5, <1>6, <1>9 DEF PostProcess
  <2>2. /\ k \in Message /\ k.sent = m.sent /\ k.waiting = left /\ k.responses = all
        /\ k.phase = "finished" /\ k.result = all /\ k.cause = "complete" /\ k.passed = gone
    BY <2>1, <1>3, <1>6 DEF Message
  <2>3. Counted(k)
    BY <1>6, <1>7, <2>2 DEF Counted
  <2>4. k.sent \ NodesOf(k.result) \subseteq k.passed
    BY <1>9, <2>2, <2>3 DEF Counted
  <2>5. Phased(k)
    BY <2>2, <2>4 DEF Phased
  <2> QED BY <1>1, <1>4, <1>9, <2>2, <2>3, <2>5 DEF MessageOK, Took, k, left
<1> QED BY <1>2, <1>8, <1>9

LEMMA TimedOutOK ==
  ASSUME NEW m, MessageOK(m), m.phase = "waiting"
  PROVE  LET k == PostProcess(m, "timeout") IN
         /\ MessageOK(k) /\ k.sent = m.sent /\ k.phase = "finished"
         /\ k.result = m.responses /\ k.cause = "timeout"
<1> DEFINE k == PostProcess(m, "timeout")
<1>1. m \in Message /\ Counted(m)
  BY DEF MessageOK
<1>2. k = [m EXCEPT !.phase = "finished", !.result = m.responses, !.cause = "timeout"]
  BY DEF PostProcess
<1>3. /\ k \in Message /\ k.sent = m.sent /\ k.waiting = m.waiting /\ k.responses = m.responses
      /\ k.passed = m.passed
      /\ k.phase = "finished" /\ k.result = m.responses /\ k.cause = "timeout"
  BY <1>1, <1>2 DEF Message
<1> HIDE DEF k
<1> QED BY <1>1, <1>3 DEF MessageOK, Counted, Phased, k

LEMMA UnregisteredOK ==
  ASSUME NEW m, MessageOK(m), m.phase = "finished"
  PROVE  LET k == Unregistered(m) IN
         /\ MessageOK(k) /\ k.sent = m.sent /\ k.phase = m.phase
         /\ k.responses = m.responses /\ k.result = m.result /\ k.cause = m.cause
<1> DEFINE k == Unregistered(m)
<1>1. m \in Message /\ Counted(m) /\ Phased(m)
  BY DEF MessageOK
<1>2. /\ k \in Message /\ k.sent = m.sent /\ k.waiting = m.waiting /\ k.responses = m.responses
      /\ k.passed = m.passed
      /\ k.phase = m.phase /\ k.result = m.result /\ k.cause = m.cause
  BY <1>1 DEF Message, Unregistered
<1> HIDE DEF k
<1> QED BY <1>1, <1>2 DEF MessageOK, Counted, Phased, k

-----------------------------------------------------------------------------
\* Steps

IsOpen(m) == m.phase \in {"local", "waiting"}

IsComplete(m) == m.phase = "finished" /\ m.cause = "complete"

\* What a step makes of a message: it is opened, counts one more answer, lets a node
\* pass, is given up, or has finished and keeps its result.
GoesOn(k) == IsOpen(k) \/ (IsComplete(k) /\ k.result = k.responses /\ k.waiting = {})

Opens(m, k) == m.phase = "new" /\ k.responses = <<>> /\ k.waiting = k.sent /\ GoesOn(k)

Counts(m, k) ==
  /\ IsOpen(m) /\ k.sent = m.sent /\ GoesOn(k)
  /\ \E n \in NodeIds :
       /\ n \in m.waiting \/ n \notin m.sent \cup NodesOf(m.responses)
       /\ NodesOf(k.responses) = NodesOf(m.responses) \cup {n}
       /\ k.waiting = m.waiting \ {n}

Passes(m, k) ==
  /\ IsOpen(m) /\ k.sent = m.sent /\ GoesOn(k)
  /\ NodesOf(k.responses) = NodesOf(m.responses)
  /\ \E n \in m.waiting : k.waiting = m.waiting \ {n}

GivesUp(m, k) ==
  /\ IsOpen(m) /\ k.sent = m.sent
  /\ k.phase = "finished" /\ k.cause = "timeout" /\ k.result = m.responses

Keeps(m, k) ==
  /\ m.phase = "finished" /\ k.phase = "finished"
  /\ k.sent = m.sent /\ k.result = m.result /\ k.cause = m.cause

Moves(m, k) ==
  /\ MessageOK(k)
  /\ Opens(m, k) \/ Counts(m, k) \/ Passes(m, k) \/ GivesUp(m, k) \/ Keeps(m, k)

MessageStep ==
  \E q \in Requests : \E k : Moves(msgs[q], k) /\ msgs' = [msgs EXCEPT ![q] = k]

\* The types of what is on the bus and in the instances.
BusOK ==
  /\ asking \subseteq [req : Requests, inst : Instances]
  /\ answering \subseteq [res : Response, inst : Instances]
  /\ handling \in [Instances -> SUBSET Handlers]
  /\ queue \in [Instances -> Seq(Requests)]

LEMMA AnswerTyped ==
  ASSUME NEW i \in Instances, NEW q \in Requests, NEW skips \in BOOLEAN
  PROVE  /\ Answer(i, q, skips) \in Response
         /\ Answer(i, q, skips).node = NodeOf[i] /\ NodeOf[i] \in NodeIds /\ Sender[q] \in Instances
BY MessageExchangeAssumption DEF Answer, Response, Me

LEMMA ReplyTyped ==
  ASSUME BusOK, NEW i \in Instances, NEW q \in Requests, NEW skips \in BOOLEAN, Reply(i, q, skips)
  PROVE  answering' \subseteq [res : Response, inst : Instances]
<1>1. Listeners \subseteq Instances
  BY MessageExchangeAssumption DEF Listeners
<1>2. Answer(i, q, skips) \in Response
  BY AnswerTyped
<1> QED BY <1>1, <1>2 DEF Reply, BusOK

LEMMA PostTyped ==
  ASSUME BusOK, NEW q \in Requests, NEW m, Post(q, m)
  PROVE  asking' \subseteq [req : Requests, inst : Instances] /\ msgs' = [msgs EXCEPT ![q] = Posted(m)]
BY DEF BusOK, Post

LEMMA HandleTyped ==
  ASSUME BusOK, NEW i \in Instances, NEW q \in Requests, NEW via \in {"bus", "queue"}
  PROVE  Handle(i, q, via) \in SUBSET Handlers
BY DEF BusOK, Handle, Handlers

LEMMA SendMoves ==
  ASSUME ExchangeInv, BusOK, NEW q \in Requests, NEW o \in Options[q],
         NEW known \in SUBSET (Instances \ {Sender[q]}), Send(q, o, known)
  PROVE  MessageStep /\ BusOK'
<1> DEFINE targets == IF o.targets = {} THEN {NodeOf[i] : i \in known} ELSE o.targets
           m == Addressed(msgs[q], targets, o.wait)
<1>1. o.targets \in SUBSET NodeIds /\ o.wait \in BOOLEAN
  BY MessageExchangeAssumption
<1>2. targets \in SUBSET NodeIds
  BY <1>1, MessageExchangeAssumption
<1> HIDE DEF targets
<1>3. MessageOK(msgs[q]) /\ msgs[q].phase = "new"
  BY DEF ExchangeInv, Send
<1>4. MessageOK(m) /\ m.phase = "local"
  BY <1>1, <1>2, <1>3, AddressedOK
<1> HIDE DEF m
<1>5. /\ m \in Message /\ Counted(m) /\ m.responses = <<>> /\ ~ m.listening
      /\ m.cause = "none" /\ m.waiting = m.sent
  BY <1>4 DEF MessageOK, Phased, Counted, NodesOf
<1>6. CASE msgs' = [msgs EXCEPT ![q] = m] /\ UNCHANGED asking
  <2>1. Opens(msgs[q], m)
    BY <1>3, <1>4, <1>5 DEF Opens, GoesOn, IsOpen
  <2>2. Moves(msgs[q], m)
    BY <1>4, <2>1 DEF Moves
  <2> QED BY <1>6, <2>2 DEF MessageStep, Send, BusOK, ExchangeInv
<1>7. CASE Post(q, m)
  <2> DEFINE k == Posted(m)
  <2>0. /\ MessageOK(k) /\ k.responses = <<>> /\ k.waiting = k.sent
        /\ \/ k.phase = "waiting"
           \/ k.phase = "finished" /\ k.waiting = {} /\ k.result = <<>> /\ k.cause = "complete"
    BY <1>4, <1>5, PostedOK
  <2> HIDE DEF k
  <2>3. Opens(msgs[q], k)
    BY <1>3, <2>0 DEF Opens, GoesOn, IsOpen, IsComplete
  <2>1. Moves(msgs[q], Posted(m))
    BY <2>0, <2>3 DEF Moves, k
  <2>2. asking' \subseteq [req : Requests, inst : Instances] /\ msgs' = [msgs EXCEPT ![q] = Posted(m)]
    BY <1>7, PostTyped
  <2> QED BY <2>1, <2>2 DEF MessageStep, Send, BusOK, ExchangeInv
<1> QED BY <1>6, <1>7 DEF Send, m, targets

LEMMA AnswerHereMoves ==
  ASSUME ExchangeInv, BusOK, NEW q \in Requests, AnswerHere(q)
  PROVE  MessageStep /\ BusOK'
<1> DEFINE r == Answer(Sender[q], q, FALSE)
           m == AnsweredHere(msgs[q], r)
<1>1. r \in Response /\ r.node \in NodeIds
  BY AnswerTyped, MessageExchangeAssumption
<1>2. Post(q, m)
  BY DEF AnswerHere
<1> HIDE DEF r
<1>3. /\ MessageOK(msgs[q]) /\ msgs[q].phase = "local" /\ NodesOf(msgs[q].responses) = {}
      /\ msgs[q].waiting = msgs[q].sent
  <2>1. MessageOK(msgs[q]) /\ msgs[q].phase = "local"
    BY DEF ExchangeInv, AnswerHere
  <2>2. msgs[q].responses = <<>> /\ msgs[q].passed = {} /\ Counted(msgs[q])
    BY <2>1 DEF MessageOK, Phased
  <2>3. NodesOf(msgs[q].responses) = {}
    BY <2>2 DEF NodesOf
  <2> QED BY <2>1, <2>2, <2>3 DEF Counted
<1>4. /\ m \in Message /\ Counted(m) /\ m.phase = "local" /\ ~ m.listening
      /\ m.cause = "none" /\ m.sent = msgs[q].sent /\ NodesOf(m.responses) = {r.node}
      /\ m.waiting = msgs[q].waiting \ {r.node}
  BY <1>1, <1>3, AnsweredHereOK
<1> HIDE DEF m
<1>5. LET k == Posted(m) IN
      /\ MessageOK(k) /\ k.sent = m.sent /\ k.responses = m.responses
      /\ k.waiting = m.waiting /\ GoesOn(k)
  <2> DEFINE k == Posted(m)
  <2>1. /\ MessageOK(k) /\ k.sent = m.sent /\ k.responses = m.responses
        /\ k.waiting = m.waiting
        /\ \/ k.phase = "waiting"
           \/ k.phase = "finished" /\ k.waiting = {} /\ k.result = m.responses /\ k.cause = "complete"
    BY <1>4, PostedOK
  <2> HIDE DEF k
  <2> QED BY <2>1 DEF GoesOn, IsOpen, IsComplete, k
<1>6. Moves(msgs[q], Posted(m))
  BY <1>1, <1>3, <1>4, <1>5 DEF Moves, Counts, IsOpen
<1>7. asking' \subseteq [req : Requests, inst : Instances] /\ msgs' = [msgs EXCEPT ![q] = Posted(m)]
  BY <1>2, PostTyped
<1> QED BY <1>6, <1>7 DEF MessageStep, AnswerHere, BusOK, ExchangeInv

\* Of all messages registered at an instance one at most takes an answer.
LEMMA ResultsMove ==
  ASSUME ExchangeInv, BusOK, NEW a \in answering, Results(a)
  PROVE  (MessageStep \/ UNCHANGED msgs) /\ BusOK'
<1> DEFINE q == a.res.req
           k == OnResults(msgs[q], a.res)
<1>1. a.res \in Response /\ q \in Requests /\ a.res.node \in NodeIds
  BY DEF BusOK, Response
<1>2. BusOK'
  BY DEF Results, BusOK, ExchangeInv
<1>3. \A p \in Requests : p # q => ~ Accepts(msgs[p], p, Me(p), a.res)
  BY DEF Accepts
<1>4. CASE Sender[q] = a.inst /\ Accepts(msgs[q], q, Me(q), a.res)
  <2>1. MessageOK(msgs[q])
    BY <1>1 DEF ExchangeInv
  <2> DEFINE n == a.res.node
  <2> HIDE DEF q
  <2>2. Took(msgs[q], k, a.res)
    BY <1>1, <1>4, <2>1, OnResultsOK
  <2> HIDE DEF q, k, n
  <2>3. Keeps(msgs[q], k) \/ (IsOpen(msgs[q]) /\ GoesOn(k))
    BY <2>2 DEF Took, IsOpen, IsComplete, GoesOn, Keeps
  <2>4. n \in NodeIds
    BY <1>1 DEF n
  <2>5. Moves(msgs[q], k)
    BY <2>2, <2>3, <2>4 DEF Took, Moves, Counts, Passes, n
  <2>6. msgs' = [msgs EXCEPT ![q] = k]
    BY <1>1, <1>3, <1>4 DEF Results, ExchangeInv, TypeOK, k
  <2> QED BY <1>1, <1>2, <2>5, <2>6 DEF MessageStep
<1>5. CASE ~ (Sender[q] = a.inst /\ Accepts(msgs[q], q, Me(q), a.res))
  <2>1. msgs' = [p \in Requests |-> msgs[p]]
    BY <1>3, <1>5 DEF Results
  <2> QED BY <1>2, <2>1 DEF ExchangeInv, TypeOK
<1> QED BY <1>4, <1>5

LEMMA StepMoves ==
  ASSUME ExchangeInv, [Next]_vars
  PROVE  (MessageStep \/ UNCHANGED msgs) /\ BusOK'
<1>1. BusOK
  BY DEF ExchangeInv, TypeOK, BusOK
<1>2. CASE UNCHANGED vars
  BY <1>1, <1>2 DEF vars, BusOK, ExchangeInv
<1>3. ASSUME NEW q \in Requests, NEW o \in Options[q],
             NEW known \in SUBSET (Instances \ {Sender[q]}), Send(q, o, known)
      PROVE  MessageStep /\ BusOK'
  BY <1>1, <1>3, SendMoves
<1>4. ASSUME NEW q \in Requests, AnswerHere(q)
      PROVE  MessageStep /\ BusOK'
  BY <1>1, <1>4, AnswerHereMoves
<1>5. ASSUME NEW q \in Requests, Timeout(q)
      PROVE  MessageStep /\ BusOK'
  <2>1. MessageOK(msgs[q]) /\ msgs[q].phase = "waiting"
    BY <1>5 DEF Timeout, ExchangeInv
  <2>2. Moves(msgs[q], PostProcess(msgs[q], "timeout"))
    BY <2>1, TimedOutOK DEF Moves, GivesUp, IsOpen
  <2> QED BY <1>1, <1>5, <2>2 DEF Timeout, MessageStep, BusOK, ExchangeInv
<1>6. ASSUME NEW q \in Requests, Unregister(q)
      PROVE  MessageStep /\ BusOK'
  <2>1. MessageOK(msgs[q]) /\ msgs[q].phase = "finished"
    BY <1>6 DEF Unregister, ExchangeInv
  <2>2. Moves(msgs[q], Unregistered(msgs[q]))
    BY <2>1, UnregisteredOK DEF Moves, Keeps
  <2> QED BY <1>1, <1>6, <2>2 DEF Unregister, MessageStep, BusOK, ExchangeInv
<1>7. ASSUME NEW i \in Instances, NEW q \in Requests, Request(i, q)
      PROVE  UNCHANGED msgs /\ BusOK'
  <2>1. Handle(i, q, "bus") \in SUBSET Handlers
    BY <1>1, HandleTyped
  <2>2. queue' \in [Instances -> Seq(Requests)]
    BY <1>1, <1>7 DEF Request, BusOK
  <2> QED BY <1>1, <1>7, <2>1, <2>2 DEF Request, BusOK
<1>8. ASSUME NEW i \in Instances, Work(i)
      PROVE  UNCHANGED msgs /\ BusOK'
  <2>1. queue[i] \in Seq(Requests) /\ queue[i] # <<>>
    BY <1>1, <1>8 DEF Work, BusOK
  <2>2. Head(queue[i]) \in Requests /\ Tail(queue[i]) \in Seq(Requests)
    BY <2>1
  <2>3. Handle(i, Head(queue[i]), "queue") \in SUBSET Handlers
    BY <1>1, <2>2, HandleTyped
  <2>4. queue' \in [Instances -> Seq(Requests)]
    BY <1>1, <1>8, <2>2 DEF Work, BusOK
  <2> QED BY <1>1, <1>8, <2>3, <2>4 DEF Work, BusOK
<1>9. ASSUME NEW i \in Instances, NEW h \in handling[i], Respond(i, h)
      PROVE  UNCHANGED msgs /\ BusOK'
  <2>1. h.req \in Requests
    BY <1>1, <1>9 DEF BusOK, Handlers
  <2>2. answering' \subseteq [res : Response, inst : Instances]
    BY <1>1, <1>9, <2>1, ReplyTyped DEF Respond
  <2> QED BY <1>1, <1>9, <2>2 DEF Respond, BusOK
<1>11. ASSUME NEW i \in Instances, NEW q \in Requests, Query(i, q)
       PROVE  UNCHANGED msgs /\ BusOK'
  <2>1. asking' \subseteq asking /\ UNCHANGED <<msgs, queue>>
    BY <1>11 DEF Query
  <2>2. CASE Reply(i, q, TRUE) /\ UNCHANGED handling
    <3>1. answering' \subseteq [res : Response, inst : Instances]
      BY <1>1, <2>2, ReplyTyped
    <3> QED BY <1>1, <2>1, <2>2, <3>1 DEF BusOK
  <2>3. CASE /\ handling' = [handling EXCEPT ![i] = @ \cup {[req |-> q, via |-> "query"]}]
             /\ UNCHANGED answering
    <3>1. [req |-> q, via |-> "query"] \in Handlers
      BY DEF Handlers
    <3> QED BY <1>1, <2>1, <2>3, <3>1 DEF BusOK
  <2> QED BY <1>11, <2>2, <2>3 DEF Query
<1>10. ASSUME NEW a \in answering, Results(a)
       PROVE  (MessageStep \/ UNCHANGED msgs) /\ BusOK'
  BY <1>1, <1>10, ResultsMove
<1> QED BY <1>2, <1>3, <1>4, <1>5, <1>6, <1>7, <1>8, <1>9, <1>10, <1>11 DEF Next

LEMMA ExchangeInit == Init => ExchangeInv
<1> SUFFICES ASSUME Init PROVE ExchangeInv
  OBVIOUS
<1>1. \A q \in Requests : msgs[q] = Fresh
  BY DEF Init
<1>2. \A q \in Requests : MessageOK(msgs[q])
  BY <1>1, FreshOK
<1>3. TypeOK
  BY <1>1, <1>2 DEF Init, TypeOK, MessageOK
<1> QED BY <1>2, <1>3 DEF ExchangeInv

LEMMA ExchangeNext == ExchangeInv /\ [Next]_vars => ExchangeInv'
<1> SUFFICES ASSUME ExchangeInv, [Next]_vars PROVE ExchangeInv'
  OBVIOUS
<1>1. (MessageStep \/ UNCHANGED msgs) /\ BusOK'
  BY StepMoves
<1>2. msgs \in [Requests -> Message] /\ \A q \in Requests : MessageOK(msgs[q])
  BY DEF ExchangeInv, TypeOK
<1>3. msgs' \in [Requests -> Message] /\ \A q \in Requests : MessageOK(msgs'[q])
  <2>1. CASE UNCHANGED msgs
    BY <1>2, <2>1
  <2>2. CASE MessageStep
    <3>0. PICK q \in Requests : \E k : MessageOK(k) /\ msgs' = [msgs EXCEPT ![q] = k]
      BY <2>2 DEF MessageStep, Moves
    <3>1. PICK k : MessageOK(k) /\ msgs' = [msgs EXCEPT ![q] = k]
      BY <3>0
    <3>2. k \in Message
      BY <3>1 DEF MessageOK
    <3> QED BY <1>2, <3>1, <3>2
  <2> QED BY <1>1, <2>1, <2>2
<1> QED BY <1>1, <1>3 DEF ExchangeInv, TypeOK, BusOK

-----------------------------------------------------------------------------
\* The inductive invariant: types, what is counted for each message, and what its phase
\* says of it.
THEOREM ExchangeInvariant == Spec => []ExchangeInv
BY ExchangeInit, ExchangeNext, PTL DEF Spec

\* The result of a message has one answer of a node at most (AbstractMessage.onResults).
THEOREM AnswersOnce == Spec => []OneAnswerPerNode
<1>1. ExchangeInv => OneAnswerPerNode
  BY DEF ExchangeInv, MessageOK, Counted, OneAnswerPerNode
<1> QED BY <1>1, ExchangeInvariant, PTL

\* A node is waited for until it has answered or skipped, and a message that ends without
\* its timer has heard of everybody it asked: who is not in its result has skipped
\* (onResults).
THEOREM EverybodyHeard == Spec => []AllAccountedFor
<1>1. ExchangeInv => AllAccountedFor
  BY DEF ExchangeInv, MessageOK, Counted, Phased, AllAccountedFor
<1> QED BY <1>1, ExchangeInvariant, PTL

\* The result of a message that has finished does not change, whatever still arrives.
THEOREM ResultIsFrozen == Spec => ResultFrozen
<1>1. ExchangeInv /\ [Next]_vars =>
        [\A q \in Requests : msgs[q].phase = "finished" =>
           /\ msgs'[q].phase = "finished"
           /\ msgs'[q].result = msgs[q].result
           /\ msgs'[q].cause = msgs[q].cause]_vars
  <2> SUFFICES ASSUME ExchangeInv, [Next]_vars, NEW q \in Requests, msgs[q].phase = "finished"
               PROVE  /\ msgs'[q].phase = "finished"
                      /\ msgs'[q].result = msgs[q].result
                      /\ msgs'[q].cause = msgs[q].cause
    OBVIOUS
  <2>1. CASE UNCHANGED msgs
    BY <2>1
  <2>2. CASE MessageStep
    <3>0. PICK p \in Requests : \E k : Moves(msgs[p], k) /\ msgs' = [msgs EXCEPT ![p] = k]
      BY <2>2 DEF MessageStep
    <3>1. PICK k : Moves(msgs[p], k) /\ msgs' = [msgs EXCEPT ![p] = k]
      BY <3>0
    <3>2. CASE p = q
      <4>1. msgs'[q] = k
        BY <3>1, <3>2 DEF ExchangeInv, TypeOK
      <4> QED BY <3>1, <3>2, <4>1 DEF Moves, Opens, Counts, Passes, GivesUp, Keeps, IsOpen
    <3>3. CASE p # q
      BY <3>1, <3>3 DEF ExchangeInv, TypeOK
    <3> QED BY <3>2, <3>3
  <2> QED BY <2>1, <2>2, StepMoves
<1> QED BY <1>1, ExchangeInvariant, PTL DEF Spec, ResultFrozen

-----------------------------------------------------------------------------
\* Refinement

\* What Gather sees of a message in each of its phases.
LEMMA Seen ==
  ASSUME NEW m, MessageOK(m)
  PROVE  /\ m.phase = "new" => Standing(m) = "new" /\ CountedIn(m) = {}
         /\ IsOpen(m) => /\ Standing(m) = "open" /\ CountedIn(m) = NodesOf(m.responses)
                         /\ AwaitedIn(m) = m.waiting
         /\ m.phase = "finished" =>
              /\ CountedIn(m) = NodesOf(m.result) /\ AwaitedIn(m) = {}
              /\ Standing(m) = IF m.cause = "timeout" THEN "partial" ELSE "complete"
<1>1. m \in Message /\ Phased(m)
  BY DEF MessageOK
<1>2. m.phase = "new" => Standing(m) = "new" /\ CountedIn(m) = {}
  BY <1>1 DEF Phased, Standing, CountedIn, NodesOf
<1>3. IsOpen(m) => Standing(m) = "open" /\ CountedIn(m) = NodesOf(m.responses)
  \* its cause is "none", so that the third case of Standing is not taken
  <2>1. CASE m.phase = "local"
    BY <1>1, <2>1 DEF Phased, Standing, CountedIn
  <2>2. CASE m.phase = "waiting"
    BY <1>1, <2>2 DEF Phased, Standing, CountedIn
  <2> QED BY <2>1, <2>2 DEF IsOpen
<1>4. m.phase = "finished" =>
        /\ CountedIn(m) = NodesOf(m.result)
        /\ Standing(m) = IF m.cause = "timeout" THEN "partial" ELSE "complete"
  BY DEF Standing, CountedIn
<1>5. (IsOpen(m) => AwaitedIn(m) = m.waiting) /\ (m.phase = "finished" => AwaitedIn(m) = {})
  BY DEF IsOpen, AwaitedIn
<1> QED BY <1>2, <1>3, <1>4, <1>5

\* A step that leaves the message open or completes it proceeds.
LEMMA SeenGoingOn ==
  ASSUME NEW k, MessageOK(k), GoesOn(k)
  PROVE  /\ AwaitedIn(k) = k.waiting /\ CountedIn(k) = NodesOf(k.responses)
         /\ Standing(k) = "open" \/ (Standing(k) = "complete" /\ AwaitedIn(k) = {})
BY Seen DEF GoesOn, IsComplete

\* A step of one message is a step of its question, or one that Gather does not see.
LEMMA MoveIsStep ==
  ASSUME ExchangeInv, NEW q \in Requests, NEW k, Moves(msgs[q], k),
         msgs' = [msgs EXCEPT ![q] = k]
  PROVE  Gathering!Next \/ UNCHANGED Gathering!vars
<1> DEFINE m == msgs[q]
           asked == [p \in Requests |-> msgs[p].sent]
           pending == [p \in Requests |-> AwaitedIn(msgs[p])]
           answers == [p \in Requests |-> CountedIn(msgs[p])]
           status == [p \in Requests |-> Standing(msgs[p])]
<1>1. MessageOK(m) /\ MessageOK(k) /\ m \in Message /\ k \in Message
  BY DEF ExchangeInv, Moves, MessageOK
<1>2. /\ asked' = [asked EXCEPT ![q] = k.sent]
      /\ pending' = [pending EXCEPT ![q] = AwaitedIn(k)]
      /\ answers' = [answers EXCEPT ![q] = CountedIn(k)]
      /\ status' = [status EXCEPT ![q] = Standing(k)]
  BY DEF ExchangeInv, TypeOK
<1>3. /\ asked[q] = m.sent /\ pending[q] = AwaitedIn(m)
      /\ answers[q] = CountedIn(m) /\ status[q] = Standing(m)
  OBVIOUS
<1>4. k.sent \in SUBSET NodeIds /\ m.waiting \in SUBSET NodeIds
  BY <1>1 DEF Message
<1>5. pending'[q] = AwaitedIn(k)
  BY DEF ExchangeInv, TypeOK
<1>6. /\ k.sent = m.sent => UNCHANGED asked
      /\ CountedIn(k) = CountedIn(m) => UNCHANGED answers
      /\ AwaitedIn(k) = AwaitedIn(m) => UNCHANGED pending
      /\ Standing(k) = Standing(m) => UNCHANGED status
  BY <1>2, <1>3
<1> HIDE DEF m, asked, pending, answers, status
<1>7. ASSUME GoesOn(k)
      PROVE  Gathering!Proceeds(q)
  <2>1. Standing(k) = "open" \/ (Standing(k) = "complete" /\ pending'[q] = {})
    BY <1>1, <1>5, <1>7, SeenGoingOn
  <2>2. \/ status' = [status EXCEPT ![q] = "open"]
        \/ pending'[q] = {} /\ status' = [status EXCEPT ![q] = "complete"]
    BY <1>2, <2>1
  <2> QED BY <2>2 DEF Gathering!Proceeds, pending, status
<1>8. CASE Opens(m, k)
  <2>1. Standing(m) = "new" /\ CountedIn(m) = {} /\ CountedIn(k) = {} /\ AwaitedIn(k) = k.sent
    BY <1>1, <1>8, Seen, SeenGoingOn DEF Opens, NodesOf
  <2>2. /\ status[q] = "new"
        /\ asked' = [asked EXCEPT ![q] = k.sent]
        /\ pending' = [pending EXCEPT ![q] = k.sent]
        /\ UNCHANGED answers
    BY <1>2, <1>3, <1>6, <2>1
  <2>3. Gathering!Open(q, k.sent)
    BY <1>7, <1>8, <2>2 DEF Opens, Gathering!Open, asked, pending, answers, status
  <2> QED BY <1>4, <2>3 DEF Gathering!Next
<1>9. CASE Counts(m, k)
  <2>1. PICK n \in NodeIds : /\ n \in m.waiting \/ n \notin m.sent \cup NodesOf(m.responses)
                             /\ NodesOf(k.responses) = NodesOf(m.responses) \cup {n}
                             /\ k.waiting = m.waiting \ {n}
    BY <1>9 DEF Counts
  <2>2. /\ Standing(m) = "open" /\ k.sent = m.sent
        /\ CountedIn(m) = NodesOf(m.responses) /\ AwaitedIn(m) = m.waiting
        /\ CountedIn(k) = CountedIn(m) \cup {n} /\ AwaitedIn(k) = AwaitedIn(m) \ {n}
    BY <1>1, <1>9, <2>1, Seen, SeenGoingOn DEF Counts
  <2>3. /\ status[q] = "open"
        /\ n \in pending[q] \/ n \notin asked[q] \cup answers[q]
        /\ pending' = [pending EXCEPT ![q] = pending[q] \ {n}]
        /\ answers' = [answers EXCEPT ![q] = answers[q] \cup {n}]
        /\ UNCHANGED asked
    BY <1>2, <1>3, <1>6, <2>1, <2>2
  <2>4. Gathering!Answer(q, n)
    BY <1>7, <1>9, <2>3 DEF Counts, Gathering!Answer, asked, pending, answers, status
  <2> QED BY <2>1, <2>4 DEF Gathering!Next
<1>10. CASE Passes(m, k)
  <2>1. PICK n \in m.waiting : k.waiting = m.waiting \ {n}
    BY <1>10 DEF Passes
  <2>2. /\ Standing(m) = "open" /\ k.sent = m.sent /\ AwaitedIn(m) = m.waiting
        /\ CountedIn(k) = CountedIn(m) /\ AwaitedIn(k) = AwaitedIn(m) \ {n}
    BY <1>1, <1>10, <2>1, Seen, SeenGoingOn DEF Passes
  <2>3. /\ status[q] = "open" /\ n \in pending[q]
        /\ pending' = [pending EXCEPT ![q] = pending[q] \ {n}]
        /\ UNCHANGED answers /\ UNCHANGED asked
    BY <1>2, <1>3, <1>6, <2>1, <2>2
  <2>4. Gathering!Pass(q, n)
    BY <1>7, <1>10, <2>3 DEF Passes, Gathering!Pass, asked, pending, answers, status
  <2>5. n \in NodeIds
    BY <1>4, <2>1
  <2> QED BY <2>4, <2>5 DEF Gathering!Next
<1>11. CASE GivesUp(m, k)
  <2>1. /\ Standing(m) = "open" /\ Standing(k) = "partial" /\ AwaitedIn(k) = {}
        /\ CountedIn(k) = CountedIn(m) /\ k.sent = m.sent
    BY <1>1, <1>11, Seen DEF GivesUp
  <2>2. /\ status[q] = "open"
        /\ status' = [status EXCEPT ![q] = "partial"]
        /\ pending' = [pending EXCEPT ![q] = {}]
        /\ UNCHANGED answers /\ UNCHANGED asked
    BY <1>2, <1>3, <1>6, <2>1
  <2>3. Gathering!GiveUp(q)
    BY <2>2 DEF Gathering!GiveUp, asked, pending, answers, status
  <2> QED BY <2>3 DEF Gathering!Next
<1>12. CASE Keeps(m, k)
  <2>1. /\ Standing(k) = Standing(m) /\ CountedIn(k) = CountedIn(m) /\ k.sent = m.sent
        /\ AwaitedIn(k) = AwaitedIn(m)
    BY <1>1, <1>12, Seen DEF Keeps
  <2> QED BY <1>6, <2>1 DEF Gathering!vars, asked, pending, answers, status
<1> QED BY <1>8, <1>9, <1>10, <1>11, <1>12 DEF Moves, m

\* Messages implement Gather: a question is opened once, each node answers or passes once,
\* and it is closed once, by the last of them or by the timer.
THEOREM Implementation == Spec => ImplementsGather
<1>1. Init => Gathering!Init
  <2> SUFFICES ASSUME Init PROVE Gathering!Init
    OBVIOUS
  <2>1. \A q \in Requests : /\ msgs[q].sent = {} /\ AwaitedIn(msgs[q]) = {}
                            /\ CountedIn(msgs[q]) = {} /\ Standing(msgs[q]) = "new"
    BY DEF Init, Fresh, CountedIn, AwaitedIn, Standing, NodesOf
  <2> QED BY <2>1 DEF Gathering!Init
<1>2. ExchangeInv /\ [Next]_vars => [Gathering!Next]_(Gathering!vars)
  <2> SUFFICES ASSUME ExchangeInv, [Next]_vars PROVE Gathering!Next \/ UNCHANGED Gathering!vars
    OBVIOUS
  <2>1. CASE UNCHANGED msgs
    BY <2>1 DEF Gathering!vars
  <2>2. CASE MessageStep
    <3>1. PICK q \in Requests : \E k : Moves(msgs[q], k) /\ msgs' = [msgs EXCEPT ![q] = k]
      BY <2>2 DEF MessageStep
    <3>2. PICK k : Moves(msgs[q], k) /\ msgs' = [msgs EXCEPT ![q] = k]
      BY <3>1
    <3> QED BY <3>2, MoveIsStep
  <2> QED BY <2>1, <2>2, StepMoves
<1> QED BY <1>1, <1>2, ExchangeInvariant, PTL DEF Spec, ImplementsGather, Gathering!Spec
=============================================================================
