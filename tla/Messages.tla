------------------------------ MODULE Messages ------------------------------
(***************************************************************************)
(* AbstractMessage (packages/base/src/libs/messaging/AbstractMessage.ts):  *)
(* one request to several nodes, the answers it collects, and the one      *)
(* result it hands out.  The state of a message is a record; the modules   *)
(* that use messages keep one for every request.                           *)
(*                                                                         *)
(*   phase      "new", "local" (beforeSend answers on this node),          *)
(*              "waiting" (ready() is pending), "finished"                 *)
(*   sent       request.targetIds                                          *)
(*   waiting    targetIds: the nodes that have not answered                *)
(*   responses  the answers, in the order of arrival                       *)
(*   passed     the nodes whose answer was a skipping one, which ends the  *)
(*              wait for them and is not collected (history)               *)
(*   patient    option waitIfNoTarget                                      *)
(*   active     answers are accepted                                       *)
(*   listening  registered at the event bus                                *)
(*   result     what ready() resolves to                                   *)
(*   cause      what ended it: "complete" or "timeout"                     *)
(***************************************************************************)
EXTENDS Naturals, Sequences

Fresh ==
  [phase |-> "new", sent |-> {}, waiting |-> {}, responses |-> <<>>, passed |-> {},
   patient |-> FALSE, active |-> TRUE, listening |-> FALSE, result |-> <<>>, cause |-> "none"]

\* send() up to beforeSend.
Addressed(m, targets, waitIfNoTarget) ==
  [m EXCEPT !.phase = "local", !.sent = targets, !.waiting = targets,
            !.patient = waitIfNoTarget]

\* beforeSend of Message: the answer of this node, which is not asked again.
AnsweredHere(m, res) ==
  [m EXCEPT !.responses = Append(@, res), !.waiting = @ \ {res.node}]

\* postProcess is a once-listener: the first of the last answer and the timer
\* fixes the result.
PostProcess(m, why) ==
  IF m.phase = "finished" THEN m
  ELSE [m EXCEPT !.phase = "finished", !.result = m.responses, !.cause = why]

\* The rest of send(): with nobody to wait for, the result is ready at once
\* (waitIfNoTarget prevents it); otherwise register, start the timer and post.
Posted(m) ==
  IF m.waiting = {} /\ ~ m.patient THEN PostProcess(m, "complete")
  ELSE [m EXCEPT !.phase = "waiting", !.listening = TRUE]

\* Variant: answers of nodes that have answered before.
AcceptsRepeated(m, q, me, res) ==
  m.listening /\ m.active /\ res.req = q /\ me = res.to /\ res.node \in m.sent

\* The guards of onResults, for message q of a node called me.
Accepts(m, q, me, res) ==
  m.listening /\ m.active /\ res.req = q /\ me = res.to /\ res.node \in m.waiting

\* Variant: the first answer ends it.
OnResultsFirst(m, res) ==
  PostProcess([m EXCEPT !.waiting = @ \ {res.node}, !.responses = Append(@, res),
                        !.active = FALSE], "complete")

\* onResults past its guards.  The node is no longer waited for; what it says
\* is collected unless it says that it skips the request.
OnResults(m, res) ==
  LET left == m.waiting \ {res.node}
      kept == [m EXCEPT !.waiting = left,
                        !.active = left # {},
                        !.responses = IF res.skipping THEN @ ELSE Append(@, res),
                        !.passed = IF res.skipping THEN @ \cup {res.node} ELSE @]
  IN  IF left = {} THEN PostProcess(kept, "complete") ELSE kept

\* After ready() has resolved: unregister.
Unregistered(m) == [m EXCEPT !.listening = FALSE]

NodesOf(answers) == {answers[i].node : i \in DOMAIN answers}
=============================================================================
