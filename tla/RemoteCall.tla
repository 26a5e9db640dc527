----------------------------- MODULE RemoteCall -----------------------------
(***************************************************************************)
(* What having a task executed elsewhere promises: a helper works only on  *)
(* calls that it was asked to do, at most once each; the caller is told    *)
(* one outcome, which is true; and it gets results only of work that is    *)
(* done, after it was told that its call was accepted.                     *)
(***************************************************************************)
CONSTANTS Calls, Helpers

VARIABLES
  asked,    \* per call, the helpers it was made to
  outcome,  \* per call: "none", "pending", "silence", "refused", "accepted", "results"
  job,      \* per helper and call: "none", "refused", "taken", "done"
  got       \* per call, the helpers whose results the caller has

vars == <<asked, outcome, job, got>>

Init ==
  /\ asked = [c \in Calls |-> {}]
  /\ outcome = [c \in Calls |-> "none"]
  /\ job = [h \in Helpers |-> [c \in Calls |-> "none"]]
  /\ got = [c \in Calls |-> {}]

Becomes(c, end) == outcome' = [outcome EXCEPT ![c] = end]

Call(c, some) ==
  /\ outcome[c] = "none" /\ Becomes(c, "pending")
  /\ asked' = [asked EXCEPT ![c] = some]
  /\ UNCHANGED <<job, got>>

Answer(h, c, how) ==
  /\ h \in asked[c] /\ job[h][c] = "none"
  /\ job' = [job EXCEPT ![h][c] = how]
  /\ UNCHANGED <<asked, outcome, got>>

Finish(h, c) ==
  /\ job[h][c] = "taken"
  /\ job' = [job EXCEPT ![h][c] = "done"]
  /\ UNCHANGED <<asked, outcome, got>>

Taken(h, c) == job[h][c] \in {"taken", "done"}

\* The caller is told that it was refused, accepted, or that nobody has said anything in
\* time.
Conclude(c, end) ==
  /\ outcome[c] = "pending" /\ Becomes(c, end)
  /\ \/ end = "silence"
     \/ end = "refused" /\ \E h \in asked[c] : job[h][c] = "refused"
     \/ end = "accepted" /\ \E h \in asked[c] : Taken(h, c)
  /\ UNCHANGED <<asked, job, got>>

\* All that the caller has heard of are through with it.
Return(c, heard, some) ==
  /\ outcome[c] = "accepted" /\ Becomes(c, "results")
  /\ heard # {} /\ \A h \in heard : job[h][c] \in {"done", "refused"}
  /\ some \subseteq {h \in heard : job[h][c] = "done"}
  /\ got' = [got EXCEPT ![c] = some]
  /\ UNCHANGED <<asked, job>>

Next ==
  \E c \in Calls :
    \/ \E some \in SUBSET Helpers : Call(c, some)
    \/ \E h \in Helpers : Answer(h, c, "refused") \/ Answer(h, c, "taken") \/ Finish(h, c)
    \/ \E end \in {"silence", "refused", "accepted"} : Conclude(c, end)
    \/ \E heard \in SUBSET asked[c], some \in SUBSET asked[c] : Return(c, heard, some)

Spec == Init /\ [][Next]_vars
=============================================================================
