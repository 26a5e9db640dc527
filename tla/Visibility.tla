----------------------------- MODULE Visibility -----------------------------
(***************************************************************************)
(* What writing to search indices promises: a write that is not found yet  *)
(* has a refresh owed to its index, and a refresh that is owed is made or  *)
(* fails.  The writer rests only when nothing is being written or owed.    *)
(***************************************************************************)
EXTENDS Integers

CONSTANT Indices

VARIABLES
  writes,   \* per index, the writes under way
  unseen,   \* indices with something written that is not found yet
  owed,     \* indices with a refresh to come
  refused,  \* indices whose refresh has failed since the last write began
  resting   \* whether all is done

vars == <<writes, unseen, owed, refused, resting>>

Init ==
  /\ writes = [i \in Indices |-> 0]
  /\ unseen = {} /\ owed = {} /\ refused = {}
  /\ resting = TRUE

Idle == \A i \in Indices : writes[i] = 0

\* A refresh is owed before anything is written.
Begin(i) ==
  /\ writes' = [writes EXCEPT ![i] = @ + 1]
  /\ owed' = owed \cup {i} /\ refused' = refused \ {i}
  /\ UNCHANGED unseen

\* A write that fails leaves nothing to be found.
End(i) ==
  /\ writes[i] > 0
  /\ writes' = [writes EXCEPT ![i] = @ - 1]
  /\ unseen' \in {unseen, unseen \cup {i}}
  /\ UNCHANGED <<owed, refused>>

\* With a refresh all that was written is found; another is owed when a write has
\* begun meanwhile.
Refresh(i) ==
  /\ i \in owed
  /\ unseen' = unseen \ {i}
  /\ \/ UNCHANGED owed
     \/ writes[i] = 0 /\ owed' = owed \ {i}
  /\ UNCHANGED <<writes, refused>>

Refuse(some) ==
  /\ some # {} /\ \A i \in some : writes[i] = 0
  /\ owed' = owed \ some /\ refused' = refused \cup some
  /\ UNCHANGED <<writes, unseen>>

\* It goes to rest, or is told that there is more to come.
Turn == resting' # resting /\ UNCHANGED <<writes, unseen, owed, refused>>

Change ==
  \/ \E i \in Indices : Begin(i) \/ End(i) \/ Refresh(i)
  \/ \E some \in SUBSET owed : Refuse(some)
  \/ Turn

Next == Change /\ (resting' => Idle' /\ owed' = {})

Spec == Init /\ [][Next]_vars
=============================================================================
