----------------------------- MODULE IndexQueue -----------------------------
(***************************************************************************)
(* The queue of entries for search indices and the refresh that makes them *)
(* found (packages/search/src/lib/IndexProcessingQueue.ts).                *)
(*                                                                         *)
(* An entry is the index storage it goes to; the indices of one storage    *)
(* are refreshed by one call.  The worker queue and the semaphore are      *)
(* external: the queue counts what is pushed and calls onEmpty() at the    *)
(* end of the last entry, the semaphore serves in the order of asking.     *)
(* Whether an entry is indexable, is written and can be refreshed is open. *)
(***************************************************************************)
EXTENDS Integers, Sequences

CONSTANTS
  Storages,   \* the index storages
  MaxEntries  \* bound: entries pushed

ASSUME IndexAssumption == MaxEntries \in Nat

VARIABLES
  inc,              \* queue.getInc(): entries pushed so far
  pending,          \* the entries that wait
  active,           \* per storage, the entries being written
  refreshIndexRef,  \* storages to be refreshed
  holder,           \* LOCK: "free", or what its holder does: "sleeping", "refreshing"
  noted,            \* inc as noted by the holder
  waiting,          \* inc as noted by each of those that wait for LOCK
  refreshFor,       \* storages that the refresh has still to ask
  stale,            \* storages with entries that are not found yet
  failed            \* storages whose refresh has failed since their last entry

queueVars == <<inc, pending, active>>
lockVars == <<holder, noted, waiting>>
vars == <<queueVars, refreshIndexRef, lockVars, refreshFor, stale, failed>>

Init ==
  /\ inc = 0 /\ pending = <<>> /\ active = [x \in Storages |-> 0]
  /\ refreshIndexRef = {} /\ holder = "free" /\ noted = 0 /\ waiting = <<>>
  /\ refreshFor = {} /\ stale = {} /\ failed = {}

Busy == pending # <<>> \/ \E x \in Storages : active[x] > 0

-----------------------------------------------------------------------------
\* LOCK

\* inc is noted; LOCK is taken or waited for.
NoteAndAcquire ==
  \/ /\ holder = "free"
     /\ holder' = "sleeping" /\ noted' = inc
     /\ UNCHANGED waiting
  \/ /\ holder # "free"
     /\ waiting' = Append(waiting, inc)
     /\ UNCHANGED <<holder, noted>>

Release ==
  \/ /\ waiting = <<>>
     /\ holder' = "free"
     /\ UNCHANGED <<noted, waiting>>
  \/ /\ waiting # <<>>
     /\ holder' = "sleeping" /\ noted' = Head(waiting) /\ waiting' = Tail(waiting)

-----------------------------------------------------------------------------
\* The queue

Push(x) ==
  /\ inc < MaxEntries
  /\ inc' = inc + 1 /\ pending' = Append(pending, x)
  /\ UNCHANGED <<active, refreshIndexRef, lockVars, refreshFor, stale, failed>>

\* onEmpty(), when an entry has left the queue.
EntryOver ==
  \/ (Busy' \/ refreshIndexRef = {}) /\ UNCHANGED lockVars
  \/ ~ Busy' /\ refreshIndexRef # {} /\ NoteAndAcquire

\* do() of an entry that is indexable: its storage is noted before it is written to, as
\* whoever makes entries gives them a class and a registry (ExtendEntityControllerApi.ts,
\* SearchIndexTask.ts).
Do(x) ==
  /\ pending # <<>> /\ x = Head(pending)
  /\ pending' = Tail(pending) /\ active' = [active EXCEPT ![x] = @ + 1]
  /\ refreshIndexRef' = refreshIndexRef \cup {x} /\ failed' = failed \ {x}
  /\ UNCHANGED <<inc, lockVars, refreshFor, stale>>

\* do() of an entry that is not.
Pass ==
  /\ pending # <<>>
  /\ pending' = Tail(pending) /\ UNCHANGED <<inc, active>>
  /\ EntryOver
  /\ UNCHANGED <<refreshIndexRef, refreshFor, stale, failed>>

\* The entry has been written, or that has failed.
Done(x) ==
  /\ active[x] > 0
  /\ active' = [active EXCEPT ![x] = @ - 1] /\ UNCHANGED <<inc, pending>>
  /\ stale' \in {stale, stale \cup {x}}
  /\ EntryOver
  /\ UNCHANGED <<refreshIndexRef, refreshFor, failed>>

-----------------------------------------------------------------------------
\* The half second after which the holder of LOCK looks again

\* Variant: the holder does not look.
AnyInc == TRUE

NothingCame == inc = noted

\* Variant: a holder that leaves the refresh to a later one keeps LOCK.
KeepLock == UNCHANGED lockVars

Leave == Release

Wake ==
  /\ holder = "sleeping"
  /\ \/ /\ NothingCame
        /\ holder' = "refreshing" /\ refreshFor' = refreshIndexRef /\ refreshIndexRef' = {}
        /\ UNCHANGED <<noted, waiting>>
     \/ /\ ~ NothingCame
        /\ Leave
        /\ UNCHANGED <<refreshFor, refreshIndexRef>>
  /\ UNCHANGED <<queueVars, stale, failed>>

\* refresh() of the indices of one storage.
Refresh(x) ==
  /\ x \in refreshFor
  /\ refreshFor' = refreshFor \ {x} /\ stale' = stale \ {x}
  /\ UNCHANGED <<queueVars, refreshIndexRef, lockVars, failed>>

\* It is rejected: refresh() ends and leaves out the storages after it.
RefreshFails ==
  /\ refreshFor # {}
  /\ refreshFor' = {} /\ failed' = failed \cup (refreshFor \ refreshIndexRef)
  /\ UNCHANGED <<queueVars, refreshIndexRef, lockVars, stale>>

Refreshed ==
  /\ holder = "refreshing" /\ refreshFor = {}
  /\ Release
  /\ UNCHANGED <<queueVars, refreshIndexRef, refreshFor, stale, failed>>

Working == \E x \in Storages : Do(x) \/ Done(x)
Refreshing == Wake \/ RefreshFails \/ Refreshed \/ \E x \in Storages : Refresh(x)

Next == (\E x \in Storages : Push(x)) \/ Working \/ Pass \/ Refreshing

Spec == Init /\ [][Next]_vars

\* Entries are worked on, writing ends, timers fire and refreshes end.  Every behaviour
\* is finite, so that weak fairness of a disjunction is that of each of its actions.
FairSpec == Spec /\ WF_vars(Working \/ Pass) /\ WF_vars(Refreshing)

-----------------------------------------------------------------------------
\* Correctness

TypeInvariant ==
  /\ inc \in Nat /\ pending \in Seq(Storages) /\ active \in [Storages -> Nat]
  /\ refreshIndexRef \subseteq Storages /\ refreshFor \subseteq Storages
  /\ stale \subseteq Storages /\ failed \subseteq Storages
  /\ holder \in {"free", "sleeping", "refreshing"} /\ noted \in Nat /\ waiting \in Seq(Nat)

\* The queue has run empty and LOCK is free: this is what await() waits for.
Quiet == ~ Busy /\ holder = "free"

\* onEmpty() refreshes only if nothing has been pushed since it was called, and leaves
\* it to the last one otherwise: when all is quiet no entry has been forgotten, except
\* those of a refresh that failed.
NothingForgotten == Quiet => stale \subseteq failed

\* The queue as one that owes refreshes: of what it has noted and of what the refresh has
\* still to ask.
Visible == INSTANCE Visibility WITH
             Indices <- Storages, writes <- active, unseen <- stale, refused <- failed,
             owed <- refreshIndexRef \cup refreshFor, resting <- Quiet

\* A storage that is written to has its refresh owed from before the write until all of it
\* has been found or has failed, and the queue is quiet only when none is owed.
ImplementsVisibility == Visible!Spec

\* Once no more is pushed, what has been written is found at last, unless its refresh
\* fails: the holders that skip the refresh hand LOCK on to one that does not.
FoundAtLast ==
  \A x \in Storages : x \in stale ~> (x \notin stale \/ x \in failed)
=============================================================================
