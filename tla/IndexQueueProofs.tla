-------------------------- MODULE IndexQueueProofs --------------------------
(***************************************************************************)
(* When the index queue is quiet no entry has been forgotten: proof of     *)
(* NothingForgotten for any storages and any number of entries.            *)
(***************************************************************************)
EXTENDS IndexQueue, TLAPS

\* inc as noted by the holder of LOCK, if it still waits, or by one behind it.
NotedNow ==
  \/ holder = "sleeping" /\ noted = inc
  \/ \E k \in DOMAIN waiting : waiting[k] = inc

\* Nothing is noted above inc.
NotedBelow == noted <= inc /\ \A k \in DOMAIN waiting : waiting[k] <= inc

\* Who has noted the present inc did so in an empty queue, and nothing has come since.
NotedAtRest == NotedNow => ~ Busy

\* Whatever is to be refreshed has somebody who will see to it: an entry that is not over
\* yet or one who has noted the present inc.
RefreshPromised == refreshIndexRef # {} => Busy \/ NotedNow

\* A storage is noted as long as it is written to.
WrittenIsNoted == \A x \in Storages : active[x] > 0 => x \in refreshIndexRef

LockKept ==
  /\ holder = "free" => waiting = <<>>
  /\ refreshFor # {} => holder = "refreshing"

\* What is not found yet is to be refreshed, or its refresh has failed.
StaleIsKnown == stale \subseteq refreshIndexRef \cup refreshFor \cup failed

IndexInv ==
  /\ TypeInvariant /\ NotedBelow /\ NotedAtRest /\ RefreshPromised
  /\ WrittenIsNoted /\ LockKept /\ StaleIsKnown

-----------------------------------------------------------------------------
\* LOCK is handed on to the first that waits, or becomes free.
LEMMA ReleaseKeeps ==
  ASSUME TypeInvariant, NotedBelow, Release, inc' = inc,
         holder # "free", ~ (holder = "sleeping" /\ noted = inc)
  PROVE  /\ NotedBelow' /\ (NotedNow' <=> NotedNow)
         /\ (holder' = "free" => waiting' = <<>>) /\ holder' # "refreshing"
         /\ noted' \in Nat /\ waiting' \in Seq(Nat) /\ holder' \in {"free", "sleeping", "refreshing"}
<1>1. CASE waiting = <<>> /\ holder' = "free" /\ UNCHANGED <<noted, waiting>>
  BY <1>1 DEF TypeInvariant, NotedBelow, NotedNow
<1>2. CASE waiting # <<>> /\ holder' = "sleeping" /\ noted' = Head(waiting) /\ waiting' = Tail(waiting)
  <2>1. noted' = waiting[1] /\ 1 \in DOMAIN waiting /\ DOMAIN waiting = 1 .. Len(waiting)
    BY <1>2 DEF TypeInvariant
  <2>2. DOMAIN waiting' = 1 .. Len(waiting) - 1 /\ \A k \in DOMAIN waiting' : waiting'[k] = waiting[k + 1]
    BY <1>2 DEF TypeInvariant
  <2>3. ASSUME NEW k \in DOMAIN waiting, k # 1
        PROVE  k - 1 \in DOMAIN waiting' /\ waiting'[k - 1] = waiting[k]
    <3>1. k \in Int /\ k >= 2 /\ k <= Len(waiting) /\ Len(waiting) \in Nat
      BY <2>1, <2>3 DEF TypeInvariant
    <3>2. k - 1 \in DOMAIN waiting' /\ (k - 1) + 1 = k
      BY <2>2, <3>1
    <3> QED BY <2>2, <3>2
  <2>4. \A k \in DOMAIN waiting' : k + 1 \in DOMAIN waiting
    BY <2>1, <2>2 DEF TypeInvariant
  <2>5. NotedBelow' /\ (NotedNow' => NotedNow)
    BY <2>1, <2>2, <2>4, <1>2 DEF NotedBelow, NotedNow
  <2>6. NotedNow => NotedNow'
    BY <2>1, <2>3, <1>2 DEF NotedNow
  <2>7. noted' \in Nat /\ waiting' \in Seq(Nat)
    BY <1>2, <2>1 DEF TypeInvariant
  <2> QED BY <2>4, <2>5, <2>6, <2>7, <1>2
<1> QED BY <1>1, <1>2 DEF Release

\* onEmpty() notes the present inc if there is something to be refreshed.
LEMMA EntryOverKeeps ==
  ASSUME TypeInvariant, NotedBelow, LockKept, Busy, NotedAtRest, EntryOver,
         inc' = inc, refreshIndexRef' = refreshIndexRef, refreshFor' = refreshFor
  PROVE  /\ NotedBelow' /\ NotedAtRest' /\ RefreshPromised' /\ LockKept'
         /\ noted' \in Nat /\ waiting' \in Seq(Nat) /\ holder' \in {"free", "sleeping", "refreshing"}
<1>1. CASE (Busy' \/ refreshIndexRef = {}) /\ UNCHANGED lockVars
  <2>1. ~ NotedNow'
    BY <1>1 DEF NotedAtRest, NotedNow, lockVars
  <2> QED
    BY <1>1, <2>1 DEF lockVars, TypeInvariant, NotedBelow, NotedAtRest, RefreshPromised, LockKept
<1>2. CASE ~ Busy' /\ refreshIndexRef # {} /\ NoteAndAcquire
  <2>1. CASE holder = "free" /\ holder' = "sleeping" /\ noted' = inc /\ UNCHANGED waiting
    BY <1>2, <2>1 DEF TypeInvariant, NotedBelow, NotedAtRest, RefreshPromised, LockKept, NotedNow
  <2>2. CASE holder # "free" /\ waiting' = Append(waiting, inc) /\ UNCHANGED <<holder, noted>>
    <3>1. /\ DOMAIN waiting' = 1 .. Len(waiting) + 1 /\ waiting'[Len(waiting) + 1] = inc
          /\ \A k \in DOMAIN waiting : waiting'[k] = waiting[k]
          /\ DOMAIN waiting = 1 .. Len(waiting) /\ Len(waiting) \in Nat /\ waiting' \in Seq(Nat)
      BY <2>2 DEF TypeInvariant
    <3>2. NotedNow'
      BY <3>1 DEF NotedNow
    <3>3. NotedBelow'
      BY <3>1, <2>2 DEF NotedBelow, TypeInvariant
    <3> QED
      BY <1>2, <2>2, <3>1, <3>2, <3>3 DEF NotedAtRest, RefreshPromised, LockKept, TypeInvariant
  <2> QED BY <1>2, <2>1, <2>2 DEF NoteAndAcquire
<1> QED BY <1>1, <1>2 DEF EntryOver

LEMMA InitInv == Init => IndexInv
<1> SUFFICES ASSUME Init PROVE IndexInv
  OBVIOUS
<1>1. TypeInvariant /\ NotedBelow /\ WrittenIsNoted /\ LockKept /\ StaleIsKnown /\ RefreshPromised
  BY DEF Init, TypeInvariant, NotedBelow, WrittenIsNoted, LockKept, StaleIsKnown, RefreshPromised
<1>2. NotedAtRest
  BY DEF Init, NotedAtRest, NotedNow
<1> QED BY <1>1, <1>2 DEF IndexInv

LEMMA NextInv == IndexInv /\ [Next]_vars => IndexInv'
<1> SUFFICES ASSUME IndexInv, [Next]_vars PROVE IndexInv'
  OBVIOUS
<1> USE DEF IndexInv
<1>1. ASSUME NEW x \in Storages, Push(x) PROVE IndexInv'
  <2> USE <1>1 DEF Push, lockVars
  <2>1. TypeInvariant' /\ NotedBelow' /\ WrittenIsNoted' /\ LockKept' /\ StaleIsKnown'
    BY DEF TypeInvariant, NotedBelow, WrittenIsNoted, LockKept, StaleIsKnown
  <2>2. ~ NotedNow'
    BY DEF NotedNow, NotedBelow, TypeInvariant
  <2>3. Busy'
    BY DEF Busy, TypeInvariant
  <2> QED BY <2>1, <2>2, <2>3 DEF NotedAtRest, RefreshPromised
<1>2. ASSUME NEW x \in Storages, Do(x) PROVE IndexInv'
  <2> USE <1>2 DEF Do, lockVars
  <2>1. TypeInvariant' /\ NotedBelow' /\ WrittenIsNoted' /\ LockKept' /\ StaleIsKnown'
    BY DEF TypeInvariant, NotedBelow, WrittenIsNoted, LockKept, StaleIsKnown
  <2>2. ~ NotedNow'
    BY DEF NotedAtRest, NotedNow, Busy
  <2>3. Busy'
    BY DEF Busy, TypeInvariant
  <2> QED BY <2>1, <2>2, <2>3 DEF NotedAtRest, RefreshPromised
<1>3. ASSUME Pass PROVE IndexInv'
  <2>1. Busy
    BY <1>3 DEF Pass, Busy
  <2>2. /\ NotedBelow' /\ NotedAtRest' /\ RefreshPromised' /\ LockKept'
        /\ noted' \in Nat /\ waiting' \in Seq(Nat) /\ holder' \in {"free", "sleeping", "refreshing"}
    BY <1>3, <2>1, EntryOverKeeps DEF Pass
  <2>3. TypeInvariant' /\ WrittenIsNoted' /\ StaleIsKnown'
    BY <1>3, <2>2 DEF Pass, TypeInvariant, WrittenIsNoted, StaleIsKnown
  <2> QED BY <2>2, <2>3
<1>4. ASSUME NEW x \in Storages, Done(x) PROVE IndexInv'
  <2>1. Busy
    BY <1>4 DEF Done, Busy
  <2>2. /\ NotedBelow' /\ NotedAtRest' /\ RefreshPromised' /\ LockKept'
        /\ noted' \in Nat /\ waiting' \in Seq(Nat) /\ holder' \in {"free", "sleeping", "refreshing"}
    BY <1>4, <2>1, EntryOverKeeps DEF Done
  <2>3. TypeInvariant' /\ WrittenIsNoted' /\ StaleIsKnown'
    BY <1>4, <2>2 DEF Done, TypeInvariant, WrittenIsNoted, StaleIsKnown
  <2> QED BY <2>2, <2>3
<1>5. ASSUME Wake PROVE IndexInv'
  <2>0. Busy' <=> Busy
    BY <1>5 DEF Wake, Busy, queueVars
  <2>1. CASE /\ NothingCame
             /\ holder' = "refreshing" /\ refreshFor' = refreshIndexRef /\ refreshIndexRef' = {}
             /\ UNCHANGED <<noted, waiting>>
    <3>1. NotedNow /\ refreshFor = {}
      BY <1>5, <2>1 DEF Wake, NothingCame, NotedNow, LockKept
    <3>2. ~ Busy
      BY <3>1 DEF NotedAtRest
    <3>3. TypeInvariant' /\ NotedBelow' /\ LockKept' /\ StaleIsKnown' /\ WrittenIsNoted'
      BY <1>5, <2>1, <3>1, <3>2
      DEF Wake, queueVars, TypeInvariant, NotedBelow, LockKept, StaleIsKnown, WrittenIsNoted, Busy
    <3> QED BY <2>0, <2>1, <3>2, <3>3 DEF NotedAtRest, RefreshPromised
  <2>2. CASE ~ NothingCame /\ Leave /\ UNCHANGED <<refreshFor, refreshIndexRef>>
    <3>1. /\ NotedBelow' /\ (NotedNow' <=> NotedNow)
          /\ (holder' = "free" => waiting' = <<>>) /\ holder' # "refreshing"
          /\ noted' \in Nat /\ waiting' \in Seq(Nat) /\ holder' \in {"free", "sleeping", "refreshing"}
      BY <1>5, <2>2, ReleaseKeeps DEF Wake, Leave, NothingCame, queueVars
    <3>2. refreshFor = {}
      BY <1>5 DEF Wake, LockKept
    <3>3. TypeInvariant' /\ LockKept' /\ StaleIsKnown' /\ WrittenIsNoted'
      BY <1>5, <2>2, <3>1, <3>2
      DEF Wake, queueVars, TypeInvariant, LockKept, StaleIsKnown, WrittenIsNoted
    <3> QED BY <2>0, <2>2, <3>1, <3>3 DEF NotedAtRest, RefreshPromised
  <2> QED BY <1>5, <2>1, <2>2 DEF Wake
<1>6. ASSUME NEW x \in Storages, Refresh(x) PROVE IndexInv'
  <2> USE <1>6 DEF Refresh, queueVars, lockVars
  <2>1. TypeInvariant' /\ NotedBelow' /\ WrittenIsNoted' /\ LockKept' /\ StaleIsKnown'
    BY DEF TypeInvariant, NotedBelow, WrittenIsNoted, LockKept, StaleIsKnown
  <2>2. NotedAtRest' /\ RefreshPromised'
    BY DEF NotedAtRest, RefreshPromised, NotedNow, Busy
  <2> QED BY <2>1, <2>2
<1>7. ASSUME RefreshFails PROVE IndexInv'
  <2> USE <1>7 DEF RefreshFails, queueVars, lockVars
  <2>1. TypeInvariant' /\ NotedBelow' /\ WrittenIsNoted' /\ LockKept' /\ StaleIsKnown'
    BY DEF TypeInvariant, NotedBelow, WrittenIsNoted, LockKept, StaleIsKnown
  <2>2. NotedAtRest' /\ RefreshPromised'
    BY DEF NotedAtRest, RefreshPromised, NotedNow, Busy
  <2> QED BY <2>1, <2>2
<1>8. ASSUME Refreshed PROVE IndexInv'
  <2>1. /\ NotedBelow' /\ (NotedNow' <=> NotedNow)
        /\ (holder' = "free" => waiting' = <<>>) /\ holder' # "refreshing"
        /\ noted' \in Nat /\ waiting' \in Seq(Nat) /\ holder' \in {"free", "sleeping", "refreshing"}
    BY <1>8, ReleaseKeeps DEF Refreshed, queueVars
  <2>2. TypeInvariant' /\ LockKept' /\ StaleIsKnown' /\ WrittenIsNoted'
    BY <1>8, <2>1 DEF Refreshed, queueVars, TypeInvariant, LockKept, StaleIsKnown, WrittenIsNoted
  <2>3. Busy' <=> Busy
    BY <1>8 DEF Refreshed, Busy, queueVars
  <2> QED BY <1>8, <2>1, <2>2, <2>3 DEF Refreshed, NotedAtRest, RefreshPromised
<1>9. CASE UNCHANGED vars
  BY <1>9 DEF vars, queueVars, lockVars, TypeInvariant, NotedBelow, NotedAtRest, RefreshPromised,
              WrittenIsNoted, LockKept, StaleIsKnown, NotedNow, Busy
<1> QED
  BY <1>1, <1>2, <1>3, <1>4, <1>5, <1>6, <1>7, <1>8, <1>9 DEF Next, Working, Refreshing

\* The inductive invariant of the index queue: typing, who noted the present number of
\* entries did so in an empty queue, and whatever is to be refreshed has somebody to do it.
THEOREM IndexInvariant == Spec => []IndexInv
<1>1. Init => IndexInv
  BY InitInv
<1>2. IndexInv /\ [Next]_vars => IndexInv'
  BY NextInv
<1> QED BY <1>1, <1>2, PTL DEF Spec

\* onEmpty() and refresh(): when the queue is empty and LOCK is free, everything that has been
\* written has been refreshed, or its refresh has failed.
THEOREM NothingIsForgotten == Spec => []NothingForgotten
<1>1. IndexInv => NothingForgotten
  <2> SUFFICES ASSUME IndexInv, Quiet PROVE stale \subseteq failed
    BY DEF NothingForgotten
  <2> USE DEF IndexInv
  <2>1. ~ NotedNow
    BY DEF Quiet, NotedNow, LockKept
  <2>2. refreshIndexRef = {} /\ refreshFor = {}
    BY <2>1 DEF Quiet, RefreshPromised, LockKept
  <2> QED BY <2>2 DEF StaleIsKnown
<1> QED BY <1>1, IndexInvariant, PTL

-----------------------------------------------------------------------------
\* The refinement of Visibility

\* The queue is quiet only when no refresh is owed: something noted has somebody who has
\* noted the present inc, and then LOCK is not free.
LEMMA QuietOwesNothing ==
  ASSUME IndexInv, Quiet
  PROVE  refreshIndexRef = {} /\ refreshFor = {} /\ \A x \in Storages : active[x] = 0
<1>1. ~ Busy /\ holder = "free" /\ waiting = <<>> /\ refreshFor = {}
  BY DEF Quiet, IndexInv, LockKept
<1>2. ~ NotedNow
  BY <1>1 DEF NotedNow
<1>3. ASSUME NEW x \in Storages PROVE active[x] = 0
  <2> DEFINE n == active[x]
  <2>1. n \in Nat
    BY DEF IndexInv, TypeInvariant
  <2>2. ~ (n > 0)
    BY <1>1 DEF Busy
  <2> HIDE DEF n
  <2>3. n = 0
    BY <2>1, <2>2
  <2> QED
    BY <2>3 DEF n
<1> QED
  BY <1>1, <1>2, <1>3 DEF IndexInv, RefreshPromised

\* The queue keeps what Visibility promises of the refreshes it owes.
THEOREM Implementation == Spec => ImplementsVisibility
<1>1. ASSUME Init PROVE Visible!Init
  BY <1>1 DEF Init, Visible!Init, Quiet, Busy
<1>2. ASSUME IndexInv, IndexInv', [Next]_vars PROVE [Visible!Next]_Visible!vars
  <2>1. Quiet' => Visible!Idle' /\ (refreshIndexRef \cup refreshFor)' = {}
    <3>1. ASSUME Quiet'
          PROVE  (refreshIndexRef = {} /\ refreshFor = {} /\ \A x \in Storages : active[x] = 0)'
      BY <1>2, <3>1, QuietOwesNothing, PTL
    <3> QED
      BY <3>1 DEF Visible!Idle
  <2>2. SUFFICES Visible!Change \/ UNCHANGED Visible!vars
    BY <2>1 DEF Visible!Next
  <2>3. ASSUME UNCHANGED <<active, stale, refreshIndexRef, refreshFor, failed>>
        PROVE  Visible!Change \/ UNCHANGED Visible!vars
    BY <2>3 DEF Visible!Change, Visible!Turn, Visible!vars
  <2>4. CASE UNCHANGED vars
    BY <2>3, <2>4 DEF vars, queueVars
  <2>5. ASSUME NEW x \in Storages, Push(x) PROVE Visible!Change \/ UNCHANGED Visible!vars
    BY <2>3, <2>5 DEF Push
  <2>6. ASSUME NEW x \in Storages, Do(x) PROVE Visible!Change \/ UNCHANGED Visible!vars
    <3>1. Visible!Begin(x)
      BY <2>6 DEF Do, Visible!Begin
    <3> QED
      BY <3>1 DEF Visible!Change
  <2>7. CASE Pass
    BY <2>3, <2>7 DEF Pass
  <2>8. ASSUME NEW x \in Storages, Done(x) PROVE Visible!Change \/ UNCHANGED Visible!vars
    <3>1. Visible!End(x)
      BY <2>8 DEF Done, Visible!End
    <3> QED
      BY <3>1 DEF Visible!Change
  <2>9. CASE Wake
    <3>1. refreshFor = {}
      BY <1>2, <2>9 DEF Wake, IndexInv, LockKept
    <3>2. (refreshIndexRef \cup refreshFor)' = refreshIndexRef \cup refreshFor
      BY <2>9, <3>1 DEF Wake
    <3>3. UNCHANGED <<active, stale, failed>>
      BY <2>9 DEF Wake, queueVars
    <3> QED
      BY <3>2, <3>3 DEF Visible!Change, Visible!Turn, Visible!vars
  <2>10. ASSUME NEW x \in Storages, Refresh(x) PROVE Visible!Change \/ UNCHANGED Visible!vars
    <3>1. Visible!Refresh(x)
      <4>1. x \notin refreshIndexRef => active[x] = 0
        BY <1>2 DEF IndexInv, WrittenIsNoted, TypeInvariant
      <4> QED
        BY <2>10, <4>1 DEF Refresh, queueVars, Visible!Refresh
    <3> QED
      BY <3>1 DEF Visible!Change
  <2>11. CASE RefreshFails
    <3> DEFINE some == refreshFor \ refreshIndexRef
    <3>1. CASE some = {}
      <4>1. UNCHANGED <<active, stale, failed>>
            /\ (refreshIndexRef \cup refreshFor)' = refreshIndexRef \cup refreshFor
        BY <2>11, <3>1 DEF RefreshFails, queueVars
      <4> QED
        BY <4>1 DEF Visible!Change, Visible!Turn, Visible!vars
    <3>2. CASE some # {}
      <4>1. \A x \in some : active[x] = 0
        BY <1>2 DEF IndexInv, WrittenIsNoted, TypeInvariant
      <4>2. Visible!Refuse(some) /\ some \in SUBSET (refreshIndexRef \cup refreshFor)
        BY <2>11, <3>2, <4>1 DEF RefreshFails, queueVars, Visible!Refuse
      <4> QED
        BY <4>2 DEF Visible!Change
    <3> QED
      BY <3>1, <3>2
  <2>12. CASE Refreshed
    BY <2>3, <2>12 DEF Refreshed, queueVars
  <2> QED
    BY <1>2, <2>4, <2>5, <2>6, <2>7, <2>8, <2>9, <2>10, <2>11, <2>12
       DEF Next, Working, Refreshing
<1> QED
  BY <1>1, <1>2, IndexInvariant, PTL DEF Spec, ImplementsVisibility, Visible!Spec
=============================================================================
