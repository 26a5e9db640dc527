-------------------------- MODULE TaskRunnerProofs --------------------------
(***************************************************************************)
(* Proofs about TaskRunner for every tree of runs, every number of slots   *)
(* and every choice of the bodies.                                         *)
(***************************************************************************)
EXTENDS TaskRunner, TaskBindings, FiniteSetTheorems, WellFoundedInduction, TLAPS

-----------------------------------------------------------------------------
\* Lemmas about the operators of the model

\* Calls pushed on the stack and popped from it leave a stack of frames.
LEMMA StackTyping ==
  ASSUME NEW S, NEW s \in Seq(S), NEW f \in S
  PROVE  /\ Append(s, f) \in Seq(S)
         /\ s # <<>> => SubSeq(s, 1, Len(s) - 1) \in Seq(S)
  <1>1. s # <<>> => Len(s) \in Nat /\ Len(s) - 1 \in 0 .. Len(s)
    OBVIOUS
  <1> QED
    BY <1>1

\* A plan, read as a sequence of entries.
LEMMA PlanEntries ==
  ASSUME NEW p, IsPlan(p)
  PROVE  /\ Len(p) \in Nat
         /\ \A i \in 1 .. Len(p) : /\ p[i].name \in Names
                                   /\ p[i].need \subseteq (i + 1) .. Len(p)
                                   /\ p[i].need \in SUBSET Nat
  <1>1. p \in Seq(Entry)
    BY DEF IsPlan
  <1>2. Len(p) \in Nat /\ \A i \in 1 .. Len(p) : p[i] \in Entry
    BY <1>1
  <1> QED
    BY <1>2 DEF IsPlan, Entry

-----------------------------------------------------------------------------
\* Type correctness

LEMMA InitTypeOK == Init => TypeOK
  <1> SUFFICES ASSUME Init PROVE TypeOK
    OBVIOUS
  <1>1. IsPlan(Initial)
    BY TaskRunnerAssumption
  <1>2. taskNrs \in Nat /\ Runs = 1 .. Len(Initial)
    BY <1>1, PlanEntries DEF Init, Runs
  <1>3. tasks \in [Runs -> TaskEntry]
    BY <1>1, <1>2, PlanEntries DEF Init, TaskEntry
  <1>4. stack \in Seq(Runs \cup {NEXT})
    BY DEF Init
  <1> QED
    BY <1>2, <1>3, <1>4 DEF Init, TypeOK

\* The steps that leave the set of runs as it is.
LEMMA FixedRunsTypeOK ==
  ASSUME TypeOK,
         \/ Run \/ NextCall
         \/ \E r \in Runs : \/ Resume(r) \/ BodyReturn(r) \/ Finish(r)
                            \/ \E how \in {"ok", "error"} :
                                 \E values \in SUBSET Provides[tasks[r].name] :
                                   BodyDoneAgain(r, how, values)
  PROVE  TypeOK'
  <1> USE DEF TypeOK
  <1>a. \A r \in Runs : Provides[tasks[r].name] \subseteq Params
    BY TaskRunnerAssumption DEF TaskEntry
  <1>b. NEXT \in Runs \cup {NEXT}
    OBVIOUS
  <1>c. \A f \in Runs \cup {NEXT} : Append(stack, f) \in Seq(Runs \cup {NEXT})
    BY StackTyping
  <1>d. stack # <<>> => SubSeq(stack, 1, Len(stack) - 1) \in Seq(Runs \cup {NEXT})
    BY StackTyping, <1>b
  <1>1. CASE Run
    BY <1>1, <1>c DEF Run, EmitNEXT, Push, Runs, lists, status
  <1>2. CASE NextAfterFinish
    BY <1>2, <1>d DEF NextAfterFinish, At, Pop, Runs, lists, status
  <1>3. CASE NextFinish
    BY <1>3, <1>d DEF NextFinish, At, Pop, Post, Runs, lists, status, InNext, NothingLeft
  <1>4. CASE NextNothing
    BY <1>4, <1>d DEF NextNothing, At, Pop, Runs, lists, status, InNext, NothingLeft
  <1>5. ASSUME NEW t \in Runs, StartTask(t) PROVE TypeOK'
    BY <1>5, <1>c DEF StartTask, Take, EmitNEXT, Push, Post, Runs, lists, status, InNext, InTodo
  <1>6. ASSUME NEW t \in Runs, RejectTask(t) PROVE TypeOK'
    BY <1>6 DEF RejectTask, Take, Post, Runs, lists, status, InNext, InTodo
  <1>7. ASSUME NEW t \in Runs, ThrowTask(t) PROVE TypeOK'
    BY <1>7, <1>d DEF ThrowTask, At, Pop, Runs, lists, status, InNext, NothingLeft, InTodo
  <1>8. ASSUME NEW r \in Runs, Resume(r) PROVE TypeOK'
    BY <1>8 DEF Resume, Runs, lists, status
  <1>9. ASSUME NEW r \in Runs, BodyReturn(r) PROVE TypeOK'
    BY <1>9, <1>d DEF BodyReturn, At, Pop, Runs, lists, status
  <1>10. ASSUME NEW r \in Runs, Finish(r) PROVE TypeOK'
    BY <1>10, <1>a, <1>c DEF Finish, BodyDone, Settle, EmitNEXT, Push, Post, Runs, lists, status, MoveToDone
  <1>11. ASSUME NEW r \in Runs, NEW how \in {"ok", "error"},
                NEW values \in SUBSET Provides[tasks[r].name],
                BodyDoneAgain(r, how, values)
         PROVE  TypeOK'
    BY <1>11, <1>a DEF BodyDoneAgain, Settle, Runs, lists, status
  <1> QED
    BY <1>1, <1>2, <1>3, <1>4, <1>5, <1>6, <1>7, <1>8, <1>9, <1>10, <1>11 DEF NextCall

\* What addTask does to the tree: the old runs keep their entries, the new
\* ones need later runs only, and each new run but the first is needed.
LEMMA AppendedRuns ==
  ASSUME TypeOK, TreeKept, NEW r \in Runs, NEW n \in Addable,
         NEW given \in SUBSET Requires[n], NEW await \in Awaits,
         BodyAdd(r, n, given, await)
  PROVE  /\ taskNrs' \in Nat /\ taskNrs < taskNrs'
         /\ Runs \subseteq Runs'
         /\ tasks' \in [Runs' -> TaskEntry]
         /\ \A i \in Runs : tasks'[i] = tasks[i]
         /\ \A i \in Runs' \ Runs : tasks'[i].need \subseteq (i + 1) .. taskNrs'
         /\ \A i \in Runs' \ Runs :
              i # taskNrs + 1 => \E j \in 1 .. (i - 1) : i \in tasks'[j].need
  <1> DEFINE len == Len(Plan[n])
             plan == Plan[n]
             entry(i) == [name |-> plan[i - taskNrs].name,
                          need |-> {taskNrs + k : k \in plan[i - taskNrs].need},
                          given |-> IF i = taskNrs + 1 THEN given ELSE {}]
  <1>1. /\ IsPlan(Plan[n]) /\ Len(Plan[n]) > 0 /\ n \in Names
        /\ \A i \in 2 .. len : \E j \in 1 .. (i - 1) : i \in plan[j].need
    BY TaskRunnerAssumption
  <1>2. /\ len \in Nat
        /\ \A i \in 1 .. len : /\ plan[i].name \in Names
                               /\ plan[i].need \subseteq (i + 1) .. len
                               /\ plan[i].need \in SUBSET Nat
    BY <1>1, PlanEntries
  <1>3. taskNrs \in Nat /\ taskNrs' = taskNrs + len /\ taskNrs' \in Nat /\ taskNrs < taskNrs'
    BY <1>1, <1>2 DEF TypeOK, BodyAdd, EmitNEXT
  <1>4. Runs \subseteq Runs'
    BY <1>3 DEF Runs
  <1>5. tasks' = [i \in 1 .. taskNrs' |-> IF i < taskNrs + 1 THEN tasks[i] ELSE entry(i)]
    BY <1>3 DEF BodyAdd, EmitNEXT
  <1>6. \A i \in Runs : tasks'[i] = tasks[i]
    BY <1>3, <1>4, <1>5 DEF Runs
  <1>7. \A i \in Runs' \ Runs : i \in Nat /\ i - taskNrs \in 1 .. len
    BY <1>3 DEF Runs
  <1>8. \A i \in Runs' \ Runs : tasks'[i] = entry(i)
    BY <1>3, <1>5 DEF Runs
  <1>9. ASSUME NEW i \in Runs' \ Runs
        PROVE  /\ tasks'[i] \in TaskEntry
               /\ tasks'[i].need = {taskNrs + k : k \in plan[i - taskNrs].need}
    <2>1. plan[i - taskNrs].name \in Names /\ plan[i - taskNrs].need \in SUBSET Nat
      BY <1>2, <1>7
    <2>2. given \in SUBSET Params
      BY <1>1, TaskRunnerAssumption
    <2>3. \A k \in Nat : taskNrs + k \in Nat
      BY <1>3
    <2> DEFINE name == plan[i - taskNrs].name
               need == plan[i - taskNrs].need
               own == IF i = taskNrs + 1 THEN given ELSE {}
    <2>4. tasks'[i] = [name |-> name, need |-> {taskNrs + k : k \in need}, given |-> own]
      BY <1>8
    <2>5. own \in SUBSET Params
      BY <2>2
    <2> HIDE DEF name, need, own
    <2>6. {taskNrs + k : k \in need} \in SUBSET Nat
      <3>1. need \in SUBSET Nat
        BY <2>1 DEF need
      <3> QED
        BY <3>1, <2>3
    <2>7. name \in Names
      BY <2>1 DEF name
    <2>8. tasks'[i].need = {taskNrs + k : k \in need}
      BY <2>4
    <2>9. tasks'[i] \in TaskEntry
      BY <2>4, <2>5, <2>6, <2>7 DEF TaskEntry
    <2> QED
      BY <2>8, <2>9 DEF need
  <1>10. tasks' \in [Runs' -> TaskEntry]
    <2>1. \A i \in Runs' : tasks'[i] \in TaskEntry
      BY <1>6, <1>9 DEF TypeOK
    <2>2. tasks' = [i \in Runs' |-> tasks'[i]]
      BY <1>5 DEF Runs
    <2> QED
      BY <2>1, <2>2
  <1>11. \A i \in Runs' \ Runs : tasks'[i].need = {taskNrs + k : k \in plan[i - taskNrs].need}
    BY <1>9
  <1>12. ASSUME NEW i \in Runs' \ Runs
         PROVE  tasks'[i].need \subseteq (i + 1) .. taskNrs'
    <2> DEFINE need == plan[i - taskNrs].need
    <2>1. need \subseteq (i - taskNrs + 1) .. len
      BY <1>2, <1>7
    <2>2. i \in Nat /\ taskNrs \in Nat /\ len \in Nat /\ taskNrs' = taskNrs + len
      BY <1>2, <1>3 DEF Runs
    <2>3. tasks'[i].need = {taskNrs + k : k \in need}
      BY <1>11
    <2> HIDE DEF need, len
    <2>4. \A k \in (i - taskNrs + 1) .. len : taskNrs + k \in (i + 1) .. taskNrs'
      BY <2>2
    <2>5. {taskNrs + k : k \in need} \subseteq (i + 1) .. taskNrs'
      BY <2>1, <2>4
    <2> QED
      BY <2>3, <2>5
  <1>13. ASSUME NEW i \in Runs' \ Runs, i # taskNrs + 1
         PROVE  \E j \in 1 .. (i - 1) : i \in tasks'[j].need
    <2>1. i \in Nat /\ i - taskNrs \in 2 .. len
      BY <1>3, <1>7, <1>13 DEF Runs
    <2>2. PICK k \in 1 .. (i - taskNrs - 1) : i - taskNrs \in plan[k].need
      BY <1>1, <2>1
    <2>3. /\ taskNrs + k \in 1 .. (i - 1)
          /\ taskNrs + k \in Runs' \ Runs
          /\ (taskNrs + k) - taskNrs = k
      BY <2>1, <2>2, <1>2, <1>3 DEF Runs
    <2>4. i \in tasks'[taskNrs + k].need
      <3>1. tasks'[taskNrs + k].need = {taskNrs + m : m \in plan[k].need}
        BY <1>11, <2>3
      <3>2. i = taskNrs + (i - taskNrs)
        BY <2>1, <1>3
      <3> QED
        BY <3>1, <3>2, <2>2
    <2> QED
      BY <2>3, <2>4
  <1> QED
    BY <1>3, <1>4, <1>6, <1>10, <1>12, <1>13

LEMMA BodyAddTypeOK ==
  ASSUME TypeOK, TreeKept, NEW r \in Runs, NEW n \in Addable,
         NEW given \in SUBSET Requires[n], NEW await \in Awaits,
         BodyAdd(r, n, given, await)
  PROVE  TypeOK'
  <1>1. /\ taskNrs' \in Nat /\ taskNrs < taskNrs' /\ taskNrs \in Nat
        /\ Runs \subseteq Runs'
        /\ tasks' \in [Runs' -> TaskEntry]
        /\ taskNrs' = taskNrs + Len(Plan[n])
    <2>1. /\ taskNrs' \in Nat /\ taskNrs < taskNrs'
          /\ Runs \subseteq Runs'
          /\ tasks' \in [Runs' -> TaskEntry]
      BY AppendedRuns
    <2>2. taskNrs \in Nat
      BY DEF TypeOK
    <2>3. taskNrs' = taskNrs + Len(Plan[n])
      BY DEF BodyAdd
    <2> QED
      BY <2>1, <2>2, <2>3
  <1>2. taskNrs + 1 \in Runs'
    BY <1>1 DEF Runs
  <1>3. stack' \in Seq(Runs' \cup {NEXT})
    <2>1. stack \in Seq(Runs' \cup {NEXT})
      BY <1>1 DEF TypeOK
    <2> QED
      BY <2>1, StackTyping DEF BodyAdd, EmitNEXT, Push
  <1>4. outcome' \in [Runs' -> {"none", "ok", "error"}]
    BY <1>1 DEF BodyAdd, TypeOK, Runs, EmitNEXT
  <1>5. awaits' \in [Runs' -> SUBSET Runs']
    <2>1. awaits' = [i \in 1 .. taskNrs' |->
                      IF i = r /\ await THEN awaits[r] \cup {taskNrs + 1}
                      ELSE IF i < taskNrs + 1 THEN awaits[i] ELSE {}]
      BY <1>1 DEF BodyAdd, EmitNEXT
    <2>2. ASSUME NEW i \in Runs' PROVE awaits'[i] \in SUBSET Runs'
      <3>1. CASE i \in Runs
        BY <3>1, <2>1, <1>1, <1>2 DEF TypeOK, Runs
      <3>2. CASE i \notin Runs
        BY <3>2, <2>1, <1>1 DEF Runs
      <3> QED
        BY <3>1, <3>2
    <2> QED
      BY <2>1, <2>2 DEF Runs
  <1>6. event' \in [state : {"started", "running", "stopped"},
                    running : SUBSET Runs', finished : SUBSET Runs']
    BY <1>1 DEF BodyAdd, TypeOK, EmitNEXT
  <1> QED
    BY <1>1, <1>2, <1>3, <1>4, <1>5, <1>6 DEF BodyAdd, TypeOK, EmitNEXT

-----------------------------------------------------------------------------
\* The inductive invariant: one lemma per kind of step

\* The body that has the control belongs to a run that is started or done.
LEMMA TopFrame ==
  ASSUME TypeOK, FramesKnown, NEW r \in Runs, At(r)
  PROVE  r \in statusRunning \cup doneNrs
  <1>1. Len(stack) \in 1 .. Len(stack)
    BY DEF FramesKnown, At
  <1>2. stack[Len(stack)] \in statusRunning \cup doneNrs \cup {NEXT}
    BY <1>1 DEF FramesKnown
  <1> QED
    BY <1>2 DEF At, NEXT, Runs, TypeOK

\* The slots in use can be counted.
LEMMA SlotsFinite == TypeOK => IsFiniteSet(runningNrs) /\ Cardinality(runningNrs) \in Nat
  <1> SUFFICES ASSUME TypeOK PROVE IsFiniteSet(runningNrs) /\ Cardinality(runningNrs) \in Nat
    OBVIOUS
  <1>1. IsFiniteSet(1 .. taskNrs)
    BY FS_Interval DEF TypeOK
  <1>2. IsFiniteSet(runningNrs)
    BY <1>1, FS_Subset DEF TypeOK, Runs
  <1> QED
    BY <1>2, FS_CardinalityType

\* A run that takes a free slot, or gives its slot back, leaves the bound.
LEMMA SlotsBounded ==
  ASSUME TypeOK, NEW t
  PROVE  /\ ~ Full => Cardinality(runningNrs \cup {t}) <= Parallel
         /\ BoundedParallel => Cardinality(runningNrs \ {t}) <= Parallel
  <1>1. IsFiniteSet(runningNrs) /\ Cardinality(runningNrs) \in Nat /\ Parallel \in Nat
    BY SlotsFinite, TaskRunnerAssumption
  <1>2. ~ Full => Cardinality(runningNrs) + 1 <= Parallel
    BY <1>1 DEF Full
  <1>3. ~ Full => Cardinality(runningNrs \cup {t}) <= Parallel
    BY <1>1, <1>2, FS_AddElement
  <1>4. BoundedParallel => Cardinality(runningNrs \ {t}) <= Parallel
    BY <1>1, FS_RemoveElement DEF BoundedParallel
  <1> QED
    BY <1>3, <1>4

\* Steps that move no run between the lists.
LEMMA QuietStep ==
  ASSUME RunnerInv,
         \/ Run \/ NextAfterFinish \/ NextFinish \/ NextNothing
         \/ \E r \in Runs : \/ Resume(r) \/ BodyReturn(r)
                            \/ \E how \in {"ok", "error"} :
                                 \E values \in SUBSET Provides[tasks[r].name] :
                                   BodyDoneAgain(r, how, values)
         \/ UNCHANGED vars
  PROVE  ListsAgree' /\ TreeKept' /\ FramesKnown' /\ PhasesKept' /\ NeedsDoneFirst'
           /\ BoundedParallel'
  <1> USE DEF RunnerInv
  <1>1. UNCHANGED <<taskNrs, tasks, todoNrs, runningNrs, doneNrs, statusRunning, statusDone>>
    BY DEF Run, NextAfterFinish, NextFinish, NextNothing, Resume, BodyReturn,
           BodyDoneAgain, vars, lists, status, InNext, NothingLeft, EmitNEXT
  <1>2. ListsAgree' /\ TreeKept' /\ NeedsDoneFirst' /\ BoundedParallel'
    BY <1>1 DEF ListsAgree, TreeKept, NeedsDoneFirst, BoundedParallel, Runs
  <1>3. FramesKnown'
    <2> DEFINE S == statusRunning \cup doneNrs \cup {NEXT}
    <2>1. stack \in Seq(S) /\ NEXT \in S /\ S' = S
      BY <1>1 DEF FramesKnown
    <2>2. \/ stack' = stack
          \/ stack' = Append(stack, NEXT)
          \/ stack # <<>> /\ stack' = SubSeq(stack, 1, Len(stack) - 1)
          \/ \E r \in statusRunning : stack' = <<r>>
      BY DEF Run, NextAfterFinish, NextFinish, NextNothing, Resume, BodyReturn,
             BodyDoneAgain, vars, EmitNEXT, Push, Pop, At, InNext, NothingLeft
    <2>3. \A r \in statusRunning : <<r>> \in Seq(S)
      OBVIOUS
    <2>4. stack' \in Seq(S)
      <3> HIDE DEF S
      <3> QED
        BY <2>1, <2>2, <2>3, StackTyping
    <2> QED
      BY <2>1, <2>4 DEF FramesKnown
  <1>4. PhasesKept'
    BY <1>1 DEF PhasesKept, TypeOK, Run, NextAfterFinish, NextFinish, NextNothing, Resume,
                BodyReturn, BodyDoneAgain, vars, Pop, At, InNext, NothingLeft, EmitNEXT
  <1> QED
    BY <1>2, <1>3, <1>4

\* A ready run takes a slot: it is started, rejected, or thrown out.
LEMMA StartStep ==
  ASSUME RunnerInv, NEW t \in Runs, StartTask(t) \/ RejectTask(t) \/ ThrowTask(t)
  PROVE  ListsAgree' /\ TreeKept' /\ FramesKnown' /\ PhasesKept' /\ NeedsDoneFirst'
           /\ BoundedParallel'
  <1> USE DEF RunnerInv
  <1>1. /\ UNCHANGED <<taskNrs, tasks, doneNrs>>
        /\ At(NEXT) /\ state # "stopped" /\ state' = "running"
        /\ t \notin statusDone /\ t \notin statusRunning /\ tasks[t].need \subseteq doneNrs
        /\ ~ Full
        /\ todoNrs' = todoNrs \ {t}
        /\ runningNrs' = runningNrs \cup {t}
        /\ statusRunning' \in {statusRunning, statusRunning \cup {t}}
        /\ statusDone' \in {statusDone, statusDone \cup {t}}
        /\ statusRunning' = statusRunning \/ statusDone' = statusDone
    BY DEF StartTask, RejectTask, ThrowTask, Take, Selected, Ready, status, InNext, InTodo, NothingLeft
  <1>2. ListsAgree'
    BY <1>1 DEF ListsAgree
  <1>3. TreeKept'
    BY <1>1 DEF TreeKept, Runs
  <1>4. NeedsDoneFirst'
    BY <1>1 DEF NeedsDoneFirst
  <1>5. BoundedParallel'
    BY <1>1, SlotsBounded DEF BoundedParallel
  <1>6. FramesKnown'
    <2> DEFINE S == statusRunning \cup doneNrs \cup {NEXT}
    <2>1. stack \in Seq(S) /\ NEXT \in S /\ S \subseteq S'
      BY <1>1 DEF FramesKnown
    <2>2. stack \in Seq(S') /\ NEXT \in S'
      BY <2>1
    <2>3. \/ t \in S' /\ stack' = Append(stack, t)
          \/ stack' = stack
          \/ stack # <<>> /\ stack' = SubSeq(stack, 1, Len(stack) - 1)
      BY DEF StartTask, RejectTask, ThrowTask, EmitNEXT, Push, Pop, At, InNext, NothingLeft, InTodo
    <2>4. stack' \in Seq(S')
      <3> HIDE DEF S
      <3> QED
        BY <2>2, <2>3, StackTyping
    <2> QED
      BY <2>4 DEF FramesKnown
  <1>7. PhasesKept'
    <2>1. promise # "none" /\ promise # "resolved"
      BY <1>1 DEF PhasesKept, At
    <2>2. promise' \in {promise, "rejected"}
      BY DEF StartTask, RejectTask, ThrowTask, InNext, NothingLeft, InTodo
    <2> QED
      BY <1>1, <2>1, <2>2 DEF PhasesKept
  <1> QED
    BY <1>2, <1>3, <1>4, <1>5, <1>6, <1>7

\* A body calls done.
LEMMA DoneStep ==
  ASSUME RunnerInv, NEW r \in Runs, Finish(r)
  PROVE  ListsAgree' /\ TreeKept' /\ FramesKnown' /\ PhasesKept' /\ NeedsDoneFirst'
           /\ BoundedParallel'
  <1> USE DEF RunnerInv
  <1>1. /\ UNCHANGED <<taskNrs, tasks, todoNrs, state, promise>>
        /\ At(r) /\ r \notin doneNrs
        /\ statusDone' = statusDone \cup {r}
        /\ statusRunning' = statusRunning \ {r}
        /\ doneNrs' = doneNrs \cup {r}
        /\ runningNrs' = runningNrs \ {r}
        /\ stack' = Append(stack, NEXT)
    BY DEF Finish, BodyDone, EmitNEXT, Push, MoveToDone
  <1>2. r \in statusRunning /\ r \in runningNrs
    BY <1>1, TopFrame DEF ListsAgree
  <1>3. ListsAgree'
    BY <1>1, <1>2 DEF ListsAgree
  <1>4. TreeKept'
    BY <1>1 DEF TreeKept, Runs
  <1>5. NeedsDoneFirst'
    BY <1>1, <1>2 DEF NeedsDoneFirst
  <1>6. BoundedParallel'
    BY <1>1, SlotsBounded DEF BoundedParallel
  <1>7. FramesKnown'
    <2> DEFINE S == statusRunning \cup doneNrs \cup {NEXT}
    <2>1. stack \in Seq(S) /\ NEXT \in S /\ S = S'
      BY <1>1, <1>2 DEF FramesKnown
    <2>2. stack' \in Seq(S)
      <3> HIDE DEF S
      <3> QED
        BY <1>1, <2>1, StackTyping
    <2> QED
      BY <2>1, <2>2 DEF FramesKnown
  <1>8. PhasesKept'
    BY <1>1, <1>2 DEF PhasesKept
  <1> QED
    BY <1>3, <1>4, <1>5, <1>6, <1>7, <1>8

\* A body appends a task.
LEMMA AddStep ==
  ASSUME RunnerInv, NEW r \in Runs, NEW n \in Addable,
         NEW given \in SUBSET Requires[n], NEW await \in Awaits,
         BodyAdd(r, n, given, await)
  PROVE  ListsAgree' /\ TreeKept' /\ FramesKnown' /\ PhasesKept' /\ NeedsDoneFirst'
           /\ BoundedParallel'
  <1> USE DEF RunnerInv
  <1>1. /\ UNCHANGED <<runningNrs, doneNrs, statusRunning, statusDone, state, promise>>
        /\ At(r)
        /\ todoNrs' = todoNrs \cup {taskNrs + 1}
        /\ stack' = Append(stack, NEXT)
    BY DEF BodyAdd, EmitNEXT, Push
  <1>2. /\ taskNrs \in Nat /\ taskNrs' \in Nat /\ taskNrs < taskNrs'
        /\ Runs \subseteq Runs'
        /\ \A i \in Runs : tasks'[i] = tasks[i]
        /\ \A i \in Runs' \ Runs : tasks'[i].need \subseteq (i + 1) .. taskNrs'
        /\ \A i \in Runs' \ Runs :
             i # taskNrs + 1 => \E j \in 1 .. (i - 1) : i \in tasks'[j].need
    BY AppendedRuns DEF TypeOK
  <1>3. taskNrs + 1 \notin Runs /\ todoNrs \subseteq Runs /\ runningNrs \subseteq Runs
          /\ doneNrs \subseteq Runs /\ statusRunning \subseteq Runs
    BY <1>2 DEF Runs, TypeOK
  <1>4. ListsAgree'
    BY <1>1, <1>3 DEF ListsAgree
  <1>5. TreeKept'
    <2>1. ASSUME NEW i \in Runs' PROVE tasks'[i].need \subseteq (i + 1) .. taskNrs'
      <3>1. CASE i \in Runs
        <4>1. tasks'[i].need \subseteq (i + 1) .. taskNrs
          BY <3>1, <1>2 DEF TreeKept
        <4> QED
          BY <4>1, <1>2, <3>1 DEF Runs
      <3>2. CASE i \notin Runs
        BY <3>2, <1>2
      <3> QED
        BY <3>1, <3>2
    <2>2. ASSUME NEW i \in Runs' \ (todoNrs' \cup runningNrs' \cup doneNrs')
          PROVE  \E j \in 1 .. (i - 1) : i \in tasks'[j].need
      <3>1. CASE i \in Runs
        <4>1. PICK j \in 1 .. (i - 1) : i \in tasks[j].need
          BY <3>1, <1>1 DEF TreeKept
        <4>2. j \in Runs
          BY <3>1, <1>2 DEF Runs
        <4> QED
          BY <4>1, <4>2, <1>2
      <3>2. CASE i \notin Runs
        BY <3>2, <1>1, <1>2
      <3> QED
        BY <3>1, <3>2
    <2> QED
      BY <2>1, <2>2 DEF TreeKept
  <1>6. NeedsDoneFirst'
    BY <1>1, <1>2, <1>3 DEF NeedsDoneFirst
  <1>7. BoundedParallel'
    BY <1>1 DEF BoundedParallel
  <1>8. FramesKnown'
    <2> DEFINE S == statusRunning \cup doneNrs \cup {NEXT}
    <2>1. stack \in Seq(S) /\ NEXT \in S /\ S = S'
      BY <1>1 DEF FramesKnown
    <2>2. stack' \in Seq(S)
      <3> HIDE DEF S
      <3> QED
        BY <1>1, <2>1, StackTyping
    <2> QED
      BY <2>1, <2>2 DEF FramesKnown
  <1>9. PhasesKept'
    BY <1>1 DEF PhasesKept, At
  <1> QED
    BY <1>4, <1>5, <1>6, <1>7, <1>8, <1>9

LEMMA InitInv == Init => RunnerInv
  <1> SUFFICES ASSUME Init PROVE RunnerInv
    OBVIOUS
  <1>1. TypeOK
    BY InitTypeOK
  <1>2. /\ Runs = 1 .. Len(Initial) /\ taskNrs = Len(Initial)
        /\ \A i \in Runs : tasks[i].need = Initial[i].need
    BY DEF Init, Runs
  <1>3. \A i \in Runs : tasks[i].need \subseteq (i + 1) .. taskNrs
    BY <1>2, TaskRunnerAssumption DEF IsPlan
  <1>4. ListsAgree /\ TreeKept /\ FramesKnown /\ PhasesKept /\ NeedsDoneFirst
    BY <1>2, <1>3 DEF Init, ListsAgree, TreeKept, FramesKnown, PhasesKept, NeedsDoneFirst
  <1>5. BoundedParallel
    BY TaskRunnerAssumption, FS_EmptySet DEF Init, BoundedParallel
  <1> QED
    BY <1>1, <1>4, <1>5 DEF RunnerInv

LEMMA StepInv == RunnerInv /\ [Next]_vars => RunnerInv'
  <1> SUFFICES ASSUME RunnerInv, [Next]_vars PROVE RunnerInv'
    OBVIOUS
  <1> USE DEF RunnerInv
  <1>1. CASE UNCHANGED vars
    <2>1. TypeOK'
      BY <1>1 DEF TypeOK, Runs, vars, lists, status
    <2> QED
      BY <1>1, <2>1, QuietStep
  <1>2. CASE Run \/ NextAfterFinish \/ NextFinish \/ NextNothing
    <2>1. TypeOK'
      BY <1>2, FixedRunsTypeOK DEF NextCall
    <2> QED
      BY <1>2, <2>1, QuietStep
  <1>3. ASSUME NEW t \in Runs, StartTask(t) \/ RejectTask(t) \/ ThrowTask(t)
        PROVE  RunnerInv'
    <2>1. TypeOK'
      BY <1>3, FixedRunsTypeOK DEF NextCall
    <2> QED
      BY <1>3, <2>1, StartStep
  <1>4. ASSUME NEW r \in Runs, Body(r) PROVE RunnerInv'
    <2>1. CASE \/ Resume(r) \/ BodyReturn(r)
               \/ \E how \in {"ok", "error"} :
                    \E values \in SUBSET Provides[tasks[r].name] :
                      BodyDoneAgain(r, how, values)
      <3>1. TypeOK'
        BY <2>1, FixedRunsTypeOK
      <3> QED
        BY <2>1, <3>1, QuietStep
    <2>2. CASE Finish(r)
      <3>1. TypeOK'
        BY <2>2, FixedRunsTypeOK
      <3> QED
        BY <2>2, <3>1, DoneStep
    <2>3. ASSUME NEW n \in Addable, NEW given \in SUBSET Requires[n], NEW await \in Awaits,
                 BodyAdd(r, n, given, await)
          PROVE  RunnerInv'
      <3>1. TypeOK'
        BY <2>3, BodyAddTypeOK
      <3> QED
        BY <2>3, <3>1, AddStep
    <2> QED
      BY <1>4, <2>1, <2>2, <2>3 DEF Body
  <1> QED
    BY <1>1, <1>2, <1>3, <1>4 DEF Next, NextCall

\* Whatever is appended, fails or throws, the lists, the tree and the stack
\* of the runner stay consistent (TypeOK and the strengthening).
THEOREM InvariantHolds == Spec => []RunnerInv
  BY InitInv, StepInv, PTL DEF Spec

\* A body never runs before the runs its run depends on are done, and
\* options.parallel bounds the runs that hold a slot.
THEOREM SafeExecution == Spec => [](TypeOK /\ NeedsDoneFirst /\ BoundedParallel)
  <1>1. RunnerInv => TypeOK /\ NeedsDoneFirst /\ BoundedParallel
    BY DEF RunnerInv
  <1> QED
    BY <1>1, InvariantHolds, PTL

-----------------------------------------------------------------------------
\* next() is never stuck

\* A set of runs that is not empty has a last and a first element.
LEMMA Extremes ==
  ASSUME taskNrs \in Nat, NEW T \in SUBSET Runs, T # {}
  PROVE  /\ \E m \in T : \A t \in T : t <= m
         /\ \E m \in T : \A t \in T : m <= t
  <1> DEFINE R == OpToRel(<, Nat)
  <1>1. ASSUME NEW x \in Nat, NEW y \in Nat, x < y PROVE <<x, y>> \in R
    <2> DEFINE p == <<x, y>>
    <2>1. p \in Nat \X Nat /\ p[1] < p[2]
      <3> HIDE DEF R
      <3> QED
        BY <1>1
    <2> HIDE DEF p
    <2>2. p \in OpToRel(<, Nat)
      BY <2>1, Zenon DEF OpToRel
    <2> QED
      BY <2>2 DEF p
  <1>2. IsWellFoundedOn(R, Nat)
    BY NatLessThanWellFounded
  <1> HIDE DEF R
  <1> DEFINE U == {taskNrs - t : t \in T}
  <1>3. T \subseteq Nat /\ U \subseteq Nat /\ U # {}
    <2>1. \A t \in T : t \in Nat /\ taskNrs - t \in Nat
      BY DEF Runs
    <2>2. T \subseteq Nat
      BY <2>1
    <2>3. U \subseteq Nat
      BY <2>1
    <2>4. U # {}
      OBVIOUS
    <2> QED
      BY <2>2, <2>3, <2>4
  <1>4. PICK m \in T : \A t \in T : ~ (<<t, m>> \in R)
    BY <1>2, <1>3, WFMin
  <1>5. ASSUME NEW t \in T PROVE m <= t
    <2>1. m \in Nat /\ t \in Nat
      BY <1>3
    <2>2. ~ (t < m)
      BY <2>1, <1>1, <1>4
    <2> QED
      BY <2>1, <2>2
  <1>6. \E x \in U : \A y \in U : ~ (<<y, x>> \in R)
    <2> HIDE DEF U
    <2> QED
      BY <1>2, <1>3, WFMin
  <1>7. PICK n \in T : \A y \in U : ~ (<<y, taskNrs - n>> \in R)
    BY <1>6
  <1>8. ASSUME NEW t \in T PROVE t <= n
    <2>1. taskNrs - t \in Nat /\ taskNrs - n \in Nat /\ taskNrs - t \in U
      BY <1>3
    <2>2. ~ (taskNrs - t < taskNrs - n)
      BY <2>1, <1>1, <1>7
    <2> QED
      BY <2>2, <1>3, <2>1
  <1> QED
    BY <1>5, <1>8

\* The last run that is not done needs nothing that is not done.
LEMMA SomeRunReady ==
  ASSUME RunnerInv, runningNrs = {}, Runs # doneNrs
  PROVE  \E t \in Runs : Ready(t)
  <1> USE DEF RunnerInv
  <1>1. taskNrs \in Nat /\ doneNrs \subseteq Runs
    BY DEF TypeOK
  <1>2. PICK m \in Runs \ doneNrs : \A t \in Runs \ doneNrs : t <= m
    <2>1. Runs \ doneNrs \in SUBSET Runs /\ Runs \ doneNrs # {}
      BY <1>1
    <2> QED
      BY <1>1, <2>1, Extremes
  <1>3. tasks[m].need \subseteq (m + 1) .. taskNrs
    BY <1>2 DEF TreeKept
  <1>4. \A k \in tasks[m].need : k \in Runs /\ ~ (k <= m)
    BY <1>1, <1>2, <1>3 DEF Runs
  <1>5. tasks[m].need \subseteq doneNrs
    BY <1>2, <1>4
  <1>6. m \notin statusDone /\ m \notin statusRunning
    BY <1>2 DEF ListsAgree
  <1> QED
    BY <1>2, <1>5, <1>6 DEF Ready

\* The exception 'Tasks are stucked!' of next() cannot be thrown.
THEOREM NextNeverStuck == Spec => []NeverStuck
  <1>1. RunnerInv => NeverStuck
    <2> SUFFICES ASSUME RunnerInv, runningNrs = {}, todoNrs # {}
                 PROVE  \E t \in Runs : Ready(t)
      BY DEF NeverStuck
    <2>1. Runs # doneNrs
      BY DEF RunnerInv, ListsAgree, TypeOK
    <2> QED
      BY <2>1, SomeRunReady
  <1> QED
    BY <1>1, InvariantHolds, PTL

-----------------------------------------------------------------------------
\* What a step may do

\* With empty lists nothing is left: the first run that is not done would be
\* needed by one that is done.
LEMMA EmptyListsAllDone ==
  ASSUME RunnerInv, todoNrs = {}, runningNrs = {}
  PROVE  doneNrs = Runs
  <1> USE DEF RunnerInv
  <1> SUFFICES ASSUME doneNrs # Runs PROVE FALSE
    OBVIOUS
  <1>1. taskNrs \in Nat /\ doneNrs \subseteq Runs
    BY DEF TypeOK
  <1>2. PICK m \in Runs \ doneNrs : \A t \in Runs \ doneNrs : m <= t
    <2>1. Runs \ doneNrs \in SUBSET Runs /\ Runs \ doneNrs # {}
      BY <1>1
    <2> QED
      BY <1>1, <2>1, Extremes
  <1>3. PICK j \in 1 .. (m - 1) : m \in tasks[j].need
    BY <1>2 DEF TreeKept
  <1>4. j \in Runs /\ ~ (m <= j)
    BY <1>1, <1>2 DEF Runs
  <1>5. m \in doneNrs
    BY <1>2, <1>3, <1>4 DEF NeedsDoneFirst
  <1> QED
    BY <1>2, <1>5

\* run() does not resolve before every run created so far is done.
THEOREM FinishesComplete == Spec => FinishedMeansAllDone
  <1> DEFINE A == promise' = "resolved" /\ promise # "resolved" => doneNrs = Runs
  <1>1. RunnerInv /\ [Next]_vars => [A]_vars
    <2> SUFFICES ASSUME RunnerInv, Next, promise' = "resolved", promise # "resolved"
                 PROVE  doneNrs = Runs
      OBVIOUS
    <2>1. NextFinish
      BY DEF Next, NextCall, Run, NextAfterFinish, NextNothing, StartTask, RejectTask,
             ThrowTask, Body, Resume, BodyReturn, Finish, BodyDone, BodyDoneAgain, BodyAdd, InNext, NothingLeft, InTodo, MoveToDone, EmitNEXT
    <2> QED
      BY <2>1, EmptyListsAllDone DEF NextFinish, InNext, NothingLeft
  <1> QED
    BY <1>1, InvariantHolds, PTL DEF Spec, FinishedMeansAllDone

\* A run is started at most once, from the todo list.
THEOREM StartsOnce == Spec => StartedOnce
  <1> DEFINE A == \A t \in Runs : t \in statusRunning' /\ t \notin statusRunning
                     => t \in todoNrs /\ t \notin statusDone \cup doneNrs \cup runningNrs
  <1>1. RunnerInv /\ [Next]_vars => [A]_vars
    <2> SUFFICES ASSUME RunnerInv, Next, NEW t \in Runs,
                        t \in statusRunning', t \notin statusRunning
                 PROVE  t \in todoNrs /\ t \notin statusDone \cup doneNrs \cup runningNrs
      OBVIOUS
    <2>1. \E u \in Runs : StartTask(u)
      BY DEF Next, NextCall, Run, NextAfterFinish, NextFinish, NextNothing, RejectTask,
             ThrowTask, Body, Resume, BodyReturn, Finish, BodyDone, BodyDoneAgain, BodyAdd,
             status, InNext, NothingLeft, InTodo, MoveToDone, EmitNEXT
    <2>2. StartTask(t)
      BY <2>1 DEF StartTask
    <2>3. t \in todoNrs /\ t \notin statusDone
      BY <2>2 DEF StartTask, Take, Selected, Ready, InNext, InTodo
    <2> QED
      BY <2>3 DEF RunnerInv, ListsAgree
  <1> QED
    BY <1>1, InvariantHolds, PTL DEF Spec, StartedOnce

\* Nothing is started, settled or announced after the event "stopped".
THEOREM StopIsFinal == Spec => StoppedIsFinal
  <1> DEFINE A == state = "stopped"
                    => UNCHANGED <<state, promise, event, runningNrs, doneNrs, statusRunning>>
  <1>1. RunnerInv /\ [Next]_vars => [A]_vars
    <2> SUFFICES ASSUME RunnerInv, Next, state = "stopped" PROVE A
      OBVIOUS
    <2>1. runningNrs = {} /\ statusRunning = {} /\ promise # "none"
      BY DEF RunnerInv, PhasesKept, ListsAgree
    <2>2. CASE \E r \in Runs : Finish(r)
      <3>1. PICK r \in Runs : At(r) /\ r \notin doneNrs
        BY <2>2 DEF Finish, BodyDone, MoveToDone, EmitNEXT
      <3> QED
        BY <2>1, <3>1, TopFrame DEF RunnerInv
    <2>3. CASE ~ \E r \in Runs : Finish(r)
      BY <2>1, <2>3 DEF Next, NextCall, Run, NextAfterFinish, NextFinish, NextNothing,
             StartTask, RejectTask, ThrowTask, Take, Body, Resume, BodyReturn,
             BodyDoneAgain, BodyAdd, lists, status, InNext, NothingLeft, InTodo, EmitNEXT
    <2> QED
      BY <2>2, <2>3
  <1> QED
    BY <1>1, InvariantHolds, PTL DEF Spec, StoppedIsFinal

-----------------------------------------------------------------------------
\* The refinement of TaskSchedule

\* The schedule counts slots as the runner does.
LEMMA SameCount == \A S : Schedule!Cardinality(S) = Cardinality(S)
  BY Zenon DEF Schedule!Cardinality, Cardinality

\* The needs of the runs, seen by the schedule.
LEMMA NeedsAcyclic ==
  ASSUME TypeOK, TreeKept
  PROVE  Schedule!Acyclic([i \in Runs |-> tasks[i].need])
  BY DEF Schedule!Acyclic, TreeKept, TypeOK, Runs

\* Every runner is a schedule of its runs.
THEOREM Implementation == Spec => ImplementsSchedule
  <1> DEFINE needs == [i \in Runs |-> tasks[i].need]
  <1>1. Init => Schedule!Init
    <2> SUFFICES ASSUME Init PROVE Schedule!Init
      OBVIOUS
    <2>1. Schedule!Acyclic(needs)
      BY InitInv, NeedsAcyclic DEF RunnerInv
    <2> QED
      BY <2>1 DEF Init, Schedule!Init
  <1>2. RunnerInv /\ RunnerInv' /\ [Next]_vars => [Schedule!Next]_(Schedule!vars)
    <2> SUFFICES ASSUME RunnerInv, RunnerInv', [Next]_vars
                 PROVE  Schedule!Next \/ UNCHANGED Schedule!vars
      OBVIOUS
    <2> USE DEF Schedule!vars, Schedule!Jobs
    <2>1. CASE UNCHANGED vars
      BY <2>1 DEF vars, lists, status, Runs
    <2>2. CASE \/ Run \/ NextAfterFinish \/ NextNothing
               \/ \E r \in Runs : \/ Resume(r) \/ BodyReturn(r)
                                  \/ \E how \in {"ok", "error"} :
                                       \E values \in SUBSET Provides[tasks[r].name] :
                                         BodyDoneAgain(r, how, values)
      <3>1. /\ UNCHANGED <<taskNrs, tasks, runningNrs, doneNrs>>
            /\ promise' = promise \/ (promise = "none" /\ promise' = "pending")
        BY <2>2 DEF Run, NextAfterFinish, NextNothing, Resume, BodyReturn, BodyDoneAgain,
                    lists, status, InNext, NothingLeft, EmitNEXT
      <3> QED
        BY <3>1 DEF Runs
    <2>3. CASE NextFinish
      <3>1. runningNrs = {} /\ doneNrs = Runs
        BY <2>3, EmptyListsAllDone DEF NextFinish, InNext, NothingLeft
      <3>2. UNCHANGED <<taskNrs, tasks, runningNrs, doneNrs>>
            /\ promise' = IF promise = "pending" THEN "resolved" ELSE promise
        BY <2>3 DEF NextFinish, lists, InNext, NothingLeft
      <3>3. CASE promise = "pending"
        <4>1. Schedule!Settle
          BY <3>1, <3>2, <3>3 DEF Schedule!Settle, Runs
        <4> QED
          BY <4>1 DEF Schedule!Next
      <3>4. CASE promise # "pending"
        BY <3>2, <3>4 DEF Runs
      <3> QED
        BY <3>3, <3>4
    <2>4. ASSUME NEW t \in Runs, StartTask(t) \/ RejectTask(t) \/ ThrowTask(t)
          PROVE  Schedule!Next \/ UNCHANGED Schedule!vars
      <3>1. /\ UNCHANGED <<taskNrs, tasks, doneNrs>>
            /\ At(NEXT) /\ state # "stopped"
            /\ tasks[t].need \subseteq doneNrs /\ t \notin statusDone
            /\ ~ Full
            /\ runningNrs' = runningNrs \cup {t}
            /\ promise' \in {promise, "rejected"}
        BY <2>4 DEF StartTask, RejectTask, ThrowTask, Take, Selected, Ready, status, InNext, InTodo, NothingLeft
      <3>2. promise # "resolved" /\ promise' # "resolved"
        BY <3>1 DEF RunnerInv, PhasesKept
      <3>3. t \notin doneNrs
        BY <3>1 DEF RunnerInv, ListsAgree
      <3>4. Cardinality(runningNrs) < Parallel
        BY <3>1, SlotsFinite, TaskRunnerAssumption DEF Full, RunnerInv
      <3>5. CASE t \in runningNrs
        BY <3>1, <3>2, <3>5 DEF Runs
      <3>6. CASE t \notin runningNrs
        <4>1. Schedule!Begin(t)
          BY <3>1, <3>2, <3>3, <3>4, <3>6, SameCount DEF Schedule!Begin, Runs
        <4> QED
          BY <4>1 DEF Schedule!Next
      <3> QED
        BY <3>5, <3>6
    <2>5. ASSUME NEW r \in Runs, Finish(r) PROVE Schedule!Next
      <3>1. /\ UNCHANGED <<taskNrs, tasks, promise>>
            /\ At(r) /\ r \notin doneNrs
            /\ doneNrs' = doneNrs \cup {r}
            /\ runningNrs' = runningNrs \ {r}
        BY <2>5 DEF Finish, BodyDone, MoveToDone, EmitNEXT
      <3>2. r \in runningNrs
        BY <3>1, TopFrame DEF RunnerInv, ListsAgree
      <3>3. Schedule!End(r)
        BY <3>1, <3>2 DEF Schedule!End, Runs
      <3> QED
        BY <3>3 DEF Schedule!Next
    <2>6. ASSUME NEW r \in Runs, NEW n \in Addable, NEW given \in SUBSET Requires[n],
                 NEW await \in Awaits, BodyAdd(r, n, given, await)
          PROVE  Schedule!Next
      <3>1. Runs \subseteq Runs' /\ \A i \in Runs : tasks'[i] = tasks[i]
        BY <2>6, AppendedRuns DEF RunnerInv
      <3>2. UNCHANGED <<runningNrs, doneNrs, promise>>
        BY <2>6 DEF BodyAdd, EmitNEXT
      <3>3. Schedule!Acyclic(needs)'
        BY NeedsAcyclic, PTL DEF RunnerInv
      <3>4. Schedule!Append
        BY <3>1, <3>2, <3>3 DEF Schedule!Append
      <3> QED
        BY <3>4 DEF Schedule!Next
    <2> QED
      BY <2>1, <2>2, <2>3, <2>4, <2>5, <2>6 DEF Next, NextCall, Body
  <1> QED
    BY <1>1, <1>2, InvariantHolds, PTL DEF Spec, ImplementsSchedule, Schedule!Spec

-----------------------------------------------------------------------------
\* Wakeups

\* What addTask appends brings no dependencies: createTaskRun appends one run.
SingleAppends == \A n \in Addable : Len(Plan[n]) = 1

\* No run misses a required parameter.
NothingMissing == \A n \in Names : Requires[n] \subseteq Incoming

\* Every run is in one of the lists, and one that holds a slot has been started or
\* rejected; the last event told them.
Listed ==
  /\ Runs = todoNrs \cup runningNrs \cup doneNrs
  /\ runningNrs \subseteq statusRunning \cup statusDone
  /\ event.running = runningNrs /\ event.finished = doneNrs

\* A NEXT is still to come.
Due == \E i \in DOMAIN stack : stack[i] = NEXT

\* While run() is pending, a NEXT is on its way as soon as it has something to do.
Woken ==
  /\ state = "stopped" => promise # "pending"
  /\ promise = "pending" /\ (NothingLeft \/ (~ Full /\ \E t \in Runs : Ready(t))) => Due

\* The runs that addTask has created.
AppendedNrs == (Len(Initial) + 1) .. taskNrs

\* A body awaits runs that it appended itself, and those need nothing.
Awaited ==
  /\ Len(Initial) <= taskNrs
  /\ taskNrs > Len(Initial) => taskNrs <= MaxRuns
  /\ \A r \in Runs :
       /\ awaits[r] \subseteq AppendedNrs
       /\ \A a \in awaits[r] : r < a /\ tasks[a].need = {}
       /\ \A s \in Runs : s # r => awaits[r] \cap awaits[s] = {}
       /\ awaits[r] # {} => TRUE \in Awaits

WakeInv == RunnerInv /\ Listed /\ statusDone \subseteq doneNrs /\ Woken /\ Awaited

\* What a call pushes is there, and what was there stays.
LEMMA FramePushed ==
  ASSUME NEW S, NEW s \in Seq(S), NEW f \in S, NEW g
  PROVE  /\ \E i \in DOMAIN Append(s, f) : Append(s, f)[i] = f
         /\ (\E i \in DOMAIN s : s[i] = g) => \E i \in DOMAIN Append(s, f) : Append(s, f)[i] = g
  <1> DEFINE t == Append(s, f)
  <1>1. /\ Len(s) \in Nat /\ DOMAIN s = 1 .. Len(s) /\ DOMAIN t = 1 .. Len(s) + 1
        /\ t[Len(s) + 1] = f /\ \A i \in 1 .. Len(s) : t[i] = s[i]
    OBVIOUS
  <1> HIDE DEF t
  <1>2. \E i \in DOMAIN t : t[i] = f
    BY <1>1
  <1>3. (\E i \in DOMAIN s : s[i] = g) => \E i \in DOMAIN t : t[i] = g
    BY <1>1
  <1> QED
    BY <1>2, <1>3 DEF t

\* What is popped is the last frame only.
LEMMA FramePopped ==
  ASSUME NEW S, NEW s \in Seq(S), NEW g, \E i \in DOMAIN s : s[i] = g, s[Len(s)] # g
  PROVE  \E i \in DOMAIN SubSeq(s, 1, Len(s) - 1) : SubSeq(s, 1, Len(s) - 1)[i] = g
  <1> DEFINE u == SubSeq(s, 1, Len(s) - 1)
  <1>1. /\ Len(s) \in Nat /\ DOMAIN s = 1 .. Len(s)
        /\ Len(s) # 0 => DOMAIN u = 1 .. Len(s) - 1 /\ \A i \in 1 .. Len(s) - 1 : u[i] = s[i]
    OBVIOUS
  <1> HIDE DEF u
  <1>2. PICK i \in DOMAIN s : s[i] = g
    OBVIOUS
  <1>3. Len(s) # 0 /\ i \in 1 .. Len(s) - 1
    BY <1>1, <1>2
  <1>4. i \in DOMAIN u /\ u[i] = g
    BY <1>1, <1>2, <1>3
  <1> QED
    BY <1>4 DEF u

\* Without dependencies to append, next() never meets a run outside its lists.
LEMMA NothingThrown ==
  ASSUME RunnerInv, Listed, NEW t \in Runs PROVE ~ ThrowTask(t)
  <1> SUFFICES ASSUME ThrowTask(t) PROVE FALSE
    OBVIOUS
  <1>1. t \notin statusDone /\ t \notin statusRunning /\ t \notin todoNrs
    BY DEF ThrowTask, Selected, Ready, InTodo
  <1> QED
    BY <1>1 DEF Listed, RunnerInv, ListsAgree

LEMMA OneAppended ==
  ASSUME SingleAppends, RunnerInv, NEW r \in Runs, NEW n \in Addable,
         NEW given \in SUBSET Requires[n], NEW await \in Awaits, BodyAdd(r, n, given, await)
  PROVE  /\ taskNrs \in Nat /\ taskNrs' = taskNrs + 1 /\ taskNrs' <= MaxRuns
         /\ Runs' = Runs \cup {taskNrs + 1} /\ taskNrs + 1 \notin Runs
         /\ \A i \in Runs : tasks'[i] = tasks[i]
         /\ tasks'[taskNrs + 1].need = {}
  <1>1. taskNrs \in Nat
    BY DEF RunnerInv, TypeOK
  <1>2. taskNrs' = taskNrs + 1 /\ taskNrs' <= MaxRuns
    BY <1>1 DEF SingleAppends, BodyAdd
  <1>3. Runs' = Runs \cup {taskNrs + 1} /\ taskNrs + 1 \notin Runs
    BY <1>1, <1>2 DEF Runs
  <1>4. /\ \A i \in Runs : tasks'[i] = tasks[i]
        /\ \A i \in Runs' \ Runs : tasks'[i].need \subseteq (i + 1) .. taskNrs'
    BY AppendedRuns DEF RunnerInv
  <1>5. tasks'[taskNrs + 1].need \subseteq (taskNrs + 1 + 1) .. taskNrs + 1
    BY <1>2, <1>3, <1>4
  <1>6. (taskNrs + 1 + 1) .. taskNrs + 1 = {}
    BY <1>1
  <1> QED
    BY <1>1, <1>2, <1>3, <1>4, <1>5, <1>6

LEMMA ListedStep ==
  ASSUME SingleAppends, RunnerInv, Listed, [Next]_vars PROVE Listed'
  <1> USE DEF Listed
  <1>1. CASE UNCHANGED vars
    BY <1>1 DEF vars, lists, status, Runs
  <1>2. CASE Run \/ NextAfterFinish \/ NextNothing \/ NextFinish
    BY <1>2 DEF Run, NextAfterFinish, NextNothing, NextFinish, Post, lists, status, Runs
  <1>3. ASSUME NEW t \in Runs, StartTask(t) \/ RejectTask(t) PROVE Listed'
    <2>1. /\ UNCHANGED <<taskNrs, doneNrs>>
          /\ todoNrs' = todoNrs \ {t} /\ runningNrs' = runningNrs \cup {t}
          /\ event'.running = runningNrs' /\ event'.finished = doneNrs
      BY <1>3 DEF StartTask, RejectTask, Take, Post
    <2>2. t \in statusRunning' \cup statusDone' /\ statusRunning \subseteq statusRunning'
          /\ statusDone \subseteq statusDone'
      BY <1>3 DEF StartTask, RejectTask
    <2> QED
      BY <2>1, <2>2 DEF Runs
  <1>4. ASSUME NEW t \in Runs, ThrowTask(t) PROVE Listed'
    BY <1>4, NothingThrown
  <1>5. ASSUME NEW r \in Runs, Body(r) PROVE Listed'
    <2>1. CASE \/ Resume(r) \/ BodyReturn(r)
               \/ \E how \in {"ok", "error"} :
                    \E values \in SUBSET Provides[tasks[r].name] :
                      BodyDoneAgain(r, how, values)
      BY <2>1 DEF Resume, BodyReturn, BodyDoneAgain, lists, status, Runs
    <2>2. CASE Finish(r)
      <3>1. /\ UNCHANGED <<taskNrs, todoNrs>> /\ At(r) /\ r \notin doneNrs
            /\ statusDone' = statusDone \cup {r} /\ statusRunning' = statusRunning \ {r}
            /\ doneNrs' = doneNrs \cup {r} /\ runningNrs' = runningNrs \ {r}
            /\ event'.running = runningNrs' /\ event'.finished = doneNrs'
        BY <2>2 DEF Finish, BodyDone, MoveToDone, Post
      <3>2. r \in runningNrs
        BY <3>1, TopFrame DEF RunnerInv, ListsAgree
      <3> QED
        BY <3>1, <3>2 DEF Runs
    <2>3. ASSUME NEW n \in Addable, NEW given \in SUBSET Requires[n], NEW await \in Awaits,
                 BodyAdd(r, n, given, await)
          PROVE  Listed'
      <3>1. /\ UNCHANGED <<runningNrs, doneNrs, statusRunning, statusDone, event>>
            /\ todoNrs' = todoNrs \cup {taskNrs + 1}
        BY <2>3 DEF BodyAdd
      <3>2. Runs' = Runs \cup {taskNrs + 1}
        BY <2>3, OneAppended
      <3> QED
        BY <3>1, <3>2
    <2> QED
      BY <1>5, <2>1, <2>2, <2>3 DEF Body
  <1> QED
    BY <1>1, <1>2, <1>3, <1>4, <1>5 DEF Next, NextCall

LEMMA InitListed == Init => Listed
  BY DEF Init, Listed, Runs

\* Unless a run of a dependency is thrown out, the last TaskRunnerEvent tells the lists
\* between any two calls: fireStateEvent is called with every change of them.
THEOREM EventsTell == ASSUME SingleAppends PROVE Spec => []EventTellsLists
  <1>1. RunnerInv /\ Listed /\ [Next]_vars => (RunnerInv /\ Listed)'
    BY StepInv, ListedStep
  <1>2. RunnerInv /\ Listed => EventTellsLists
    BY DEF Listed, EventTellsLists
  <1> QED
    BY <1>1, <1>2, InitInv, InitListed, PTL DEF Spec

\* A body that needs nothing but what the runner has been given is never refused.
LEMMA NothingRejected ==
  ASSUME NothingMissing, RunnerInv, NEW t \in Runs PROVE ~ RejectTask(t)
  <1>1. tasks[t].name \in Names
    BY DEF RunnerInv, TypeOK, TaskEntry
  <1> QED
    BY <1>1 DEF RejectTask, Missing, NothingMissing

\* The steps that leave the lists and the runs, and do not end run().
LEMMA WokenKept ==
  ASSUME Woken, UNCHANGED <<taskNrs, tasks, todoNrs, runningNrs, doneNrs, statusRunning, statusDone>>,
         UNCHANGED <<state, promise>>, Due => Due'
  PROVE  Woken'
  BY DEF Woken, NothingLeft, Full, Ready, Runs

LEMMA WokenStep ==
  ASSUME SingleAppends, NothingMissing, WakeInv, [Next]_vars PROVE Woken'
  <1>1. RunnerInv /\ Listed /\ Woken
    BY DEF WakeInv
  <1> DEFINE S == Runs \cup {NEXT}
  <1>2. stack \in Seq(S) /\ NEXT \in S /\ \A r \in Runs : r \in S /\ r # NEXT
    BY <1>1 DEF RunnerInv, TypeOK, Runs, NEXT
  <1> HIDE DEF S
  <1>3. ASSUME stack' = Append(stack, NEXT) PROVE Due'
    BY <1>2, <1>3, FramePushed DEF Due
  <1>4. ASSUME NEW r \in Runs, stack' = Append(stack, r), Due PROVE Due'
    BY <1>2, <1>4, FramePushed DEF Due
  <1>5. ASSUME NEW r \in Runs, At(r), Pop, Due PROVE Due'
    <2>1. stack[Len(stack)] # NEXT
      BY <1>2, <1>5 DEF At
    <2> QED
      <3>1. \A s \in Seq(S) : (\E i \in DOMAIN s : s[i] = NEXT) /\ s[Len(s)] # NEXT
               => \E i \in DOMAIN SubSeq(s, 1, Len(s) - 1) : SubSeq(s, 1, Len(s) - 1)[i] = NEXT
        BY FramePopped
      <3>2. stack' = SubSeq(stack, 1, Len(stack) - 1)
        BY <1>5 DEF Pop
      <3>3. \E i \in DOMAIN SubSeq(stack, 1, Len(stack) - 1) : SubSeq(stack, 1, Len(stack) - 1)[i] = NEXT
        BY <1>2, <1>5, <2>1, <3>1 DEF Due
      <3> QED
        BY <3>2, <3>3, Zenon DEF Due
  <1>6. CASE UNCHANGED vars
    BY <1>1, <1>6, WokenKept DEF vars, lists, status, Due
  <1>7. CASE Run
    BY <1>1, <1>3, <1>7 DEF Run, Push, Woken, RunnerInv, PhasesKept
  <1>8. CASE NextAfterFinish
    BY <1>1, <1>8 DEF NextAfterFinish, Woken
  <1>9. CASE NextFinish
    BY <1>9 DEF NextFinish, Woken
  <1>10. CASE NextNothing
    <2>1. ~ NothingLeft /\ (Full \/ \A t \in Runs : ~ Ready(t)) /\ state' = "running"
          /\ UNCHANGED <<taskNrs, tasks, todoNrs, runningNrs, doneNrs, statusRunning, statusDone>>
      BY <1>10 DEF NextNothing, lists, status
    <2> QED
      BY <2>1 DEF Woken, NothingLeft, Full, Ready, Runs
  <1>11. ASSUME NEW t \in Runs, StartTask(t) PROVE Woken'
    <2>1. At(NEXT) /\ state' = "running" /\ stack' = Append(stack, t)
      BY <1>11 DEF StartTask, Take, InNext, Push
    <2>2. Due
      BY <1>2, <2>1 DEF Due, At
    <2> QED
      BY <1>4, <2>1, <2>2 DEF Woken
  <1>12. ASSUME NEW t \in Runs, RejectTask(t) \/ ThrowTask(t) PROVE Woken'
    BY <1>1, <1>12, NothingRejected, NothingThrown
  <1>13. ASSUME NEW r \in Runs, Resume(r) PROVE Woken'
    <2>1. ~ Due
      BY <1>13 DEF Resume, Due
    <2> QED
      BY <1>1, <1>13, <2>1, WokenKept DEF Resume, lists, status
  <1>14. ASSUME NEW r \in Runs, BodyReturn(r) PROVE Woken'
    BY <1>1, <1>5, <1>14, WokenKept DEF BodyReturn, lists, status
  <1>15. ASSUME NEW r \in Runs, NEW how \in {"ok", "error"},
                NEW values \in SUBSET Provides[tasks[r].name], BodyDoneAgain(r, how, values)
         PROVE  Woken'
    BY <1>1, <1>15, WokenKept DEF BodyDoneAgain, lists, Due
  <1>16. ASSUME NEW r \in Runs, Finish(r) PROVE Woken'
    <2>1. stack' = Append(stack, NEXT) /\ UNCHANGED <<state, promise>>
      BY <1>16 DEF Finish, BodyDone, EmitNEXT, Push
    <2> QED
      BY <1>1, <1>3, <2>1 DEF Woken
  <1>17. ASSUME NEW r \in Runs, NEW n \in Addable, NEW given \in SUBSET Requires[n],
                NEW await \in Awaits, BodyAdd(r, n, given, await)
         PROVE  Woken'
    <2>1. stack' = Append(stack, NEXT) /\ UNCHANGED <<state, promise>>
      BY <1>17 DEF BodyAdd, EmitNEXT, Push
    <2> QED
      BY <1>1, <1>3, <2>1 DEF Woken
  <1> QED
    BY <1>6, <1>7, <1>8, <1>9, <1>10, <1>11, <1>12, <1>13, <1>14, <1>15, <1>16, <1>17
       DEF Next, NextCall, Body

\* What a body awaits is its own, and stays to be done until it is done.
LEMMA AwaitedStep ==
  ASSUME SingleAppends, NothingMissing, WakeInv, [Next]_vars
  PROVE  Awaited' /\ (statusDone \subseteq doneNrs)'
  <1>1. RunnerInv /\ Listed /\ Awaited /\ statusDone \subseteq doneNrs
    BY DEF WakeInv
  <1>2. ASSUME UNCHANGED <<taskNrs, tasks, awaits>> PROVE Awaited'
    BY <1>1, <1>2 DEF Awaited, Runs, AppendedNrs
  <1>3. CASE UNCHANGED vars
    BY <1>1, <1>2, <1>3 DEF vars, lists, status
  <1>4. CASE Run \/ NextAfterFinish \/ NextNothing \/ NextFinish
    BY <1>1, <1>2, <1>4 DEF Run, NextAfterFinish, NextNothing, NextFinish, lists, status
  <1>5. ASSUME NEW t \in Runs, StartTask(t) PROVE Awaited' /\ (statusDone \subseteq doneNrs)'
    BY <1>1, <1>2, <1>5 DEF StartTask
  <1>6. ASSUME NEW t \in Runs, RejectTask(t) \/ ThrowTask(t)
        PROVE  Awaited' /\ (statusDone \subseteq doneNrs)'
    BY <1>1, <1>6, NothingRejected, NothingThrown
  <1>7. ASSUME NEW r \in Runs, Body(r) PROVE Awaited' /\ (statusDone \subseteq doneNrs)'
    <2>1. CASE \/ Resume(r) \/ BodyReturn(r)
               \/ \E how \in {"ok", "error"} :
                    \E values \in SUBSET Provides[tasks[r].name] :
                      BodyDoneAgain(r, how, values)
      BY <1>1, <1>2, <2>1 DEF Resume, BodyReturn, BodyDoneAgain, lists, status
    <2>2. CASE Finish(r)
      BY <1>1, <1>2, <2>2 DEF Finish, BodyDone, MoveToDone
    <2>3. ASSUME NEW n \in Addable, NEW given \in SUBSET Requires[n], NEW await \in Awaits,
                 BodyAdd(r, n, given, await)
          PROVE  Awaited' /\ (statusDone \subseteq doneNrs)'
      <3> DEFINE new == taskNrs + 1
      <3>1. /\ taskNrs \in Nat /\ taskNrs' = new /\ new <= MaxRuns
            /\ Runs' = Runs \cup {new} /\ new \notin Runs
            /\ \A i \in Runs : tasks'[i] = tasks[i]
            /\ tasks'[new].need = {}
        BY <1>1, <2>3, OneAppended
      <3>2. /\ awaits' = [i \in 1 .. taskNrs' |->
                            IF i = r /\ await THEN awaits[r] \cup {new}
                            ELSE IF i < new THEN awaits[i] ELSE {}]
            /\ UNCHANGED <<statusDone, doneNrs>>
        BY <2>3 DEF BodyAdd
      <3>3. Len(Initial) \in Nat /\ Len(Initial) <= taskNrs
        BY <1>1, TaskRunnerAssumption, PlanEntries DEF Awaited
      <3>4. AppendedNrs' = AppendedNrs \cup {new} /\ new \notin AppendedNrs /\ new \in AppendedNrs'
        BY <3>1, <3>3 DEF AppendedNrs
      <3>5. /\ awaits'[new] = {}
            /\ \A i \in Runs : awaits'[i] = IF i = r /\ await THEN awaits[r] \cup {new} ELSE awaits[i]
        <4>1. Runs' = 1 .. taskNrs' /\ r # new /\ \A i \in Runs : i < new
          BY <3>1 DEF Runs
        <4>2. new \in 1 .. taskNrs' /\ ~ (new < new) /\ \A i \in Runs : i \in 1 .. taskNrs'
          BY <3>1, <4>1 DEF Runs
        <4> QED
          BY <3>2, <4>1, <4>2
      <3>6. AppendedNrs \subseteq Runs /\ \A i \in Runs : i < new
        BY <3>1, <3>3 DEF AppendedNrs, Runs
      <3>7. await => TRUE \in Awaits
        BY TaskRunnerAssumption
      <3> HIDE DEF new
      <3>8. ASSUME NEW i \in Runs'
            PROVE  /\ awaits'[i] \subseteq AppendedNrs'
                   /\ \A a \in awaits'[i] : i < a /\ tasks'[a].need = {}
                   /\ \A s \in Runs' : s # i => awaits'[i] \cap awaits'[s] = {}
                   /\ awaits'[i] # {} => TRUE \in Awaits
        <4>1. CASE i = new
          BY <3>5, <4>1
        <4>2. CASE i \in Runs
          <5>1. /\ awaits[i] \subseteq AppendedNrs
                /\ \A a \in awaits[i] : i < a /\ tasks[a].need = {}
                /\ \A s \in Runs : s # i => awaits[i] \cap awaits[s] = {}
                /\ awaits[i] # {} => TRUE \in Awaits
            BY <1>1, <4>2 DEF Awaited
          <5>2. \A a \in awaits[i] : a \in Runs /\ tasks'[a].need = {}
            BY <3>1, <3>6, <5>1
          <5>3. \A s \in Runs : new \notin awaits[s]
            BY <1>1, <3>4 DEF Awaited
          <5>4. \A s \in Runs' : s # i => awaits'[i] \cap awaits'[s] = {}
            BY <3>1, <3>5, <4>2, <5>1, <5>3
          <5>5. CASE i = r /\ await
            <6>1. awaits'[i] = awaits[i] \cup {new} /\ i < new /\ TRUE \in Awaits
              BY <3>5, <3>6, <3>7, <4>2, <5>5
            <6> QED
              BY <3>1, <3>4, <5>1, <5>2, <5>4, <6>1
          <5>6. CASE ~ (i = r /\ await)
            <6>1. awaits'[i] = awaits[i]
              BY <3>5, <4>2, <5>6
            <6> QED
              BY <3>4, <5>1, <5>2, <5>4, <6>1
          <5> QED
            BY <5>5, <5>6
        <4> QED
          BY <3>1, <4>1, <4>2
      <3>9. Len(Initial) <= taskNrs' /\ taskNrs' <= MaxRuns
        BY <3>1, <3>3 DEF new
      <3>10. Awaited'
        BY <3>8, <3>9 DEF Awaited
      <3> QED
        BY <1>1, <3>2, <3>10
    <2> QED
      BY <1>7, <2>1, <2>2, <2>3 DEF Body
  <1> QED
    BY <1>3, <1>4, <1>5, <1>6, <1>7 DEF Next, NextCall

LEMMA InitWake == Init => WakeInv
  <1> SUFFICES ASSUME Init PROVE WakeInv
    OBVIOUS
  <1>1. Len(Initial) \in Nat
    BY TaskRunnerAssumption, PlanEntries
  <1>2. Awaited
    BY <1>1 DEF Init, Awaited, Runs
  <1>3. Woken /\ statusDone \subseteq doneNrs
    BY DEF Init, Woken
  <1> QED
    BY <1>2, <1>3, InitInv, InitListed DEF WakeInv

\* When nothing is missing and no dependency is appended, a NEXT is pending whenever
\* next() has something to do (taskDone and enqueue emit it), and a body waits for runs
\* of its own that need nothing.
THEOREM WakeInvariant == ASSUME SingleAppends, NothingMissing PROVE Spec => []WakeInv
  <1>1. WakeInv /\ [Next]_vars => WakeInv'
    BY StepInv, ListedStep, WokenStep, AwaitedStep DEF WakeInv
  <1> QED
    BY <1>1, InitWake, PTL DEF Spec

\* Then no slot stays free while a run could take it.
THEOREM NoWakeupLost == ASSUME SingleAppends, NothingMissing PROVE Spec => []NoLostWakeup
  <1>1. WakeInv => NoLostWakeup
    <2> SUFFICES ASSUME WakeInv, stack = <<>>, promise = "pending", ~ Full,
                        NEW t \in todoNrs, Ready(t)
                 PROVE  FALSE
      BY DEF NoLostWakeup
    <2>1. t \in Runs
      BY DEF WakeInv, RunnerInv, TypeOK
    <2>2. ~ Due
      BY DEF Due
    <2> QED
      BY <2>1, <2>2 DEF WakeInv, Woken
  <1> QED
    BY <1>1, WakeInvariant, PTL

\* More slots than runs to append: the bodies that wait cannot take them all.
EnoughSlots == TRUE \in Awaits => MaxRuns < Len(Initial) + Parallel

LEMMA SomebodyGoesOn ==
  ASSUME EnoughSlots, WakeInv, stack = <<>>, promise = "pending"
  PROVE  \E r \in statusRunning : ~ Blocked(r)
  <1>1. RunnerInv /\ Listed /\ statusDone \subseteq doneNrs /\ Woken /\ Awaited
    BY DEF WakeInv
  <1>2. TypeOK /\ ListsAgree
    BY <1>1 DEF RunnerInv
  <1>3. ~ NothingLeft /\ (Full \/ \A t \in Runs : ~ Ready(t))
    <2>1. ~ Due
      BY DEF Due
    <2> QED
      BY <1>1, <2>1 DEF Woken
  <1>4. statusRunning = runningNrs
    BY <1>1, <1>2 DEF Listed, ListsAgree
  <1>5. runningNrs # {}
    <2> SUFFICES ASSUME runningNrs = {} PROVE FALSE
      OBVIOUS
    <2>1. ~ Full
      BY FS_EmptySet, TaskRunnerAssumption DEF Full
    <2>2. Runs = doneNrs
      BY <1>1, <1>3, <2>1, SomeRunReady
    <2>3. todoNrs = {}
      BY <1>2, <2>2 DEF TypeOK, ListsAgree
    <2> QED
      BY <1>3, <2>3 DEF NothingLeft
  <1> SUFFICES ASSUME \A r \in runningNrs : awaits[r] \ doneNrs # {} PROVE FALSE
    BY <1>4 DEF Blocked
  <1>6. /\ runningNrs \subseteq Runs /\ taskNrs \in Nat /\ Len(Initial) \in Nat /\ MaxRuns \in Nat
        /\ Parallel \in Nat \ {0}
    BY <1>2, TaskRunnerAssumption, PlanEntries DEF TypeOK
  <1>7. IsFiniteSet(AppendedNrs) /\ Cardinality(AppendedNrs) < Parallel
    <2>1. TRUE \in Awaits
      BY <1>1, <1>5, <1>6 DEF Awaited
    <2>2. MaxRuns < Len(Initial) + Parallel /\ Len(Initial) <= taskNrs
          /\ (taskNrs > Len(Initial) => taskNrs <= MaxRuns)
      BY <1>1, <2>1 DEF EnoughSlots, Awaited
    <2>3. /\ IsFiniteSet(AppendedNrs)
          /\ Cardinality(AppendedNrs) = IF Len(Initial) + 1 > taskNrs THEN 0
                                        ELSE taskNrs - (Len(Initial) + 1) + 1
      <3>1. Len(Initial) + 1 \in Int /\ taskNrs \in Int
        BY <1>6
      <3> QED
        BY <3>1, FS_Interval DEF AppendedNrs
    <2> QED
      BY <1>6, <2>2, <2>3
  <1>8. Cardinality(runningNrs) <= Cardinality(AppendedNrs)
    <2> DEFINE f == [r \in runningNrs |-> CHOOSE a \in awaits[r] : TRUE]
    <2>1. \A r \in runningNrs : f[r] \in awaits[r]
      OBVIOUS
    <2>2. f \in [runningNrs -> AppendedNrs]
      BY <1>1, <1>6, <2>1 DEF Awaited
    <2>3. \A r, s \in runningNrs : r # s => f[r] # f[s]
      BY <1>1, <1>6, <2>1 DEF Awaited
    <2>4. IsFiniteSet(runningNrs) /\ Cardinality(runningNrs) \in Nat /\ Cardinality(AppendedNrs) \in Nat
      BY <1>2, <1>7, SlotsFinite, FS_CardinalityType
    <2> HIDE DEF f
    <2>5. ~ (Cardinality(AppendedNrs) < Cardinality(runningNrs))
      BY <1>7, <2>2, <2>3, <2>4, FS_PigeonHole
    <2> QED
      BY <2>4, <2>5
  <1>9. ~ Full
    <2>1. Cardinality(runningNrs) \in Nat /\ Cardinality(AppendedNrs) \in Nat
      BY <1>2, <1>7, SlotsFinite, FS_CardinalityType
    <2> QED
      BY <1>6, <1>7, <1>8, <2>1 DEF Full
  <1>10. PICK m \in runningNrs : \A t \in runningNrs : t <= m
    BY <1>5, <1>6, Extremes
  <1>11. PICK a \in awaits[m] : a \notin doneNrs
    OBVIOUS
  <1>12. a \in Runs /\ m < a /\ tasks[a].need = {}
    <2>1. m \in Runs
      BY <1>6
    <2>2. a \in AppendedNrs /\ m < a /\ tasks[a].need = {}
      BY <1>1, <2>1 DEF Awaited
    <2>3. AppendedNrs \subseteq Runs
      BY <1>6 DEF AppendedNrs, Runs
    <2> QED
      BY <2>2, <2>3
  <1>13. a \notin runningNrs
    BY <1>6, <1>10, <1>12 DEF Runs
  <1>14. Ready(a)
    BY <1>1, <1>4, <1>11, <1>12, <1>13 DEF Ready
  <1> QED
    BY <1>3, <1>9, <1>12, <1>14

\* And while run() waits, some body can go on, when there are more slots than runs that
\* addTask may create, or nobody awaits those.
THEOREM SomebodyRuns ==
  ASSUME SingleAppends, NothingMissing, EnoughSlots PROVE Spec => []SomebodyToWaitFor
  <1>1. WakeInv => SomebodyToWaitFor
    BY SomebodyGoesOn DEF SomebodyToWaitFor
  <1> QED
    BY <1>1, WakeInvariant, PTL


-----------------------------------------------------------------------------
\* The trees of the registry (TaskBindings): what createTaskRun builds for every finite
\* set of names and everything group and dependsOn have bound before.  Each recursive
\* function of the model is unfolded once, and the trees are compared depth by depth.

\* A set of numbers that is not empty has a least one.
LEMMA LessIsWellFounded ==
  \A T \in SUBSET Nat : T # {} => \E m \in T : \A t \in T : m <= t
  <1> SUFFICES ASSUME NEW T \in SUBSET Nat, T # {}
               PROVE  \E m \in T : \A t \in T : m <= t
    OBVIOUS
  <1> DEFINE R == OpToRel(<, Nat)
  <1>1. ASSUME NEW x \in Nat, NEW y \in Nat, x < y PROVE <<x, y>> \in R
    <2> DEFINE p == <<x, y>>
    <2>1. p \in Nat \X Nat /\ p[1] < p[2]
      <3> HIDE DEF R
      <3> QED
        BY <1>1
    <2> HIDE DEF p
    <2>2. p \in OpToRel(<, Nat)
      BY <2>1, Zenon DEF OpToRel
    <2> QED
      BY <2>2 DEF p
  <1>2. IsWellFoundedOn(R, Nat)
    BY NatLessThanWellFounded
  <1> HIDE DEF R
  <1>3. PICK m \in T : \A t \in T : ~ (<<t, m>> \in R)
    BY <1>2, WFMin
  <1>4. \A t \in T : ~ (t < m)
    BY <1>1, <1>3
  <1> QED
    BY <1>3, <1>4

\* Induction, for a set of numbers.
LEMMA UpTo ==
  ASSUME NEW N \in Nat, NEW T, 0 \in T,
         \A k \in 1 .. N : k - 1 \in T => k \in T
  PROVE  \A k \in 0 .. N : k \in T
  <1> DEFINE U == {k \in 0 .. N : k \notin T}
  <1>1. SUFFICES ASSUME U # {} PROVE FALSE
    OBVIOUS
  <1>2. U \in SUBSET Nat
    OBVIOUS
  <1>3. PICK m \in U : \A t \in U : m <= t
    <2> HIDE DEF U
    <2> QED
      BY <1>1, <1>2, LessIsWellFounded
  <1>4. m \in 1 .. N
    BY <1>3
  <1>5. m - 1 \in 0 .. N /\ m - 1 \notin U
    BY <1>3, <1>4
  <1> QED
    BY <1>3, <1>4, <1>5

\* f is the function of the numbers up to N that goes from v on by the given steps.
Iterates(f, N, V, v, step) ==
  /\ f \in [0 .. N -> V]
  /\ f[0] = v /\ \A k \in 1 .. N : f[k] = step[k][f[k - 1]]

\* There is one for all steps.
LEMMA Recursion ==
  ASSUME NEW N \in Nat, NEW V, NEW v \in V, NEW step \in [Nat -> [V -> V]]
  PROVE  \E f : Iterates(f, N, V, v, step)
  <1> DEFINE Good(n) == \E f \in [0 .. n -> V] :
                          f[0] = v /\ \A k \in 1 .. n : f[k] = step[k][f[k - 1]]
             T == {n \in Nat : Good(n)}
  <1>1. 0 \in T
    <2> DEFINE f == [k \in 0 .. 0 |-> v]
    <2>1. f \in [0 .. 0 -> V] /\ f[0] = v
      OBVIOUS
    <2>2. 1 .. 0 = {}
      OBVIOUS
    <2> HIDE DEF f
    <2>3. Good(0)
      BY <2>1, <2>2
    <2> QED
      BY <2>3
  <1>2. ASSUME NEW n \in 1 .. N, n - 1 \in T PROVE n \in T
    <2>1. PICK f \in [0 .. n - 1 -> V] :
            f[0] = v /\ \A k \in 1 .. n - 1 : f[k] = step[k][f[k - 1]]
      BY <1>2
    <2> DEFINE g == [k \in 0 .. n |-> IF k = n THEN step[n][f[n - 1]] ELSE f[k]]
    <2>2. f[n - 1] \in V /\ step[n][f[n - 1]] \in V
      OBVIOUS
    <2>3. g \in [0 .. n -> V]
      BY <2>2
    <2>4. g[0] = v /\ \A k \in 1 .. n : g[k] = step[k][g[k - 1]]
      <3>1. g[0] = v
        <4>1. 0 \in 0 .. n /\ n # 0
          OBVIOUS
        <4>2. g[0] = f[0]
          BY <4>1
        <4> QED
          BY <2>1, <4>2
      <3>2. ASSUME NEW k \in 1 .. n PROVE g[k] = step[k][g[k - 1]]
        <4>1. k - 1 \in 0 .. n /\ k - 1 # n /\ g[k - 1] = f[k - 1]
          OBVIOUS
        <4> QED
          BY <2>1, <4>1
      <3> QED
        BY <3>1, <3>2
    <2> HIDE DEF g
    <2>5. Good(n)
      BY <2>3, <2>4
    <2> QED
      BY <2>5
  <1>3. \A k \in 1 .. N : k - 1 \in T => k \in T
    BY <1>2
  <1>4. \A k \in 0 .. N : k \in T
    <2> HIDE DEF T
    <2> QED
      BY <1>1, <1>3, UpTo
  <1> QED
    BY <1>4 DEF Iterates

\* What Shift and Attach do to the runs.
LEMMA ShiftFacts ==
  ASSUME NEW sub \in Seq(Entry), NEW b \in Nat
  PROVE  /\ Shift(sub, b) \in Seq(Entry)
         /\ Len(Shift(sub, b)) = Len(sub)
         /\ \A i \in 1 .. Len(sub) :
              /\ Shift(sub, b)[i].name = sub[i].name
              /\ Shift(sub, b)[i].need = {b + k : k \in sub[i].need}
  <1> DEFINE s == Shift(sub, b)
  <1>1. ASSUME NEW i \in 1 .. Len(sub)
        PROVE  /\ s[i] \in Entry
               /\ s[i].name = sub[i].name
               /\ s[i].need = {b + k : k \in sub[i].need}
    <2>1. sub[i] \in Entry /\ i \in DOMAIN sub
      OBVIOUS
    <2>2. s[i] = [sub[i] EXCEPT !.need = {b + k : k \in sub[i].need}]
      BY <2>1 DEF Shift
    <2>3. {b + k : k \in sub[i].need} \in SUBSET Nat
      BY <2>1 DEF Entry
    <2> QED
      BY <2>1, <2>2, <2>3 DEF Entry
  <1>2. DOMAIN s = 1 .. Len(sub) /\ s = [i \in 1 .. Len(sub) |-> s[i]]
    BY DEF Shift
  <1>3. s \in [1 .. Len(sub) -> Entry]
    <2> HIDE DEF s
    <2> QED
      BY <1>1, <1>2
  <1>4. s \in Seq(Entry) /\ Len(s) = Len(sub)
    <2> HIDE DEF s
    <2> QED
      BY <1>3
  <1> QED
    BY <1>1, <1>4

\* The elements of two sequences, one behind the other.
LEMMA Concatenated ==
  ASSUME NEW S, NEW p \in Seq(S), NEW s \in Seq(S)
  PROVE  /\ p \o s \in Seq(S) /\ Len(p \o s) = Len(p) + Len(s)
         /\ \A i \in 1 .. Len(p) : (p \o s)[i] = p[i]
         /\ \A i \in 1 .. Len(s) : (p \o s)[Len(p) + i] = s[i]
  OBVIOUS

\* And of a sequence and one element more.
LEMMA Appended ==
  ASSUME NEW S, NEW q \in Seq(S), NEW e \in S
  PROVE  /\ Append(q, e) \in Seq(S) /\ Len(Append(q, e)) = Len(q) + 1
         /\ \A i \in 1 .. Len(q) : Append(q, e)[i] = q[i]
         /\ Append(q, e)[Len(q) + 1] = e
  OBVIOUS

LEMMA AttachFacts ==
  ASSUME NEW plan \in Seq(Entry), NEW sub \in Seq(Entry), plan # <<>>
  PROVE  LET a == Attach(plan, sub)
             L == Len(plan)
         IN  /\ a \in Seq(Entry) /\ Len(a) = L + Len(sub)
             /\ a[1].name = plan[1].name /\ a[1].need = plan[1].need \cup {L + 1}
             /\ \A i \in 2 .. L : a[i] = plan[i]
             /\ \A i \in 1 .. Len(sub) :
                  /\ a[L + i].name = sub[i].name
                  /\ a[L + i].need = {L + k : k \in sub[i].need}
  <1> DEFINE L == Len(plan)
             p == [plan EXCEPT ![1].need = @ \cup {L + 1}]
             s == Shift(sub, L)
  <1>1. L \in Nat /\ L > 0 /\ 1 \in 1 .. L /\ plan[1] \in Entry
    OBVIOUS
  <1>2. /\ s \in Seq(Entry) /\ Len(s) = Len(sub)
        /\ \A i \in 1 .. Len(sub) :
             s[i].name = sub[i].name /\ s[i].need = {L + k : k \in sub[i].need}
    <2> HIDE DEF L
    <2> QED
      BY <1>1, ShiftFacts
  <1>3. /\ p \in Seq(Entry) /\ Len(p) = L
        /\ p[1].name = plan[1].name /\ p[1].need = plan[1].need \cup {L + 1}
        /\ \A i \in 2 .. L : p[i] = plan[i]
    <2> DEFINE e == [plan[1] EXCEPT !.need = @ \cup {L + 1}]
    <2>1. e \in Entry /\ e.name = plan[1].name /\ e.need = plan[1].need \cup {L + 1}
      BY <1>1 DEF Entry
    <2>2. p = [plan EXCEPT ![1] = e]
      BY <1>1
    <2> HIDE DEF e, p
    <2> QED
      BY <1>1, <2>1, <2>2
  <1>4. Attach(plan, sub) = p \o s
    BY DEF Attach
  <1> HIDE DEF p, s
  <1>5. /\ p \o s \in Seq(Entry) /\ Len(p \o s) = L + Len(sub)
        /\ \A i \in 1 .. L : (p \o s)[i] = p[i]
        /\ \A i \in 1 .. Len(sub) : (p \o s)[L + i] = s[i]
    <2>1. p \in Seq(Entry) /\ s \in Seq(Entry)
      BY <1>2, <1>3
    <2>2. /\ p \o s \in Seq(Entry) /\ Len(p \o s) = Len(p) + Len(s)
          /\ \A i \in 1 .. Len(p) : (p \o s)[i] = p[i]
          /\ \A i \in 1 .. Len(s) : (p \o s)[Len(p) + i] = s[i]
      BY ONLY <2>1, Concatenated
    <2> QED
      BY <2>2, <1>2, <1>3
  <1> DEFINE a == Attach(plan, sub)
  <1>6. a = p \o s
    BY <1>4
  <1> HIDE DEF a, L
  <1>7. /\ a \in Seq(Entry) /\ Len(a) = L + Len(sub)
        /\ a[1].name = plan[1].name /\ a[1].need = plan[1].need \cup {L + 1}
    BY <1>1, <1>3, <1>5, <1>6
  <1>8. \A i \in 2 .. L : a[i] = plan[i]
    BY <1>1, <1>3, <1>5, <1>6
  <1>9. \A i \in 1 .. Len(sub) :
          a[L + i].name = sub[i].name /\ a[L + i].need = {L + k : k \in sub[i].need}
    BY <1>2, <1>5, <1>6
  <1> QED
    BY <1>7, <1>8, <1>9 DEF a, L

\* A plan is a tree of runs for the name n: the first run is its own, a run only needs
\* later ones, and every other run is needed by exactly one.
TreeOf(plan, n) ==
  /\ plan \in Seq(Entry) /\ plan # <<>>
  /\ plan[1].name = n
  /\ \A i \in 1 .. Len(plan) : plan[i].need \subseteq (i + 1) .. Len(plan)
  /\ \A i \in 2 .. Len(plan) :
       \E j \in 1 .. Len(plan) :
         i \in plan[j].need /\ \A k \in 1 .. Len(plan) : i \in plan[k].need => k = j

\* A subtree attached to the root of a tree gives a tree, and so does createTaskRun.
LEMMA AttachedTree ==
  ASSUME NEW n, NEW m, NEW plan, NEW sub, TreeOf(plan, n), TreeOf(sub, m)
  PROVE  TreeOf(Attach(plan, sub), n)
  <1> DEFINE a == Attach(plan, sub)
             L == Len(plan)
             M == Len(sub)
  <1>1. /\ a \in Seq(Entry) /\ Len(a) = L + M
        /\ a[1].name = plan[1].name /\ a[1].need = plan[1].need \cup {L + 1}
        /\ \A i \in 2 .. L : a[i] = plan[i]
        /\ \A i \in 1 .. M :
             a[L + i].name = sub[i].name /\ a[L + i].need = {L + k : k \in sub[i].need}
    BY AttachFacts DEF TreeOf
  <1>2. L \in Nat \ {0} /\ M \in Nat \ {0}
    BY DEF TreeOf
  <1>3. \A i \in 1 .. L : plan[i].need \subseteq (i + 1) .. L
    BY DEF TreeOf
  <1>4. \A i \in 1 .. M : sub[i].need \subseteq (i + 1) .. M
    BY DEF TreeOf
  <1>5. a # <<>> /\ a[1].name = n
    BY <1>1, <1>2 DEF TreeOf
  <1>6. \A i \in 2 .. L :
          \E j \in 1 .. L : i \in plan[j].need /\ \A k \in 1 .. L : i \in plan[k].need => k = j
    BY DEF TreeOf
  <1>7. \A i \in 2 .. M :
          \E j \in 1 .. M : i \in sub[j].need /\ \A k \in 1 .. M : i \in sub[k].need => k = j
    BY DEF TreeOf
  <1> HIDE DEF a, L, M
  <1>8. \A i \in 1 .. L, j \in 1 .. L : i \in a[j].need <=> i \in plan[j].need
    BY <1>1, <1>2
  <1>9. \A i \in 1 .. L, j \in 1 .. M : i \notin a[L + j].need
    <2>1. ASSUME NEW i \in 1 .. L, NEW j \in 1 .. M PROVE i \notin a[L + j].need
      <3>1. sub[j].need \subseteq (j + 1) .. M
        BY <1>4
      <3>2. \A k \in sub[j].need : L + k # i
        BY <1>2, <3>1
      <3> QED
        BY <1>1, <3>2
    <2> QED
      BY <2>1
  <1>10. \A i \in 1 .. M, j \in 1 .. L : L + i \in a[j].need <=> i = 1 /\ j = 1
    <2>1. ASSUME NEW i \in 1 .. M, NEW j \in 1 .. L
          PROVE  L + i \in a[j].need <=> i = 1 /\ j = 1
      <3>1. L + i \notin plan[j].need
        BY <1>2, <1>3
      <3>2. CASE j = 1
        BY <1>1, <1>2, <3>1, <3>2
      <3>3. CASE j # 1
        BY <1>1, <1>2, <3>1, <3>3
      <3> QED
        BY <3>2, <3>3
    <2> QED
      BY <2>1
  <1>11. \A i \in 1 .. M, j \in 1 .. M : L + i \in a[L + j].need <=> i \in sub[j].need
    <2>1. ASSUME NEW i \in 1 .. M, NEW j \in 1 .. M
          PROVE  L + i \in a[L + j].need <=> i \in sub[j].need
      <3>1. sub[j].need \subseteq Nat
        BY <1>2, <1>4
      <3>2. \A k \in sub[j].need : L + k = L + i => k = i
        BY <1>2, <3>1
      <3> QED
        BY <1>1, <3>2
    <2> QED
      BY <2>1
  <1>12. \A i \in 1 .. L + M : i \in 1 .. L \/ \E k \in 1 .. M : i = L + k
    <2>1. ASSUME NEW i \in 1 .. L + M, i \notin 1 .. L PROVE \E k \in 1 .. M : i = L + k
      <3>1. i - L \in 1 .. M /\ i = L + (i - L)
        BY <1>2, <2>1
      <3> QED
        BY <3>1
    <2> QED
      BY <2>1
  <1>13. ASSUME NEW i \in 1 .. Len(a) PROVE a[i].need \subseteq (i + 1) .. Len(a)
    <2>1. CASE i = 1
      <3>1. a[1].need = plan[1].need \cup {L + 1} /\ plan[1].need \subseteq 2 .. L
        BY <1>1, <1>2, <1>3
      <3> QED
        BY <1>1, <1>2, <2>1, <3>1
    <2>2. CASE i \in 2 .. L
      <3>1. a[i].need = plan[i].need /\ plan[i].need \subseteq (i + 1) .. L
        BY <1>1, <1>2, <1>3, <2>2
      <3> QED
        BY <1>1, <1>2, <2>2, <3>1
    <2>3. ASSUME NEW k \in 1 .. M, i = L + k PROVE a[i].need \subseteq (i + 1) .. Len(a)
      <3>1. a[i].need = {L + x : x \in sub[k].need} /\ sub[k].need \subseteq (k + 1) .. M
        BY <1>1, <1>4, <2>3
      <3> QED
        BY <1>1, <1>2, <2>3, <3>1
    <2> QED
      BY <1>1, <1>2, <1>12, <2>1, <2>2, <2>3
  <1>14. ASSUME NEW i \in 2 .. Len(a)
         PROVE  \E j \in 1 .. Len(a) :
                  i \in a[j].need /\ \A k \in 1 .. Len(a) : i \in a[k].need => k = j
    <2>1. CASE i \in 1 .. L
      <3>1. PICK j \in 1 .. L : i \in plan[j].need /\ \A k \in 1 .. L : i \in plan[k].need => k = j
        BY <1>2, <1>6, <2>1
      <3>2. j \in 1 .. Len(a) /\ i \in a[j].need
        BY <1>1, <1>2, <1>8, <2>1, <3>1
      <3>3. ASSUME NEW k \in 1 .. Len(a), i \in a[k].need PROVE k = j
        BY <1>1, <1>8, <1>9, <1>12, <2>1, <3>1, <3>3
      <3> QED
        BY <3>2, <3>3
    <2>2. CASE i = L + 1
      <3>1. 1 \in 1 .. Len(a) /\ i \in a[1].need
        BY <1>1, <1>2, <2>2
      <3>2. \A k \in 1 .. M : 1 \notin sub[k].need
        BY <1>2, <1>4
      <3>3. ASSUME NEW k \in 1 .. Len(a), i \in a[k].need PROVE k = 1
        <4>1. 1 \in 1 .. M
          BY <1>2
        <4>2. CASE k \in 1 .. L
          BY <1>10, <2>2, <3>3, <4>1, <4>2
        <4>3. ASSUME NEW y \in 1 .. M, k = L + y PROVE FALSE
          BY <1>11, <2>2, <3>2, <3>3, <4>1, <4>3
        <4> QED
          BY <1>1, <1>12, <4>2, <4>3
      <3> QED
        BY <3>1, <3>3
    <2>3. ASSUME NEW x \in 2 .. M, i = L + x
          PROVE  \E j \in 1 .. Len(a) :
                   i \in a[j].need /\ \A k \in 1 .. Len(a) : i \in a[k].need => k = j
      <3>1. PICK j \in 1 .. M : x \in sub[j].need /\ \A k \in 1 .. M : x \in sub[k].need => k = j
        BY <1>7, <2>3
      <3>2. L + j \in 1 .. Len(a) /\ i \in a[L + j].need
        BY <1>1, <1>2, <1>11, <2>3, <3>1
      <3>3. ASSUME NEW k \in 1 .. Len(a), i \in a[k].need PROVE k = L + j
        <4>1. x \in 1 .. M /\ x # 1
          BY <1>2
        <4>2. k \notin 1 .. L
          BY <1>10, <2>3, <3>3, <4>1
        <4>3. PICK y \in 1 .. M : k = L + y
          BY <1>1, <1>12, <4>2
        <4>4. y = j
          BY <1>11, <2>3, <3>1, <3>3, <4>1, <4>3
        <4> QED
          BY <4>3, <4>4
      <3> QED
        BY <3>2, <3>3
    <2> QED
      BY <1>1, <1>2, <1>12, <2>1, <2>2, <2>3
  <1> QED
    BY <1>1, <1>5, <1>13, <1>14 DEF TreeOf, a

\* Grown runs through the subtrees.
LEMMA GrownUnfolds ==
  ASSUME NEW n \in Names, NEW subtrees \in Seq(Seq(Entry))
  PROVE  \E plan \in [0 .. Len(subtrees) -> Seq(Entry)] :
           /\ plan[0] = << [name |-> n, need |-> {}] >>
           /\ \A k \in 1 .. Len(subtrees) : plan[k] = Attach(plan[k - 1], subtrees[k])
           /\ Grown(n, subtrees) = plan[Len(subtrees)]
  <1> DEFINE V == Seq(Entry)
             N == Len(subtrees)
             v == << [name |-> n, need |-> {}] >>
             step == [k \in Nat |-> [p \in V |->
                        IF k \in 1 .. N /\ p # <<>> THEN Attach(p, subtrees[k]) ELSE v]]
             Rule(g) == [k \in 0 .. N |-> IF k = 0 THEN v ELSE Attach(g[k - 1], subtrees[k])]
  <1>1. N \in Nat /\ v \in V /\ v # <<>>
    BY DEF Entry
  <1>2. \A p \in V, k \in 1 .. N :
          p # <<>> => Attach(p, subtrees[k]) \in V /\ Attach(p, subtrees[k]) # <<>>
    <2>1. ASSUME NEW p \in V, NEW k \in 1 .. N, p # <<>>
          PROVE  Attach(p, subtrees[k]) \in V /\ Attach(p, subtrees[k]) # <<>>
      <3>1. subtrees[k] \in Seq(Entry)
        OBVIOUS
      <3>2. Attach(p, subtrees[k]) \in Seq(Entry)
            /\ Len(Attach(p, subtrees[k])) = Len(p) + Len(subtrees[k])
        BY <2>1, <3>1, AttachFacts
      <3>3. Len(p) > 0 /\ Len(p) \in Nat /\ Len(subtrees[k]) \in Nat
        BY <2>1, <3>1
      <3> DEFINE a == Attach(p, subtrees[k])
      <3> HIDE DEF a
      <3>4. Len(a) > 0 /\ a \in Seq(Entry)
        BY <3>2, <3>3 DEF a
      <3>5. a # <<>>
        BY <3>4
      <3> QED
        BY <3>4, <3>5 DEF a
    <2> QED
      BY <2>1
  <1> HIDE DEF V, N, v
  <1>3. step \in [Nat -> [V -> V]]
    BY <1>1, <1>2
  <1>4. \E f : Iterates(f, N, V, v, step)
    <2> HIDE DEF step
    <2> QED
      BY <1>1, <1>3, Recursion
  <1>5. PICK f \in [0 .. N -> V] : f[0] = v /\ \A k \in 1 .. N : f[k] = step[k][f[k - 1]]
    BY <1>4 DEF Iterates
  <1>6. ASSUME NEW k \in 1 .. N, f[k - 1] # <<>> PROVE f[k] = Attach(f[k - 1], subtrees[k])
    <2>1. k \in Nat /\ f[k - 1] \in V
      BY <1>1
    <2>2. step[k][f[k - 1]] = Attach(f[k - 1], subtrees[k])
      BY <1>6, <2>1
    <2> QED
      BY <1>5, <2>2
  <1>7. \A k \in 0 .. N : f[k] # <<>>
    <2> DEFINE T == {k \in 0 .. N : f[k] # <<>>}
    <2>1. 0 \in T
      BY <1>1, <1>5
    <2>2. \A k \in 1 .. N : k - 1 \in T => k \in T
      BY <1>1, <1>2, <1>6
    <2>3. \A k \in 0 .. N : k \in T
      <3> HIDE DEF T
      <3> QED
        BY <1>1, <2>1, <2>2, UpTo
    <2> QED
      BY <2>3
  <1>8. \A k \in 1 .. N : f[k] = Attach(f[k - 1], subtrees[k])
    BY <1>1, <1>6, <1>7
  <1>9. f = Rule(f)
    BY <1>1, <1>5, <1>8
  <1> DEFINE g == CHOOSE h : h = Rule(h)
  <1>10. g = Rule(g)
    BY <1>9
  <1>11. Grown(n, subtrees) = g[N]
    BY DEF Grown, N, v
  <1> HIDE DEF g
  <1>12. g[0] = v /\ \A k \in 1 .. N : g[k] = Attach(g[k - 1], subtrees[k])
    BY <1>1, <1>10
  <1>13. \A k \in 0 .. N : k \in {i \in 0 .. N : g[i] = f[i]}
    <2> DEFINE T == {i \in 0 .. N : g[i] = f[i]}
    <2>1. 0 \in T
      BY <1>1, <1>5, <1>12
    <2>2. \A k \in 1 .. N : k - 1 \in T => k \in T
      BY <1>8, <1>12
    <2> HIDE DEF T
    <2> QED
      BY <1>1, <2>1, <2>2, UpTo DEF T
  <1>14. N \in 0 .. N /\ g[N] = f[N]
    BY <1>1, <1>13
  <1> QED
    BY <1>5, <1>8, <1>11, <1>14 DEF N, V, v

LEMMA GrownTree ==
  ASSUME NEW n \in Names, NEW subtrees \in Seq(Seq(Entry)),
         \A k \in 1 .. Len(subtrees) : \E m : TreeOf(subtrees[k], m)
  PROVE  TreeOf(Grown(n, subtrees), n)
  <1> DEFINE N == Len(subtrees)
  <1>1. N \in Nat
    OBVIOUS
  <1>2. PICK plan \in [0 .. N -> Seq(Entry)] :
          /\ plan[0] = << [name |-> n, need |-> {}] >>
          /\ \A k \in 1 .. N : plan[k] = Attach(plan[k - 1], subtrees[k])
          /\ Grown(n, subtrees) = plan[N]
    BY GrownUnfolds
  <1> HIDE DEF N
  <1> DEFINE T == {k \in 0 .. N : TreeOf(plan[k], n)}
  <1>3. 0 \in T
    <2> DEFINE root == << [name |-> n, need |-> {}] >>
    <2>1. TreeOf(root, n)
      BY DEF TreeOf, Entry
    <2>2. plan[0] = root
      BY <1>2
    <2> HIDE DEF root
    <2> QED
      BY <1>1, <2>1, <2>2
  <1>4. ASSUME NEW k \in 1 .. N, k - 1 \in T PROVE k \in T
    <2>1. PICK m : TreeOf(subtrees[k], m)
      BY DEF N
    <2>2. TreeOf(Attach(plan[k - 1], subtrees[k]), n)
      BY <1>4, <2>1, AttachedTree
    <2> QED
      BY <1>1, <1>2, <2>2
  <1>5. \A k \in 0 .. N : k \in T
    <2> HIDE DEF T
    <2> QED
      BY <1>1, <1>3, <1>4, UpTo
  <1> QED
    BY <1>1, <1>2, <1>5

\* What createTaskRun expands under a name.
Kids(n) == subs[n] \o deps[n]

Subtrees(plans, n) == [k \in 1 .. Len(Kids(n)) |-> plans[Kids(n)[k]]]

Plain == [Names -> Seq(Entry)]

LEMMA SubtreesType ==
  ASSUME BindingsTypeOK, NEW plans \in Plain, NEW n \in Names
  PROVE  /\ Kids(n) \in Seq(Names)
         /\ Subtrees(plans, n) \in Seq(Seq(Entry)) /\ Len(Subtrees(plans, n)) = Len(Kids(n))
         /\ \A k \in 1 .. Len(Kids(n)) :
              Kids(n)[k] \in Names /\ Subtrees(plans, n)[k] = plans[Kids(n)[k]]
  <1>1. Kids(n) \in Seq(Names)
    <2>1. subs[n] \in Seq(Names) /\ deps[n] \in Seq(Names)
      BY DEF BindingsTypeOK
    <2> QED
      BY <2>1, Concatenated DEF Kids
  <1> DEFINE kids == Kids(n)
  <1>2. kids \in Seq(Names) /\ \A k \in 1 .. Len(kids) : kids[k] \in Names
    BY <1>1
  <1> HIDE DEF kids
  <1>3. Subtrees(plans, n) = [k \in 1 .. Len(kids) |-> plans[kids[k]]]
    BY DEF Subtrees, kids
  <1>4. [k \in 1 .. Len(kids) |-> plans[kids[k]]] \in [1 .. Len(kids) -> Seq(Entry)]
    BY <1>2 DEF Plain
  <1>5. Subtrees(plans, n) \in Seq(Seq(Entry)) /\ Len(Subtrees(plans, n)) = Len(kids)
    BY <1>2, <1>3, <1>4
  <1> QED
    BY <1>2, <1>3, <1>5 DEF kids

LEMMA GrownType ==
  ASSUME NEW n \in Names, NEW subtrees \in Seq(Seq(Entry))
  PROVE  Grown(n, subtrees) \in Seq(Entry)
  <1>1. Len(subtrees) \in 0 .. Len(subtrees)
    OBVIOUS
  <1>2. PICK plan \in [0 .. Len(subtrees) -> Seq(Entry)] : Grown(n, subtrees) = plan[Len(subtrees)]
    BY GrownUnfolds
  <1> QED
    BY <1>1, <1>2

\* create runs through the depths.
LEMMA ExpansionUnfolds ==
  ASSUME BindingsTypeOK
  PROVE  \E create \in [0 .. Cardinality(Names) -> Plain] :
           /\ \A n \in Names : create[0][n] = <<>>
           /\ \A d \in 1 .. Cardinality(Names), n \in Names :
                create[d][n] = Grown(n, Subtrees(create[d - 1], n))
           /\ Plans = create[Cardinality(Names)]
  <1> DEFINE N == Cardinality(Names)
             v == [n \in Names |-> <<>>]
             step == [d \in Nat |-> [p \in Plain |-> [n \in Names |-> Grown(n, Subtrees(p, n))]]]
             Rule(g) == [d \in 0 .. N |->
                          IF d = 0 THEN v
                          ELSE [n \in Names |-> Grown(n, Subtrees(g[d - 1], n))]]
  <1>1. N \in Nat
    BY BindingsAssumption, FS_CardinalityType
  <1>2. v \in Plain
    BY DEF Plain
  <1>3. ASSUME NEW p \in Plain PROVE [n \in Names |-> Grown(n, Subtrees(p, n))] \in Plain
    <2>1. \A n \in Names : Grown(n, Subtrees(p, n)) \in Seq(Entry)
      BY SubtreesType, GrownType
    <2> QED
      BY <2>1 DEF Plain
  <1> HIDE DEF N, v
  <1>4. step \in [Nat -> [Plain -> Plain]]
    BY <1>3
  <1>5. \E f : Iterates(f, N, Plain, v, step)
    <2> HIDE DEF step
    <2> QED
      BY <1>1, <1>2, <1>4, Recursion
  <1>6. PICK f : Iterates(f, N, Plain, v, step)
    BY <1>5
  <1>7. f \in [0 .. N -> Plain] /\ f[0] = v /\ \A d \in 1 .. N : f[d] = step[d][f[d - 1]]
    <2> HIDE DEF step
    <2> QED
      BY <1>6 DEF Iterates
  <1>8. ASSUME NEW d \in 1 .. N
        PROVE  f[d] = [n \in Names |-> Grown(n, Subtrees(f[d - 1], n))]
    <2>1. d \in Nat /\ f[d - 1] \in Plain
      BY <1>1, <1>7
    <2> QED
      BY <1>7, <2>1
  <1>9. f = Rule(f)
    <2>1. ASSUME NEW d \in 0 .. N PROVE f[d] = Rule(f)[d]
      <3>1. CASE d = 0
        BY <1>7, <3>1
      <3>2. CASE d # 0
        <4>1. d \in 1 .. N
          BY <1>1, <3>2
        <4> QED
          BY <1>8, <3>2, <4>1
      <3> QED
        BY <3>1, <3>2
    <2>2. f = [d \in 0 .. N |-> f[d]] /\ Rule(f) = [d \in 0 .. N |-> Rule(f)[d]]
      BY <1>7
    <2> HIDE DEF Rule
    <2> QED
      BY <2>1, <2>2
  <1> DEFINE g == CHOOSE h : h = Rule(h)
  <1>10. g = Rule(g)
    BY <1>9
  <1>11. Plans = g[N]
    BY DEF Plans, Expansion, Subtrees, Kids, N, v
  <1> HIDE DEF g
  <1>12. g[0] = v
    BY <1>1, <1>10
  <1>13. ASSUME NEW d \in 1 .. N
         PROVE  g[d] = [n \in Names |-> Grown(n, Subtrees(g[d - 1], n))]
    <2>1. d \in 0 .. N /\ d # 0
      BY <1>1
    <2>2. Rule(g)[d] = [n \in Names |-> Grown(n, Subtrees(g[d - 1], n))]
      BY <2>1
    <2> HIDE DEF Rule
    <2> QED
      BY <1>10, <2>2
  <1>14. \A k \in 0 .. N : g[k] = f[k]
    <2> DEFINE T == {k \in 0 .. N : g[k] = f[k]}
    <2>1. 0 \in T
      BY <1>1, <1>7, <1>12
    <2>2. ASSUME NEW k \in 1 .. N, k - 1 \in T PROVE k \in T
      <3>1. g[k - 1] = f[k - 1]
        BY <2>2
      <3>2. g[k] = [n \in Names |-> Grown(n, Subtrees(g[k - 1], n))]
        BY <1>13
      <3>3. f[k] = [n \in Names |-> Grown(n, Subtrees(f[k - 1], n))]
        BY <1>8
      <3>4. g[k] = f[k]
        BY <3>1, <3>2, <3>3
      <3> QED
        BY <1>1, <3>4
    <2>3. \A k \in 0 .. N : k \in T
      <3> HIDE DEF T
      <3> QED
        BY <1>1, <2>1, <2>2, UpTo
    <2> QED
      BY <2>3
  <1>15. Plans = f[N]
    BY <1>1, <1>11, <1>14
  <1>16. \A d \in 1 .. N, n \in Names : f[d][n] = Grown(n, Subtrees(f[d - 1], n))
    BY <1>8
  <1> QED
    BY <1>7, <1>15, <1>16 DEF N, v

\* The bindings lead to names of higher rank.
Upward ==
  \A n \in Names :
    /\ \A i \in 1 .. Len(subs[n]) : Rank[n] < Rank[subs[n][i]]
    /\ \A i \in 1 .. Len(deps[n]) : Rank[n] < Rank[deps[n][i]]

LEMMA KidsAbove ==
  ASSUME BindingsTypeOK, Upward, NEW n \in Names, NEW k \in 1 .. Len(Kids(n))
  PROVE  Kids(n)[k] \in Names /\ Rank[n] < Rank[Kids(n)[k]]
  <1> DEFINE p == subs[n]
             s == deps[n]
  <1>1. p \in Seq(Names) /\ s \in Seq(Names)
    BY DEF BindingsTypeOK
  <1>2. /\ \A i \in 1 .. Len(p) : Rank[n] < Rank[p[i]]
        /\ \A i \in 1 .. Len(s) : Rank[n] < Rank[s[i]]
    BY DEF Upward
  <1>3. Kids(n) = p \o s
    BY DEF Kids
  <1> HIDE DEF p, s
  <1>4. /\ p \o s \in Seq(Names) /\ Len(p \o s) = Len(p) + Len(s)
        /\ \A i \in 1 .. Len(p) : (p \o s)[i] = p[i]
        /\ \A i \in 1 .. Len(s) : (p \o s)[Len(p) + i] = s[i]
    BY ONLY <1>1, Concatenated
  <1>5. Len(p) \in Nat /\ Len(s) \in Nat
    BY <1>1
  <1>6. CASE k \in 1 .. Len(p)
    BY <1>1, <1>2, <1>3, <1>4, <1>6
  <1>7. CASE k \notin 1 .. Len(p)
    <2>1. k - Len(p) \in 1 .. Len(s) /\ Len(p) + (k - Len(p)) = k
      BY <1>3, <1>4, <1>5, <1>7
    <2>2. (p \o s)[k] = s[k - Len(p)]
      BY <1>4, <2>1
    <2> QED
      BY <1>1, <1>2, <1>3, <2>1, <2>2
  <1> QED
    BY <1>6, <1>7

\* How deep the tree of a name can be at most: as many names as are not below it.
Above(n) == {m \in Names : Rank[n] <= Rank[m]}

LEMMA Heights ==
  /\ Cardinality(Names) \in Nat
  /\ \A n \in Names :
       Cardinality(Above(n)) \in 1 .. Cardinality(Names)
  /\ \A n \in Names, m \in Names :
       Rank[n] < Rank[m] => Cardinality(Above(m)) < Cardinality(Above(n))
  <1>1. Cardinality(Names) \in Nat
    BY BindingsAssumption, FS_CardinalityType
  <1>2. ASSUME NEW n \in Names
        PROVE  /\ IsFiniteSet(Above(n)) /\ n \in Above(n)
               /\ Cardinality(Above(n)) \in 1 .. Cardinality(Names)
    <2>1. Above(n) \subseteq Names /\ n \in Above(n)
      BY BindingsAssumption DEF Above
    <2>2. /\ IsFiniteSet(Above(n)) /\ Cardinality(Above(n)) <= Cardinality(Names)
          /\ Cardinality(Above(n)) \in Nat
      BY <2>1, BindingsAssumption, FS_Subset, FS_CardinalityType
    <2>3. Cardinality(Above(n)) # 0
      BY <2>1, <2>2, FS_EmptySet
    <2> QED
      BY <1>1, <2>1, <2>2, <2>3
  <1>3. ASSUME NEW n \in Names, NEW m \in Names, Rank[n] < Rank[m]
        PROVE  Cardinality(Above(m)) < Cardinality(Above(n))
    <2>1. Above(m) \subseteq Above(n) /\ n \notin Above(m)
      BY <1>3, BindingsAssumption DEF Above
    <2>2. Above(m) # Above(n)
      BY <1>2, <2>1
    <2> QED
      BY <1>2, <2>1, <2>2, FS_Subset
  <1> QED
    BY <1>1, <1>2, <1>3

\* A shifted set has as many elements.
LEMMA ShiftedCount ==
  ASSUME NEW A, A \subseteq Nat, IsFiniteSet(A), NEW b \in Nat
  PROVE  LET B == {b + i : i \in A} IN IsFiniteSet(B) /\ Cardinality(B) = Cardinality(A)
  <1> DEFINE B == {b + i : i \in A}
             f == [i \in A |-> b + i]
  <1>1. f \in [A -> B]
    OBVIOUS
  <1>2. \A i \in A, j \in A : f[i] = f[j] => i = j
    OBVIOUS
  <1>3. \A x \in B : \E i \in A : f[i] = x
    OBVIOUS
  <1> HIDE DEF f, B
  <1>4. f \in Bijection(A, B)
    BY <1>1, <1>2, <1>3 DEF Bijection, Injection, Surjection, IsInjective
  <1>5. ExistsBijection(A, B)
    BY <1>4 DEF ExistsBijection
  <1> QED
    BY <1>5, FS_Bijection DEF B

\* The names of the runs that the i-th run of a plan needs.
Needed(plan, i) == {plan[j].name : j \in plan[i].need}

\* The i-th run needs one run of each of the names.
NeedsOneOfEach(plan, i, names) ==
  /\ IsFiniteSet(plan[i].need)
  /\ Cardinality(plan[i].need) = Len(names)
  /\ Needed(plan, i) = {names[k] : k \in 1 .. Len(names)}

\* From the run i on, each one needs what is bound to its name.
FollowsFrom(plan, first) ==
  \A i \in first .. Len(plan) : NeedsOneOfEach(plan, i, Kids(plan[i].name))

\* A shifted run needs the same names.
LEMMA ShiftedNeeds ==
  ASSUME NEW plan, NEW sub, NEW b \in Nat, NEW i, NEW j, NEW names,
         plan[i].need = {b + k : k \in sub[j].need},
         sub[j].need \subseteq Nat,
         \A k \in sub[j].need : plan[b + k].name = sub[k].name,
         NeedsOneOfEach(sub, j, names)
  PROVE  NeedsOneOfEach(plan, i, names)
  <1> DEFINE A == sub[j].need
             B == {b + k : k \in A}
  <1>1. IsFiniteSet(A) /\ A \subseteq Nat
    BY DEF NeedsOneOfEach
  <1> HIDE DEF A
  <1>2. IsFiniteSet(B) /\ Cardinality(B) = Cardinality(A)
    BY <1>1, ShiftedCount
  <1>3. Needed(plan, i) = Needed(sub, j)
    BY DEF Needed
  <1>4. plan[i].need = B
    BY DEF A
  <1> HIDE DEF B
  <1> QED
    BY <1>2, <1>3, <1>4 DEF NeedsOneOfEach, A

\* A tree attached to a root that has the needs of the names so far: the root then needs
\* one run of the next name too, and the other runs what they needed.
LEMMA AttachedNeeds ==
  ASSUME BindingsTypeOK, NEW plan, NEW sub, NEW n \in Names, NEW m \in Names,
         NEW names \in Seq(Names),
         TreeOf(plan, n), TreeOf(sub, m),
         NeedsOneOfEach(plan, 1, names), FollowsFrom(plan, 2), FollowsFrom(sub, 1)
  PROVE  /\ NeedsOneOfEach(Attach(plan, sub), 1, Append(names, m))
         /\ FollowsFrom(Attach(plan, sub), 2)
  <1> DEFINE a == Attach(plan, sub)
             L == Len(plan)
             M == Len(sub)
  <1>1. /\ plan \in Seq(Entry) /\ sub \in Seq(Entry) /\ plan # <<>> /\ sub # <<>>
        /\ \A i \in 1 .. L : plan[i].need \subseteq (i + 1) .. L
        /\ \A i \in 1 .. M : sub[i].need \subseteq (i + 1) .. M
        /\ sub[1].name = m
    BY DEF TreeOf
  <1>2. /\ Len(a) = L + M
        /\ a[1].name = plan[1].name /\ a[1].need = plan[1].need \cup {L + 1}
        /\ \A i \in 2 .. L : a[i] = plan[i]
        /\ \A i \in 1 .. M : /\ a[L + i].name = sub[i].name
                             /\ a[L + i].need = {L + k : k \in sub[i].need}
    BY <1>1, AttachFacts
  <1>3. L \in Nat /\ L > 0 /\ M \in Nat /\ M > 0
    BY <1>1
  <1> HIDE DEF a, L, M
  <1>4. NeedsOneOfEach(a, 1, Append(names, m))
    <2> DEFINE A == plan[1].need
               q == Append(names, m)
    <2>1. /\ IsFiniteSet(A) /\ Cardinality(A) = Len(names)
          /\ Needed(plan, 1) = {names[k] : k \in 1 .. Len(names)}
      BY DEF NeedsOneOfEach
    <2>2. A \subseteq 2 .. L
      BY <1>1, <1>3
    <2>3. /\ q \in Seq(Names) /\ Len(q) = Len(names) + 1
          /\ \A i \in 1 .. Len(names) : q[i] = names[i]
          /\ q[Len(names) + 1] = m
      BY Appended
    <2>4. Len(names) \in Nat
      OBVIOUS
    <2> HIDE DEF A, q
    <2>5. L + 1 \notin A
      BY <1>3, <2>2
    <2>6. IsFiniteSet(A \cup {L + 1}) /\ Cardinality(A \cup {L + 1}) = Cardinality(A) + 1
      BY <2>1, <2>5, FS_AddElement
    <2>7. a[1].need = A \cup {L + 1}
      BY <1>2 DEF A
    <2>8. {q[k] : k \in 1 .. Len(q)} = {names[k] : k \in 1 .. Len(names)} \cup {m}
      <3>1. ASSUME NEW k \in 1 .. Len(q)
            PROVE  q[k] \in {names[i] : i \in 1 .. Len(names)} \cup {m}
        <4>1. k \in 1 .. Len(names) \/ k = Len(names) + 1
          BY <2>3, <2>4
        <4> QED
          BY <2>3, <4>1
      <3>2. ASSUME NEW k \in 1 .. Len(names)
            PROVE  names[k] \in {q[i] : i \in 1 .. Len(q)}
        <4>1. k \in 1 .. Len(q) /\ q[k] = names[k]
          BY <2>3, <2>4
        <4> QED
          BY <4>1
      <3>3. m \in {q[i] : i \in 1 .. Len(q)}
        <4>1. Len(names) + 1 \in 1 .. Len(q)
          BY <2>3, <2>4
        <4> QED
          BY <2>3, <4>1
      <3> QED
        BY <3>1, <3>2, <3>3
    <2>9. Needed(a, 1) = Needed(plan, 1) \cup {m}
      <3>1. \A j \in A : a[j].name = plan[j].name
        BY <1>2, <2>2
      <3>2. a[L + 1].name = m
        BY <1>1, <1>2, <1>3
      <3>3. Needed(a, 1) = {a[j].name : j \in A \cup {L + 1}}
        BY <2>7 DEF Needed
      <3>4. Needed(plan, 1) = {plan[j].name : j \in A}
        BY DEF Needed, A
      <3> QED
        BY <3>1, <3>2, <3>3, <3>4
    <2> QED
      BY <2>1, <2>3, <2>6, <2>7, <2>8, <2>9 DEF NeedsOneOfEach, q
  <1>5. ASSUME NEW i \in 2 .. Len(a) PROVE NeedsOneOfEach(a, i, Kids(a[i].name))
    <2>1. CASE i \in 2 .. L
      <3>1. a[i] = plan[i] /\ NeedsOneOfEach(plan, i, Kids(plan[i].name))
        BY <1>2, <2>1 DEF FollowsFrom, L
      <3>2. plan[i].need \subseteq 2 .. L
        BY <1>1, <1>3, <2>1
      <3>3. \A j \in plan[i].need : a[j] = plan[j]
        BY <1>2, <3>2
      <3>4. Needed(a, i) = Needed(plan, i)
        BY <3>1, <3>3 DEF Needed
      <3> QED
        BY <3>1, <3>4 DEF NeedsOneOfEach
    <2>2. CASE i \notin 2 .. L
      <3>1. i - L \in 1 .. M /\ L + (i - L) = i
        BY <1>2, <1>3, <2>2
      <3> DEFINE j == i - L
      <3>2. /\ a[i].name = sub[j].name
            /\ a[i].need = {L + k : k \in sub[j].need}
        BY <1>2, <3>1
      <3>3. sub[j].need \subseteq 1 .. M /\ sub[j].need \subseteq Nat
        BY <1>1, <1>3, <3>1
      <3>4. \A k \in sub[j].need : a[L + k].name = sub[k].name
        BY <1>2, <3>3
      <3>5. NeedsOneOfEach(sub, j, Kids(sub[j].name))
        BY <3>1 DEF FollowsFrom, M
      <3> HIDE DEF j
      <3>6. NeedsOneOfEach(a, i, Kids(sub[j].name))
        BY <1>3, <3>2, <3>3, <3>4, <3>5, ShiftedNeeds
      <3> QED
        BY <3>2, <3>6
    <2> QED
      BY <2>1, <2>2
  <1> QED
    BY <1>4, <1>5 DEF FollowsFrom, a

\* What createTaskRun builds from complete subtrees of the names bound to n is complete.
LEMMA GrownNeeds ==
  ASSUME BindingsTypeOK, NEW n \in Names, NEW subtrees \in Seq(Seq(Entry)),
         Len(subtrees) = Len(Kids(n)),
         \A k \in 1 .. Len(subtrees) :
           /\ Kids(n)[k] \in Names
           /\ TreeOf(subtrees[k], Kids(n)[k])
           /\ FollowsFrom(subtrees[k], 1)
  PROVE  FollowsFrom(Grown(n, subtrees), 1)
  <1> DEFINE N == Len(subtrees)
             kids == Kids(n)
             First(k) == SubSeq(kids, 1, k)
  <1>1. N \in Nat
    OBVIOUS
  <1>2. PICK plan \in [0 .. N -> Seq(Entry)] :
          /\ plan[0] = << [name |-> n, need |-> {}] >>
          /\ \A k \in 1 .. N : plan[k] = Attach(plan[k - 1], subtrees[k])
          /\ Grown(n, subtrees) = plan[N]
    BY GrownUnfolds
  <1>3. kids \in Seq(Names) /\ Len(kids) = N
    <2>1. subs[n] \in Seq(Names) /\ deps[n] \in Seq(Names)
      BY DEF BindingsTypeOK
    <2> QED
      BY <2>1, Concatenated DEF Kids
  <1>4. /\ \A k \in 0 .. N : First(k) \in Seq(Names)
        /\ First(0) = <<>> /\ First(N) = kids
        /\ \A k \in 1 .. N : First(k) = Append(First(k - 1), kids[k])
    <2> HIDE DEF kids, N
    <2>1. \A k \in 0 .. N : First(k) \in Seq(Names)
      BY <1>1, <1>3
    <2>2. First(0) = <<>> /\ First(N) = kids
      BY <1>1, <1>3
    <2>3. \A k \in 1 .. N : First(k) = Append(First(k - 1), kids[k])
      BY <1>1, <1>3
    <2> QED
      BY <2>1, <2>2, <2>3
  <1>5. \A k \in 1 .. N : /\ kids[k] \in Names
                          /\ TreeOf(subtrees[k], kids[k])
                          /\ FollowsFrom(subtrees[k], 1)
    OBVIOUS
  <1> HIDE DEF N, kids, First
  <1> DEFINE T == {k \in 0 .. N : /\ TreeOf(plan[k], n)
                                  /\ NeedsOneOfEach(plan[k], 1, First(k))
                                  /\ FollowsFrom(plan[k], 2)}
  <1>6. 0 \in T
    <2> DEFINE root == << [name |-> n, need |-> {}] >>
    <2>1. TreeOf(root, n) /\ Len(root) = 1 /\ root[1].need = {}
      BY DEF TreeOf, Entry
    <2>2. plan[0] = root
      BY <1>2
    <2> HIDE DEF root
    <2>3. FollowsFrom(root, 2)
      BY <2>1 DEF FollowsFrom
    <2>4. {First(0)[k] : k \in 1 .. Len(First(0))} = {} /\ Len(First(0)) = 0
      BY <1>4
    <2>5. NeedsOneOfEach(root, 1, First(0))
      BY <2>1, <2>4, FS_EmptySet DEF NeedsOneOfEach, Needed
    <2> QED
      BY <1>1, <2>1, <2>2, <2>3, <2>5
  <1>7. ASSUME NEW k \in 1 .. N, k - 1 \in T PROVE k \in T
    <2>1. /\ TreeOf(plan[k - 1], n)
          /\ NeedsOneOfEach(plan[k - 1], 1, First(k - 1))
          /\ FollowsFrom(plan[k - 1], 2)
      BY <1>7
    <2>2. k - 1 \in 0 .. N /\ k \in 0 .. N
      BY <1>1
    <2>3. TreeOf(Attach(plan[k - 1], subtrees[k]), n)
      BY <1>5, <2>1, AttachedTree
    <2>4. /\ NeedsOneOfEach(Attach(plan[k - 1], subtrees[k]), 1, Append(First(k - 1), kids[k]))
          /\ FollowsFrom(Attach(plan[k - 1], subtrees[k]), 2)
      BY <1>4, <1>5, <2>1, <2>2, AttachedNeeds
    <2> QED
      BY <1>2, <1>4, <2>2, <2>3, <2>4
  <1>8. \A k \in 0 .. N : k \in T
    <2> HIDE DEF T
    <2> QED
      BY <1>1, <1>6, <1>7, UpTo
  <1>9. TreeOf(plan[N], n) /\ NeedsOneOfEach(plan[N], 1, kids) /\ FollowsFrom(plan[N], 2)
    BY <1>1, <1>4, <1>8
  <1> DEFINE p == plan[N]
  <1>10. p[1].name = n /\ Len(p) \in Nat
    BY <1>9 DEF TreeOf
  <1> HIDE DEF p
  <1>11. ASSUME NEW i \in 1 .. Len(p) PROVE NeedsOneOfEach(p, i, Kids(p[i].name))
    <2>1. CASE i = 1
      BY <1>9, <1>10, <2>1 DEF p, kids
    <2>2. CASE i # 1
      <3>1. i \in 2 .. Len(p)
        BY <1>10, <2>2
      <3> QED
        BY <1>9, <3>1 DEF p, FollowsFrom
    <2> QED
      BY <2>1, <2>2
  <1> QED
    BY <1>2, <1>11 DEF p, FollowsFrom

\* Below a name there are only names of higher rank: a tree is complete at the depth its
\* name needs.
LEMMA PlanFollows ==
  ASSUME BindingsTypeOK, Upward, NEW n \in Names
  PROVE  TreeOf(Plans[n], n) /\ FollowsFrom(Plans[n], 1)
  <1> DEFINE N == Cardinality(Names)
             H(x) == Cardinality(Above(x))
  <1>1. PICK create \in [0 .. N -> Plain] :
          /\ \A d \in 1 .. N, x \in Names : create[d][x] = Grown(x, Subtrees(create[d - 1], x))
          /\ Plans = create[N]
    BY ExpansionUnfolds
  <1>2. /\ N \in Nat
        /\ \A x \in Names : H(x) \in 1 .. N
        /\ \A x \in Names, y \in Names : Rank[x] < Rank[y] => H(y) < H(x)
    BY Heights
  <1> HIDE DEF N, H
  <1> DEFINE Complete(d, x) == TreeOf(create[d][x], x) /\ FollowsFrom(create[d][x], 1)
             T == {d \in 0 .. N : \A x \in Names : H(x) <= d => Complete(d, x)}
  <1>3. 0 \in T
    BY <1>2
  <1>4. ASSUME NEW d \in 1 .. N, d - 1 \in T PROVE d \in T
    <2>1. SUFFICES ASSUME NEW x \in Names, H(x) <= d PROVE Complete(d, x)
      BY <1>2
    <2>2. create[d - 1] \in Plain
      BY <1>2
    <2> DEFINE s == Subtrees(create[d - 1], x)
    <2>3. /\ s \in Seq(Seq(Entry)) /\ Len(s) = Len(Kids(x))
          /\ \A k \in 1 .. Len(s) : s[k] = create[d - 1][Kids(x)[k]]
      BY <2>2, SubtreesType
    <2> HIDE DEF s
    <2>4. ASSUME NEW k \in 1 .. Len(s)
          PROVE  /\ Kids(x)[k] \in Names
                 /\ TreeOf(s[k], Kids(x)[k]) /\ FollowsFrom(s[k], 1)
      <3>1. Kids(x)[k] \in Names /\ Rank[x] < Rank[Kids(x)[k]]
        BY <2>3, KidsAbove
      <3>2. H(Kids(x)[k]) <= d - 1
        BY <1>2, <2>1, <3>1
      <3> QED
        BY <1>4, <2>3, <3>1, <3>2
    <2>5. TreeOf(Grown(x, s), x)
      BY <2>3, <2>4, GrownTree
    <2>6. FollowsFrom(Grown(x, s), 1)
      BY <2>3, <2>4, GrownNeeds
    <2> QED
      BY <1>1, <2>5, <2>6 DEF s
  <1>5. \A d \in 0 .. N : d \in T
    <2> HIDE DEF T
    <2> QED
      BY <1>2, <1>3, <1>4, UpTo
  <1>6. N \in 0 .. N /\ H(n) <= N
    BY <1>2
  <1> QED
    BY <1>1, <1>5, <1>6


LEMMA TreesArePlans ==
  ASSUME BindingsTypeOK, Upward
  PROVE  PlansAreTrees
  <1> SUFFICES ASSUME NEW n \in Names
               PROVE  LET plan == Plans[n] IN
                      /\ plan[1].name = n
                      /\ \A i \in DOMAIN plan : plan[i].need \subseteq (i + 1) .. Len(plan)
                      /\ \A i \in 2 .. Len(plan) :
                           Cardinality({j \in DOMAIN plan : i \in plan[j].need}) = 1
    BY DEF PlansAreTrees
  <1> DEFINE plan == Plans[n]
  <1>1. TreeOf(plan, n)
    BY PlanFollows
  <1> HIDE DEF plan
  <1>2. DOMAIN plan = 1 .. Len(plan)
    BY <1>1 DEF TreeOf
  <1>3. ASSUME NEW i \in 2 .. Len(plan)
        PROVE  Cardinality({j \in DOMAIN plan : i \in plan[j].need}) = 1
    <2>1. PICK j \in 1 .. Len(plan) :
            i \in plan[j].need /\ \A k \in 1 .. Len(plan) : i \in plan[k].need => k = j
      BY <1>1 DEF TreeOf
    <2>2. {k \in DOMAIN plan : i \in plan[k].need} = {j}
      BY <1>2, <2>1
    <2> QED
      BY <2>2, FS_Singleton
  <1>4. /\ plan[1].name = n
        /\ \A i \in DOMAIN plan : plan[i].need \subseteq (i + 1) .. Len(plan)
    BY <1>1, <1>2 DEF TreeOf
  <1> QED
    BY <1>3, <1>4 DEF plan

\* The inductive invariant of the registry.
BindingsInv == BindingsTypeOK /\ Upward

\* What a name is bound to stays above it when a higher name is appended.
LEMMA BoundAbove ==
  ASSUME NEW b \in [Names -> Seq(Names)], NEW n \in Names, NEW m \in Names,
         Rank[n] < Rank[m],
         \A x \in Names : \A i \in 1 .. Len(b[x]) : Rank[x] < Rank[b[x][i]]
  PROVE  LET c == [b EXCEPT ![n] = Append(@, m)] IN
         /\ c \in [Names -> Seq(Names)]
         /\ \A x \in Names : \A i \in 1 .. Len(c[x]) : Rank[x] < Rank[c[x][i]]
  <1> DEFINE c == [b EXCEPT ![n] = Append(@, m)]
             q == b[n]
             r == Append(q, m)
  <1>1. q \in Seq(Names) /\ \A i \in 1 .. Len(q) : Rank[n] < Rank[q[i]]
    OBVIOUS
  <1>2. c = [x \in Names |-> IF x = n THEN r ELSE b[x]]
    OBVIOUS
  <1> HIDE DEF q
  <1>3. /\ r \in Seq(Names) /\ Len(r) = Len(q) + 1
        /\ \A i \in 1 .. Len(q) : r[i] = q[i]
        /\ r[Len(q) + 1] = m
    BY <1>1, Appended
  <1>4. Len(q) \in Nat
    BY <1>1
  <1> HIDE DEF r, c
  <1>5. \A i \in 1 .. Len(r) : Rank[n] < Rank[r[i]]
    <2> SUFFICES ASSUME NEW i \in 1 .. Len(r) PROVE Rank[n] < Rank[r[i]]
      OBVIOUS
    <2>1. i \in 1 .. Len(q) \/ i = Len(q) + 1
      BY <1>3, <1>4
    <2> QED
      BY <1>1, <1>3, <2>1
  <1>6. c \in [Names -> Seq(Names)]
    BY <1>2, <1>3
  <1>7. \A x \in Names : \A i \in 1 .. Len(c[x]) : Rank[x] < Rank[c[x][i]]
    BY <1>2, <1>5
  <1> QED
    BY <1>6, <1>7 DEF c

\* group and dependsOn keep the bindings typed and acyclic: every name is bound to names of
\* higher rank only.
THEOREM BindingsInvariant == BindingsSpec => []BindingsInv
  <1>1. BindingsInit => BindingsInv
    <2> SUFFICES ASSUME BindingsInit PROVE BindingsInv
      OBVIOUS
    <2>1. <<>> \in Seq(Names) /\ \A i \in 1 .. Len(<<>>) : FALSE
      OBVIOUS
    <2>2. \A n \in Names : subs[n] = <<>> /\ deps[n] = <<>>
      BY DEF BindingsInit
    <2>3. BindingsTypeOK
      BY <2>1 DEF BindingsInit, BindingsTypeOK
    <2>4. Upward
      BY <2>1, <2>2 DEF Upward
    <2> QED
      BY <2>3, <2>4 DEF BindingsInv
  <1>2. BindingsInv /\ [BindingsNext]_bindings => BindingsInv'
    <2> SUFFICES ASSUME BindingsInv, [BindingsNext]_bindings PROVE BindingsInv'
      OBVIOUS
    <2>1. CASE UNCHANGED bindings
      BY <2>1 DEF BindingsInv, BindingsTypeOK, Upward, bindings
    <2>2. ASSUME NEW n \in Names, NEW m \in Names, Group(n, m) PROVE BindingsInv'
      <3>1. /\ subs \in [Names -> Seq(Names)]
            /\ \A x \in Names : \A i \in 1 .. Len(subs[x]) : Rank[x] < Rank[subs[x][i]]
        BY DEF BindingsInv, BindingsTypeOK, Upward
      <3>2. /\ subs' \in [Names -> Seq(Names)]
            /\ \A x \in Names : \A i \in 1 .. Len(subs'[x]) : Rank[x] < Rank[subs'[x][i]]
        BY <2>2, <3>1, BoundAbove DEF Group
      <3>3. deps' = deps
        BY <2>2 DEF Group
      <3> QED
        BY <3>2, <3>3 DEF BindingsInv, BindingsTypeOK, Upward
    <2>3. ASSUME NEW n \in Names, NEW m \in Names, Bind(n, m) PROVE BindingsInv'
      <3>1. /\ deps \in [Names -> Seq(Names)]
            /\ \A x \in Names : \A i \in 1 .. Len(deps[x]) : Rank[x] < Rank[deps[x][i]]
        BY DEF BindingsInv, BindingsTypeOK, Upward
      <3>2. /\ deps' \in [Names -> Seq(Names)]
            /\ \A x \in Names : \A i \in 1 .. Len(deps'[x]) : Rank[x] < Rank[deps'[x][i]]
        BY <2>3, <3>1, BoundAbove DEF Bind
      <3>3. subs' = subs
        BY <2>3 DEF Bind
      <3> QED
        BY <3>2, <3>3 DEF BindingsInv, BindingsTypeOK, Upward
    <2> QED
      BY <2>1, <2>2, <2>3 DEF BindingsNext, RefDependsOn, TasksDependsOn
  <1> QED
    BY <1>1, <1>2, PTL DEF BindingsSpec

\* Whatever was bound before, createTaskRun builds a tree: its first run is the name's own,
\* a run needs runs created after it only, and every other run is needed by exactly one.
THEOREM Trees == BindingsSpec => []PlansAreTrees
  <1>1. BindingsInv => PlansAreTrees
    BY TreesArePlans DEF BindingsInv
  <1> QED
    BY <1>1, BindingsInvariant, PTL

\* No binding is lost, wherever a name occurs in a tree and however often: each of its runs
\* waits for one run of every group member and of every dependency.
THEOREM NoBindingLost == BindingsSpec => []NeedsFollowBindings
  <1>1. ASSUME BindingsInv PROVE NeedsFollowBindings
    <2>1. SUFFICES ASSUME NEW n \in Names, NEW i \in DOMAIN Plans[n]
                   PROVE  LET plan == Plans[n]
                              name == plan[i].name
                          IN  /\ {plan[j].name : j \in plan[i].need}
                                   = ToSet(subs[name]) \cup ToSet(deps[name])
                              /\ Cardinality(plan[i].need) = Len(subs[name]) + Len(deps[name])
      BY DEF NeedsFollowBindings
    <2> DEFINE plan == Plans[n]
               x == plan[i].name
               p == subs[x]
               s == deps[x]
    <2>2. TreeOf(plan, n) /\ FollowsFrom(plan, 1)
      BY <1>1, PlanFollows DEF BindingsInv
    <2> HIDE DEF plan
    <2>3. i \in 1 .. Len(plan) /\ x \in Names
      <3>1. plan \in Seq(Entry)
        BY <2>2 DEF TreeOf
      <3>2. i \in DOMAIN plan
        BY DEF plan
      <3>3. i \in 1 .. Len(plan) /\ plan[i] \in Entry
        BY <3>1, <3>2
      <3> QED
        BY <3>3 DEF Entry
    <2>4. NeedsOneOfEach(plan, i, Kids(x))
      BY <2>2, <2>3 DEF FollowsFrom
    <2>5. p \in Seq(Names) /\ s \in Seq(Names)
      BY <1>1, <2>3 DEF BindingsInv, BindingsTypeOK
    <2>6. Kids(x) = p \o s
      BY DEF Kids
    <2>7. Needed(plan, i) = {plan[j].name : j \in plan[i].need}
      BY DEF Needed
    <2>8. ToSet(p) = {p[k] : k \in 1 .. Len(p)} /\ ToSet(s) = {s[k] : k \in 1 .. Len(s)}
      BY <2>5 DEF ToSet
    <2> HIDE DEF x, p, s
    <2> DEFINE q == p \o s
    <2>9. /\ q \in Seq(Names) /\ Len(q) = Len(p) + Len(s)
          /\ \A k \in 1 .. Len(p) : q[k] = p[k]
          /\ \A k \in 1 .. Len(s) : q[Len(p) + k] = s[k]
      BY ONLY <2>5, Concatenated
    <2>10. Len(p) \in Nat /\ Len(s) \in Nat
      BY <2>5
    <2> HIDE DEF q
    <2>11. {q[k] : k \in 1 .. Len(q)}
             = {p[k] : k \in 1 .. Len(p)} \cup {s[k] : k \in 1 .. Len(s)}
      <3>1. ASSUME NEW k \in 1 .. Len(q)
            PROVE  q[k] \in {p[l] : l \in 1 .. Len(p)} \cup {s[l] : l \in 1 .. Len(s)}
        <4>1. CASE k \in 1 .. Len(p)
          BY <2>9, <4>1
        <4>2. CASE k \notin 1 .. Len(p)
          <5>1. k - Len(p) \in 1 .. Len(s) /\ Len(p) + (k - Len(p)) = k
            BY <2>9, <2>10, <4>2
          <5>2. q[k] = s[k - Len(p)]
            BY <2>9, <5>1
          <5> QED
            BY <5>1, <5>2
        <4> QED
          BY <4>1, <4>2
      <3>2. ASSUME NEW k \in 1 .. Len(p) PROVE p[k] \in {q[l] : l \in 1 .. Len(q)}
        <4>1. k \in 1 .. Len(q) /\ q[k] = p[k]
          BY <2>9, <2>10
        <4> QED
          BY <4>1
      <3>3. ASSUME NEW k \in 1 .. Len(s) PROVE s[k] \in {q[l] : l \in 1 .. Len(q)}
        <4>1. Len(p) + k \in 1 .. Len(q) /\ q[Len(p) + k] = s[k]
          BY <2>9, <2>10
        <4> QED
          BY <4>1
      <3> QED
        BY <3>1, <3>2, <3>3
    <2>12. /\ Cardinality(plan[i].need) = Len(q)
           /\ Needed(plan, i) = {q[k] : k \in 1 .. Len(q)}
      BY <2>4, <2>6 DEF NeedsOneOfEach, q
    <2> QED
      BY <2>7, <2>8, <2>9, <2>11, <2>12 DEF plan, x, p, s
  <1> QED
    BY <1>1, BindingsInvariant, PTL

\* resolveDeps without a parent runs through the names the constructor was given.
LEMMA ForestUnfolds ==
  ASSUME NEW plans \in [Names -> Seq(Entry)], NEW spec \in Seq(Names)
  PROVE  \E all \in [0 .. Len(spec) -> Seq(Entry)] :
           /\ all[0] = <<>>
           /\ \A k \in 1 .. Len(spec) : all[k] = AndThen(all[k - 1], plans[spec[k]])
           /\ Forest(plans, spec) = all[Len(spec)]
  <1> DEFINE V == Seq(Entry)
             N == Len(spec)
             v == <<>>
             step == [k \in Nat |-> [p \in V |->
                        IF k \in 1 .. N THEN AndThen(p, plans[spec[k]]) ELSE v]]
             Rule(g) == [k \in 0 .. N |-> IF k = 0 THEN v ELSE AndThen(g[k - 1], plans[spec[k]])]
  <1>1. N \in Nat /\ v \in V
    OBVIOUS
  <1>2. \A p \in V, k \in 1 .. N : AndThen(p, plans[spec[k]]) \in V
    <2>1. ASSUME NEW p \in V, NEW k \in 1 .. N
          PROVE  AndThen(p, plans[spec[k]]) \in V
      <3>1. plans[spec[k]] \in Seq(Entry) /\ Len(p) \in Nat
        OBVIOUS
      <3>2. Shift(plans[spec[k]], Len(p)) \in Seq(Entry)
        BY <3>1, ShiftFacts
      <3> QED
        BY <3>2, Concatenated DEF AndThen
    <2> QED
      BY <2>1
  <1> HIDE DEF V, N, v
  <1>3. step \in [Nat -> [V -> V]]
    BY <1>1, <1>2
  <1>4. \E f : Iterates(f, N, V, v, step)
    <2> HIDE DEF step
    <2> QED
      BY <1>1, <1>3, Recursion
  <1>5. PICK f \in [0 .. N -> V] : f[0] = v /\ \A k \in 1 .. N : f[k] = step[k][f[k - 1]]
    BY <1>4 DEF Iterates
  <1>6. \A k \in 1 .. N : f[k] = AndThen(f[k - 1], plans[spec[k]])
    <2>1. ASSUME NEW k \in 1 .. N PROVE f[k] = AndThen(f[k - 1], plans[spec[k]])
      <3>1. k \in Nat /\ f[k - 1] \in V
        BY <1>1
      <3>2. step[k][f[k - 1]] = AndThen(f[k - 1], plans[spec[k]])
        BY <3>1
      <3> QED
        BY <1>5, <3>2
    <2> QED
      BY <2>1
  <1>7. f = Rule(f)
    BY <1>1, <1>5, <1>6
  <1> DEFINE g == CHOOSE h : h = Rule(h)
  <1>8. g = Rule(g)
    BY <1>7
  <1>9. Forest(plans, spec) = g[N]
    BY DEF Forest, N, v
  <1> HIDE DEF g
  <1>10. g[0] = v /\ \A k \in 1 .. N : g[k] = AndThen(g[k - 1], plans[spec[k]])
    BY <1>1, <1>8
  <1>11. \A k \in 0 .. N : k \in {i \in 0 .. N : g[i] = f[i]}
    <2> DEFINE T == {i \in 0 .. N : g[i] = f[i]}
    <2>1. 0 \in T
      BY <1>1, <1>5, <1>10
    <2>2. \A k \in 1 .. N : k - 1 \in T => k \in T
      BY <1>6, <1>10
    <2> HIDE DEF T
    <2> QED
      BY <1>1, <2>1, <2>2, UpTo DEF T
  <1>12. N \in 0 .. N /\ g[N] = f[N]
    BY <1>1, <1>11
  <1> QED
    BY <1>5, <1>6, <1>9, <1>12 DEF N, V, v

\* Two plans, one behind the other, are a plan.
LEMMA PlansJoined ==
  ASSUME NEW p, NEW s, IsPlan(p), IsPlan(s)
  PROVE  IsPlan(AndThen(p, s))
  <1> DEFINE L == Len(p)
             t == Shift(s, L)
             a == AndThen(p, s)
  <1>1. /\ p \in Seq(Entry) /\ s \in Seq(Entry) /\ L \in Nat /\ Len(s) \in Nat
        /\ \A i \in 1 .. L : p[i].need \subseteq (i + 1) .. L
        /\ \A i \in 1 .. Len(s) : s[i].need \subseteq (i + 1) .. Len(s)
    BY DEF IsPlan
  <1>2. a = p \o t
    BY DEF AndThen
  <1> HIDE DEF L
  <1>3. /\ t \in Seq(Entry) /\ Len(t) = Len(s)
        /\ \A i \in 1 .. Len(s) : t[i].need = {L + k : k \in s[i].need}
    BY <1>1, ShiftFacts
  <1> HIDE DEF t, a
  <1>4. /\ p \o t \in Seq(Entry) /\ Len(p \o t) = Len(p) + Len(t)
        /\ \A i \in 1 .. Len(p) : (p \o t)[i] = p[i]
        /\ \A i \in 1 .. Len(t) : (p \o t)[Len(p) + i] = t[i]
    <2>1. p \in Seq(Entry) /\ t \in Seq(Entry)
      BY <1>1, <1>3
    <2> QED
      BY ONLY <2>1, Concatenated
  <1>5. ASSUME NEW i \in 1 .. Len(a) PROVE a[i].need \subseteq (i + 1) .. Len(a)
    <2>1. Len(a) = L + Len(s)
      BY <1>2, <1>3, <1>4 DEF L
    <2>2. CASE i \in 1 .. L
      <3>1. a[i].need \subseteq (i + 1) .. L
        BY <1>1, <1>2, <1>4, <2>2 DEF L
      <3> QED
        BY <1>1, <2>1, <3>1
    <2>3. CASE i \notin 1 .. L
      <3>1. i - L \in 1 .. Len(s) /\ L + (i - L) = i
        BY <1>1, <2>1, <2>3
      <3>2. a[i].need = {L + k : k \in s[i - L].need}
        BY <1>2, <1>3, <1>4, <3>1 DEF L
      <3>3. s[i - L].need \subseteq (i - L + 1) .. Len(s)
        BY <1>1, <3>1
      <3> QED
        BY <1>1, <2>1, <3>1, <3>2, <3>3
    <2> QED
      BY <2>2, <2>3
  <1> QED
    BY <1>2, <1>4, <1>5 DEF IsPlan, a

\* What TaskRunnerAssumption asks of the plan of a name.
PlanOfName(plan) ==
  /\ IsPlan(plan) /\ Len(plan) > 0
  /\ \A i \in 2 .. Len(plan) : \E j \in 1 .. (i - 1) : i \in plan[j].need

LEMMA TreeIsPlan ==
  ASSUME NEW n, NEW plan, TreeOf(plan, n)
  PROVE  PlanOfName(plan)
  <1>1. /\ plan \in Seq(Entry) /\ plan # <<>>
        /\ \A i \in 1 .. Len(plan) : plan[i].need \subseteq (i + 1) .. Len(plan)
    BY DEF TreeOf
  <1>2. Len(plan) \in Nat /\ Len(plan) > 0
    BY <1>1
  <1>3. ASSUME NEW i \in 2 .. Len(plan)
        PROVE  \E j \in 1 .. (i - 1) : i \in plan[j].need
    <2>1. PICK j \in 1 .. Len(plan) : i \in plan[j].need
      BY DEF TreeOf
    <2>2. i \in (j + 1) .. Len(plan)
      BY <1>1, <2>1
    <2> QED
      BY <1>2, <2>1, <2>2
  <1> QED
    BY <1>1, <1>2, <1>3 DEF PlanOfName, IsPlan

\* The constructor and addTask always find plans: the trees of every registry that group
\* and dependsOn can build are what the runner's model is given as Plan, and the runs of
\* any list of names what it is given as Initial.
PlansSuitTheRunner ==
  /\ \A n \in Names : PlanOfName(Plans[n])
  /\ \A spec \in Seq(Names) : IsPlan(Forest(Plans, spec))

THEOREM RunnerPlans == BindingsSpec => []PlansSuitTheRunner
  <1>1. ASSUME BindingsInv PROVE PlansSuitTheRunner
    <2>1. BindingsTypeOK /\ Upward
      BY <1>1 DEF BindingsInv
    <2>2. \A n \in Names : TreeOf(Plans[n], n)
      BY <2>1, PlanFollows
    <2>3. \A n \in Names : PlanOfName(Plans[n])
      BY <2>2, TreeIsPlan
    <2>4. Plans \in [Names -> Seq(Entry)]
      <3>1. PICK create \in [0 .. Cardinality(Names) -> Plain] : Plans = create[Cardinality(Names)]
        BY <2>1, ExpansionUnfolds
      <3>2. Cardinality(Names) \in Nat
        BY Heights
      <3> QED
        BY <3>1, <3>2 DEF Plain
    <2>5. ASSUME NEW spec \in Seq(Names) PROVE IsPlan(Forest(Plans, spec))
      <3> DEFINE N == Len(spec)
                 plans == Plans
      <3>1. N \in Nat /\ \A k \in 1 .. N : spec[k] \in Names
        OBVIOUS
      <3>2. plans \in [Names -> Seq(Entry)]
        BY <2>4
      <3> HIDE DEF plans
      <3>3. PICK all \in [0 .. N -> Seq(Entry)] :
              /\ all[0] = <<>>
              /\ \A k \in 1 .. N : all[k] = AndThen(all[k - 1], plans[spec[k]])
              /\ Forest(plans, spec) = all[N]
        BY <3>2, ForestUnfolds
      <3> HIDE DEF N
      <3>4. \A k \in 1 .. N : IsPlan(plans[spec[k]])
        BY <2>3, <3>1 DEF PlanOfName, plans
      <3> DEFINE T == {k \in 0 .. N : IsPlan(all[k])}
      <3>5. 0 \in T
        <4>1. IsPlan(<<>>)
          BY DEF IsPlan
        <4> QED
          BY <3>1, <3>3, <4>1
      <3>6. ASSUME NEW k \in 1 .. N, k - 1 \in T PROVE k \in T
        <4>1. IsPlan(all[k - 1]) /\ k \in 0 .. N
          BY <3>1, <3>6
        <4>2. IsPlan(AndThen(all[k - 1], plans[spec[k]]))
          BY <3>4, <4>1, PlansJoined
        <4> QED
          BY <3>3, <4>1, <4>2
      <3>7. \A k \in 0 .. N : k \in T
        <4> HIDE DEF T
        <4> QED
          BY <3>1, <3>5, <3>6, UpTo
      <3> QED
        BY <3>1, <3>3, <3>7 DEF plans
    <2> QED
      BY <2>3, <2>5 DEF PlansSuitTheRunner
  <1> QED
    BY <1>1, BindingsInvariant, PTL

\* The positions of a name in a plan.
Positions(plan, m) == {i \in 1 .. Len(plan) : plan[i].name = m}

Count(plan, m) == Cardinality(Positions(plan, m))

LEMMA CountType ==
  ASSUME NEW plan \in Seq(Entry), NEW m
  PROVE  IsFiniteSet(Positions(plan, m)) /\ Count(plan, m) \in Nat
  <1>1. Len(plan) \in Nat
    OBVIOUS
  <1>2. IsFiniteSet(1 .. Len(plan))
    BY <1>1, FS_Interval
  <1>3. IsFiniteSet(Positions(plan, m))
    BY <1>2, FS_Subset DEF Positions
  <1> QED
    BY <1>3, FS_CardinalityType DEF Count

\* A subtree attached brings its own occurrences of a name, and createTaskRun brings those
\* of all subtrees and its own.
LEMMA AttachedCount ==
  ASSUME NEW plan \in Seq(Entry), NEW sub \in Seq(Entry), plan # <<>>, NEW m
  PROVE  Count(Attach(plan, sub), m) = Count(plan, m) + Count(sub, m)
  <1> DEFINE a == Attach(plan, sub)
             L == Len(plan)
             M == Len(sub)
             A == Positions(plan, m)
             B == Positions(sub, m)
             C == {L + i : i \in B}
  <1>1. /\ a \in Seq(Entry) /\ Len(a) = L + M
        /\ a[1].name = plan[1].name /\ a[1].need = plan[1].need \cup {L + 1}
        /\ \A i \in 2 .. L : a[i] = plan[i]
        /\ \A i \in 1 .. M :
             a[L + i].name = sub[i].name /\ a[L + i].need = {L + k : k \in sub[i].need}
    BY AttachFacts
  <1>2. L \in Nat /\ M \in Nat
    OBVIOUS
  <1>3. A \subseteq 1 .. L /\ B \subseteq 1 .. M
    BY DEF Positions
  <1>4. \A i \in 1 .. L : i \in A <=> plan[i].name = m
    BY DEF Positions
  <1>5. \A i \in 1 .. M : i \in B <=> sub[i].name = m
    BY DEF Positions
  <1>6. \A i \in 1 .. Len(a) : i \in Positions(a, m) <=> a[i].name = m
    BY DEF Positions
  <1>7. Positions(a, m) \subseteq 1 .. Len(a)
    BY DEF Positions
  <1>8. /\ IsFiniteSet(A) /\ Cardinality(A) \in Nat
        /\ IsFiniteSet(B) /\ Cardinality(B) \in Nat
    BY CountType DEF Count
  <1> HIDE DEF a, L, M, A, B
  <1>9. B \subseteq Nat
    BY <1>2, <1>3
  <1>10. IsFiniteSet(C) /\ Cardinality(C) = Cardinality(B)
    BY <1>2, <1>8, <1>9, ShiftedCount
  <1>11. \A i \in 1 .. L : a[i].name = plan[i].name
    <2>1. ASSUME NEW i \in 1 .. L PROVE a[i].name = plan[i].name
      <3>1. i = 1 \/ i \in 2 .. L
        BY <1>2
      <3> QED
        BY <1>1, <3>1
    <2> QED
      BY <2>1
  <1>12. ASSUME NEW i \in Positions(a, m) PROVE i \in A \cup C
    <2>1. i \in 1 .. L + M /\ a[i].name = m
      BY <1>1, <1>6, <1>7
    <2>2. CASE i \in 1 .. L
      BY <1>4, <1>11, <2>1, <2>2
    <2>3. CASE i \notin 1 .. L
      <3>1. i - L \in 1 .. M /\ i = L + (i - L)
        BY <1>2, <2>1, <2>3
      <3>2. i - L \in B
        BY <1>1, <1>5, <2>1, <3>1
      <3> QED
        BY <3>1, <3>2
    <2> QED
      BY <2>2, <2>3
  <1>13. ASSUME NEW i \in A PROVE i \in Positions(a, m)
    BY <1>1, <1>2, <1>3, <1>4, <1>6, <1>11
  <1>14. ASSUME NEW i \in C PROVE i \in Positions(a, m)
    <2>1. PICK k \in B : i = L + k
      OBVIOUS
    <2>2. k \in 1 .. M /\ i \in 1 .. L + M
      BY <1>2, <1>3, <2>1
    <2>3. a[i].name = m
      BY <1>1, <1>5, <2>1, <2>2
    <2> QED
      BY <1>1, <1>6, <2>2, <2>3
  <1>15. A \cap C = {}
    BY <1>2, <1>3
  <1>16. Positions(a, m) = A \cup C
    <2> HIDE DEF C
    <2> QED
      BY <1>12, <1>13, <1>14
  <1> HIDE DEF C
  <1>17. Cardinality(A \cup C) = Cardinality(A) + Cardinality(C)
    <2>1. Cardinality(A \cup C) = Cardinality(A) + Cardinality(C) - Cardinality(A \cap C)
      BY <1>8, <1>10, FS_Union
    <2>2. Cardinality(A \cap C) = 0
      BY <1>15, FS_EmptySet
    <2> QED
      BY <1>8, <1>10, <2>1, <2>2
  <1> QED
    BY <1>10, <1>16, <1>17 DEF Count, a, A, B

\* Total runs through the numbers.
LEMMA TotalUnfolds ==
  ASSUME NEW numbers \in Seq(Nat)
  PROVE  \E sum \in [0 .. Len(numbers) -> Nat] :
           /\ sum[0] = 0
           /\ \A k \in 1 .. Len(numbers) : sum[k] = sum[k - 1] + numbers[k]
           /\ Total(numbers) = sum[Len(numbers)]
  <1> DEFINE N == Len(numbers)
             step == [k \in Nat |-> [s \in Nat |-> IF k \in 1 .. N THEN s + numbers[k] ELSE s]]
             Rule(g) == [k \in 0 .. N |-> IF k = 0 THEN 0 ELSE g[k - 1] + numbers[k]]
  <1>1. N \in Nat /\ \A k \in 1 .. N : numbers[k] \in Nat
    OBVIOUS
  <1> HIDE DEF N
  <1>2. step \in [Nat -> [Nat -> Nat]]
    BY <1>1
  <1>3. \E f : Iterates(f, N, Nat, 0, step)
    <2> HIDE DEF step
    <2> QED
      BY <1>1, <1>2, Recursion
  <1>4. PICK f : Iterates(f, N, Nat, 0, step)
    BY <1>3
  <1>5. f \in [0 .. N -> Nat] /\ f[0] = 0 /\ \A k \in 1 .. N : f[k] = step[k][f[k - 1]]
    <2> HIDE DEF step
    <2> QED
      BY <1>4 DEF Iterates
  <1>6. ASSUME NEW k \in 1 .. N PROVE f[k] = f[k - 1] + numbers[k]
    <2>1. k \in Nat /\ f[k - 1] \in Nat
      BY <1>1, <1>5
    <2> QED
      BY <1>5, <2>1
  <1>7. f = Rule(f)
    BY <1>1, <1>5, <1>6
  <1> DEFINE g == CHOOSE h : h = Rule(h)
  <1>8. g = Rule(g)
    BY <1>7
  <1>9. Total(numbers) = g[N]
    BY DEF Total, N
  <1> HIDE DEF g
  <1>10. g[0] = 0 /\ \A k \in 1 .. N : g[k] = g[k - 1] + numbers[k]
    BY <1>1, <1>8
  <1>11. \A k \in 0 .. N : g[k] = f[k]
    <2> DEFINE T == {k \in 0 .. N : g[k] = f[k]}
    <2>1. 0 \in T
      BY <1>1, <1>5, <1>10
    <2>2. \A k \in 1 .. N : k - 1 \in T => k \in T
      BY <1>6, <1>10
    <2>3. \A k \in 0 .. N : k \in T
      <3> HIDE DEF T
      <3> QED
        BY <1>1, <2>1, <2>2, UpTo
    <2> QED
      BY <2>3
  <1>12. Total(numbers) = f[N]
    BY <1>1, <1>9, <1>11
  <1> QED
    BY <1>5, <1>6, <1>12 DEF N

LEMMA GrownCount ==
  ASSUME NEW n \in Names, NEW subtrees \in Seq(Seq(Entry)), NEW m,
         NEW numbers \in Seq(Nat), Len(numbers) = Len(subtrees),
         \A k \in 1 .. Len(subtrees) : numbers[k] = Count(subtrees[k], m)
  PROVE  Count(Grown(n, subtrees), m) = (IF n = m THEN 1 ELSE 0) + Total(numbers)
  <1> DEFINE N == Len(subtrees)
             root == << [name |-> n, need |-> {}] >>
             one == IF n = m THEN 1 ELSE 0
  <1>1. N \in Nat /\ one \in Nat
    OBVIOUS
  <1>2. PICK plan \in [0 .. N -> Seq(Entry)] :
          /\ plan[0] = root
          /\ \A k \in 1 .. N : plan[k] = Attach(plan[k - 1], subtrees[k])
          /\ Grown(n, subtrees) = plan[N]
    BY GrownUnfolds
  <1>3. PICK sum \in [0 .. N -> Nat] :
          /\ sum[0] = 0
          /\ \A k \in 1 .. N : sum[k] = sum[k - 1] + numbers[k]
          /\ Total(numbers) = sum[N]
    BY TotalUnfolds
  <1>4. Count(root, m) = one /\ root # <<>>
    <2>1. Len(root) = 1 /\ root[1].name = n /\ 1 .. 1 = {1}
      OBVIOUS
    <2>2. Positions(root, m) = IF n = m THEN {1} ELSE {}
      <3> HIDE DEF root
      <3> QED
        BY <2>1 DEF Positions
    <2> HIDE DEF root
    <2>3. Cardinality({1}) = 1 /\ Cardinality({}) = 0
      BY FS_Singleton, FS_EmptySet
    <2> QED
      BY <2>1, <2>2, <2>3 DEF Count
  <1>5. \A k \in 1 .. N : subtrees[k] \in Seq(Entry) /\ numbers[k] = Count(subtrees[k], m)
    OBVIOUS
  <1> HIDE DEF N, root, one
  <1> DEFINE T == {k \in 0 .. N : plan[k] # <<>> /\ Count(plan[k], m) = one + sum[k]}
  <1>6. 0 \in T
    BY <1>1, <1>2, <1>3, <1>4
  <1>7. ASSUME NEW k \in 1 .. N, k - 1 \in T PROVE k \in T
    <2>0. k - 1 \in 0 .. N /\ k \in 0 .. N
      BY <1>1
    <2>1. /\ plan[k - 1] \in Seq(Entry) /\ plan[k - 1] # <<>> /\ subtrees[k] \in Seq(Entry)
          /\ sum[k - 1] \in Nat /\ sum[k] \in Nat
      <3>1. plan[k - 1] \in Seq(Entry) /\ sum[k - 1] \in Nat /\ sum[k] \in Nat
        BY <2>0
      <3> QED
        BY <1>5, <1>7, <3>1
    <2>2. Count(plan[k], m) = Count(plan[k - 1], m) + Count(subtrees[k], m)
      BY <1>2, <2>1, AttachedCount
    <2>3. sum[k] = sum[k - 1] + Count(subtrees[k], m) /\ Count(subtrees[k], m) \in Nat
      BY <1>3, <1>5, CountType
    <2>4. Count(plan[k], m) = one + sum[k]
      BY <1>1, <1>7, <2>1, <2>2, <2>3
    <2>5. plan[k] # <<>>
      <3>1. /\ Attach(plan[k - 1], subtrees[k]) \in Seq(Entry)
            /\ Len(Attach(plan[k - 1], subtrees[k])) = Len(plan[k - 1]) + Len(subtrees[k])
        BY <2>1, AttachFacts
      <3>2. Len(plan[k - 1]) \in Nat \ {0} /\ Len(subtrees[k]) \in Nat
        BY <2>1
      <3> DEFINE l == Len(plan[k - 1])
                 r == Len(subtrees[k])
                 a == Len(Attach(plan[k - 1], subtrees[k]))
      <3>3. Len(Attach(plan[k - 1], subtrees[k])) # 0
        <4>1. a = l + r /\ l \in Nat \ {0} /\ r \in Nat
          BY <3>1, <3>2, Zenon
        <4>2. a # 0
          <5> HIDE DEF a, l, r
          <5> QED
            BY <4>1
        <4> QED
          BY <4>2
      <3>4. plan[k] = Attach(plan[k - 1], subtrees[k])
        BY <1>2
      <3>5. Len(plan[k]) # 0
        BY <3>3, <3>4, Zenon
      <3>6. Len(<<>>) = 0
        OBVIOUS
      <3> QED
        BY <3>5, <3>6, Zenon
    <2> QED
      BY <1>1, <2>4, <2>5
  <1>8. \A k \in 0 .. N : k \in T
    <2> HIDE DEF T
    <2> QED
      BY <1>1, <1>6, <1>7, UpTo
  <1> QED
    BY <1>1, <1>2, <1>3, <1>8 DEF one

\* The numbers of paths from the names bound to n.
FromKids(p, n) == [k \in 1 .. Len(Kids(n)) |-> p[Kids(n)[k]]]

LEMMA FromKidsType ==
  ASSUME BindingsTypeOK, NEW p \in [Names -> Nat], NEW n \in Names
  PROVE  /\ FromKids(p, n) \in Seq(Nat) /\ Len(FromKids(p, n)) = Len(Kids(n))
         /\ \A k \in 1 .. Len(Kids(n)) : FromKids(p, n)[k] = p[Kids(n)[k]]
  <1> DEFINE kids == Kids(n)
  <1>1. kids \in Seq(Names)
    <2>1. subs[n] \in Seq(Names) /\ deps[n] \in Seq(Names)
      BY DEF BindingsTypeOK
    <2> QED
      BY <2>1, Concatenated DEF Kids
  <1>2. FromKids(p, n) = [k \in 1 .. Len(kids) |-> p[kids[k]]]
    BY DEF FromKids
  <1> HIDE DEF kids
  <1>3. [k \in 1 .. Len(kids) |-> p[kids[k]]] \in [1 .. Len(kids) -> Nat] /\ Len(kids) \in Nat
    BY <1>1
  <1> QED
    BY <1>2, <1>3 DEF kids

\* paths runs through the depths.
LEMMA PathsUnfold ==
  ASSUME BindingsTypeOK, NEW m \in Names
  PROVE  \E paths \in [0 .. Cardinality(Names) -> [Names -> Nat]] :
           /\ \A d \in 1 .. Cardinality(Names), n \in Names :
                paths[d][n] = IF n = m THEN 1 ELSE Total(FromKids(paths[d - 1], n))
           /\ Paths(m) = paths[Cardinality(Names)]
  <1> DEFINE N == Cardinality(Names)
             V == [Names -> Nat]
             v == [n \in Names |-> IF n = m THEN 1 ELSE 0]
             step == [d \in Nat |-> [p \in V |->
                       [n \in Names |-> IF n = m THEN 1 ELSE Total(FromKids(p, n))]]]
             Rule(g) == [d \in 0 .. N |->
                          [n \in Names |-> IF n = m THEN 1
                                           ELSE IF d = 0 THEN 0
                                           ELSE Total(FromKids(g[d - 1], n))]]
  <1>1. N \in Nat
    BY BindingsAssumption, FS_CardinalityType
  <1>2. v \in V
    OBVIOUS
  <1>3. ASSUME NEW p \in V
        PROVE  [n \in Names |-> IF n = m THEN 1 ELSE Total(FromKids(p, n))] \in V
    <2>1. ASSUME NEW n \in Names PROVE Total(FromKids(p, n)) \in Nat
      <3>1. FromKids(p, n) \in Seq(Nat)
        BY FromKidsType
      <3>2. PICK sum \in [0 .. Len(FromKids(p, n)) -> Nat] :
              Total(FromKids(p, n)) = sum[Len(FromKids(p, n))]
        BY <3>1, TotalUnfolds
      <3>3. Len(FromKids(p, n)) \in 0 .. Len(FromKids(p, n))
        BY <3>1
      <3> QED
        BY <3>2, <3>3
    <2> QED
      BY <2>1
  <1> HIDE DEF N, V
  <1>4. step \in [Nat -> [V -> V]]
    BY <1>3
  <1>5. \E f : Iterates(f, N, V, v, step)
    <2> HIDE DEF step, v
    <2> QED
      BY <1>1, <1>2, <1>4, Recursion
  <1>6. PICK f : Iterates(f, N, V, v, step)
    BY <1>5
  <1>7. f \in [0 .. N -> V] /\ f[0] = v /\ \A d \in 1 .. N : f[d] = step[d][f[d - 1]]
    <2> HIDE DEF step, v
    <2> QED
      BY <1>6 DEF Iterates
  <1>8. ASSUME NEW d \in 1 .. N
        PROVE  f[d] = [n \in Names |-> IF n = m THEN 1 ELSE Total(FromKids(f[d - 1], n))]
    <2>1. d \in Nat /\ f[d - 1] \in V
      BY <1>1, <1>7
    <2> QED
      BY <1>7, <2>1
  <1>9. f = Rule(f)
    <2>1. ASSUME NEW d \in 0 .. N PROVE f[d] = Rule(f)[d]
      <3>1. CASE d = 0
        BY <1>7, <3>1
      <3>2. CASE d # 0
        <4>1. d \in 1 .. N
          BY <1>1, <3>2
        <4> QED
          BY <1>8, <3>2, <4>1
      <3> QED
        BY <3>1, <3>2
    <2>2. f = [d \in 0 .. N |-> f[d]] /\ Rule(f) = [d \in 0 .. N |-> Rule(f)[d]]
      BY <1>7
    <2> HIDE DEF Rule
    <2> QED
      BY <2>1, <2>2
  <1> DEFINE g == CHOOSE h : h = Rule(h)
  <1>10. g = Rule(g)
    BY <1>9
  <1>11. Paths(m) = g[N]
    BY DEF Paths, FromKids, Kids, N
  <1> HIDE DEF g
  <1>12. g[0] = v
    BY <1>1, <1>10
  <1>13. ASSUME NEW d \in 1 .. N
         PROVE  g[d] = [n \in Names |-> IF n = m THEN 1 ELSE Total(FromKids(g[d - 1], n))]
    <2>1. d \in 0 .. N /\ d # 0
      BY <1>1
    <2>2. Rule(g)[d] = [n \in Names |-> IF n = m THEN 1 ELSE Total(FromKids(g[d - 1], n))]
      BY <2>1
    <2> HIDE DEF Rule
    <2> QED
      BY <1>10, <2>2
  <1>14. \A k \in 0 .. N : g[k] = f[k]
    <2> DEFINE T == {k \in 0 .. N : g[k] = f[k]}
    <2>1. 0 \in T
      BY <1>1, <1>7, <1>12
    <2>2. ASSUME NEW k \in 1 .. N, k - 1 \in T PROVE k \in T
      <3>1. g[k - 1] = f[k - 1]
        BY <2>2
      <3>2. g[k] = [n \in Names |-> IF n = m THEN 1 ELSE Total(FromKids(g[k - 1], n))]
        BY <1>13
      <3>3. f[k] = [n \in Names |-> IF n = m THEN 1 ELSE Total(FromKids(f[k - 1], n))]
        BY <1>8
      <3>4. g[k] = f[k]
        BY <3>1, <3>2, <3>3
      <3> QED
        BY <1>1, <3>4
    <2>3. \A k \in 0 .. N : k \in T
      <3> HIDE DEF T
      <3> QED
        BY <1>1, <2>1, <2>2, UpTo
    <2> QED
      BY <2>3
  <1>15. Paths(m) = f[N]
    BY <1>1, <1>11, <1>14
  <1>16. \A d \in 1 .. N, n \in Names :
           f[d][n] = IF n = m THEN 1 ELSE Total(FromKids(f[d - 1], n))
    BY <1>8
  <1> QED
    BY <1>7, <1>15, <1>16 DEF N, V

\* A sum of zeros.
LEMMA TotalOfNone ==
  ASSUME NEW numbers \in Seq(Nat), \A k \in 1 .. Len(numbers) : numbers[k] = 0
  PROVE  Total(numbers) = 0
  <1> DEFINE N == Len(numbers)
  <1>1. N \in Nat
    OBVIOUS
  <1>2. PICK sum \in [0 .. N -> Nat] :
          /\ sum[0] = 0
          /\ \A k \in 1 .. N : sum[k] = sum[k - 1] + numbers[k]
          /\ Total(numbers) = sum[N]
    BY TotalUnfolds
  <1>3. \A k \in 1 .. N : numbers[k] = 0
    OBVIOUS
  <1> HIDE DEF N
  <1> DEFINE T == {k \in 0 .. N : sum[k] = 0}
  <1>4. 0 \in T
    BY <1>1, <1>2
  <1>5. \A k \in 1 .. N : k - 1 \in T => k \in T
    BY <1>2, <1>3
  <1>6. \A k \in 0 .. N : k \in T
    <2> HIDE DEF T
    <2> QED
      BY <1>1, <1>4, <1>5, UpTo
  <1> QED
    BY <1>1, <1>2, <1>6

\* How often the name m is in the tree of n, by depth: as often as in those of its kids.
LEMMA CountsUnfold ==
  ASSUME BindingsTypeOK, NEW m \in Names,
         NEW n \in Names, NEW plans \in Plain, NEW numbers \in [Names -> Nat],
         \A k \in 1 .. Len(Kids(n)) : numbers[Kids(n)[k]] = Count(plans[Kids(n)[k]], m)
  PROVE  Count(Grown(n, Subtrees(plans, n)), m)
           = (IF n = m THEN 1 ELSE 0) + Total(FromKids(numbers, n))
  <1> DEFINE s == Subtrees(plans, n)
             t == FromKids(numbers, n)
  <1>1. /\ s \in Seq(Seq(Entry)) /\ Len(s) = Len(Kids(n))
        /\ \A k \in 1 .. Len(Kids(n)) : s[k] = plans[Kids(n)[k]]
    BY SubtreesType
  <1>2. /\ t \in Seq(Nat) /\ Len(t) = Len(Kids(n))
        /\ \A k \in 1 .. Len(Kids(n)) : t[k] = numbers[Kids(n)[k]]
    BY FromKidsType
  <1> HIDE DEF s, t
  <1>3. Len(t) = Len(s) /\ \A k \in 1 .. Len(s) : t[k] = Count(s[k], m)
    BY <1>1, <1>2
  <1>4. Count(Grown(n, s), m) = (IF n = m THEN 1 ELSE 0) + Total(t)
    BY <1>1, <1>2, <1>3, GrownCount
  <1> QED
    BY <1>4 DEF s, t

\* A tree holds no name of lower rank than its own, at whatever depth it is cut.
LEMMA NoneBelow ==
  ASSUME BindingsTypeOK, Upward, NEW m \in Names,
         NEW create \in [0 .. Cardinality(Names) -> Plain],
         \A d \in 1 .. Cardinality(Names), n \in Names :
           create[d][n] = Grown(n, Subtrees(create[d - 1], n)),
         \A n \in Names : Rank[m] < Rank[n] => Count(create[0][n], m) = 0
  PROVE  \A d \in 0 .. Cardinality(Names) :
           \A n \in Names : Rank[m] < Rank[n] => Count(create[d][n], m) = 0
  <1> DEFINE N == Cardinality(Names)
             T == {d \in 0 .. N : \A n \in Names : Rank[m] < Rank[n] => Count(create[d][n], m) = 0}
  <1>1. N \in Nat /\ \A n \in Names : Rank[n] \in Nat
    BY BindingsAssumption, FS_CardinalityType
  <1>2. \A d \in 1 .. N, n \in Names : create[d][n] = Grown(n, Subtrees(create[d - 1], n))
    OBVIOUS
  <1>3. create \in [0 .. N -> Plain]
    OBVIOUS
  <1> HIDE DEF N
  <1>4. 0 \in T
    BY <1>1
  <1>5. ASSUME NEW d \in 1 .. N, d - 1 \in T PROVE d \in T
    <2>1. SUFFICES ASSUME NEW n \in Names, Rank[m] < Rank[n] PROVE Count(create[d][n], m) = 0
      BY <1>1
    <2> DEFINE numbers == [x \in Names |-> 0]
               t == FromKids(numbers, n)
    <2>2. create[d - 1] \in Plain /\ numbers \in [Names -> Nat]
      <3>1. d - 1 \in 0 .. N
        BY <1>1
      <3> QED
        BY <1>3, <3>1
    <2>3. ASSUME NEW k \in 1 .. Len(Kids(n))
          PROVE  numbers[Kids(n)[k]] = 0 /\ Count(create[d - 1][Kids(n)[k]], m) = 0
      <3>1. Kids(n)[k] \in Names /\ Rank[n] < Rank[Kids(n)[k]]
        BY KidsAbove
      <3>2. Rank[m] < Rank[Kids(n)[k]]
        BY <1>1, <2>1, <3>1
      <3> QED
        BY <1>5, <3>1, <3>2
    <2>4. /\ t \in Seq(Nat) /\ Len(t) = Len(Kids(n))
          /\ \A k \in 1 .. Len(Kids(n)) : t[k] = numbers[Kids(n)[k]]
      <3> HIDE DEF numbers
      <3> QED
        BY <2>2, FromKidsType
    <2>5. Total(t) = 0
      <3> HIDE DEF t
      <3> QED
        BY <2>3, <2>4, TotalOfNone
    <2>6. Count(Grown(n, Subtrees(create[d - 1], n)), m) = (IF n = m THEN 1 ELSE 0) + Total(t)
      <3> HIDE DEF numbers
      <3> QED
        BY <2>2, <2>3, CountsUnfold
    <2> HIDE DEF t
    <2> QED
      BY <1>1, <1>2, <2>1, <2>5, <2>6
  <1>6. \A d \in 0 .. N : d \in T
    <2> HIDE DEF T
    <2> QED
      BY <1>1, <1>4, <1>5, UpTo
  <1> QED
    BY <1>6 DEF N

\* Runs and paths are counted alike at every depth.
LEMMA RunsArePaths ==
  ASSUME BindingsTypeOK, Upward, NEW n \in Names, NEW m \in Names
  PROVE  Count(Plans[n], m) = Paths(m)[n]
  <1> DEFINE N == Cardinality(Names)
             H(x) == Cardinality(Above(x))
  <1>1. PICK create \in [0 .. N -> Plain] :
          /\ \A x \in Names : create[0][x] = <<>>
          /\ \A d \in 1 .. N, x \in Names : create[d][x] = Grown(x, Subtrees(create[d - 1], x))
          /\ Plans = create[N]
    BY ExpansionUnfolds
  <1>2. PICK paths \in [0 .. N -> [Names -> Nat]] :
          /\ \A d \in 1 .. N, x \in Names :
               paths[d][x] = IF x = m THEN 1 ELSE Total(FromKids(paths[d - 1], x))
          /\ Paths(m) = paths[N]
    BY PathsUnfold
  <1>3. /\ N \in Nat
        /\ \A x \in Names : H(x) \in 1 .. N
        /\ \A x \in Names, y \in Names : Rank[x] < Rank[y] => H(y) < H(x)
    BY Heights
  <1>4. \A d \in 0 .. N : \A x \in Names : Rank[m] < Rank[x] => Count(create[d][x], m) = 0
    <2>1. Count(<<>>, m) = 0
      <3>1. Positions(<<>>, m) = {}
        BY DEF Positions
      <3> QED
        BY <3>1, FS_EmptySet DEF Count
    <2> QED
      BY <1>1, <2>1, NoneBelow
  <1> HIDE DEF N, H
  <1> DEFINE T == {d \in 0 .. N : \A x \in Names : H(x) <= d => Count(create[d][x], m) = paths[d][x]}
  <1>5. 0 \in T
    BY <1>3
  <1>6. ASSUME NEW d \in 1 .. N, d - 1 \in T PROVE d \in T
    <2>0. d \in 0 .. N /\ d - 1 \in 0 .. N
      BY <1>3
    <2>1. SUFFICES ASSUME NEW x \in Names, H(x) <= d
                   PROVE  Count(create[d][x], m) = paths[d][x]
      BY <2>0
    <2>2. create[d - 1] \in Plain /\ paths[d - 1] \in [Names -> Nat]
      BY <2>0
    <2>3. create[d][x] = Grown(x, Subtrees(create[d - 1], x))
      BY <1>1
    <2>4. \A k \in 1 .. Len(Kids(x)) :
            /\ Kids(x)[k] \in Names /\ Rank[x] < Rank[Kids(x)[k]]
            /\ paths[d - 1][Kids(x)[k]] = Count(create[d - 1][Kids(x)[k]], m)
      <3> SUFFICES ASSUME NEW k \in 1 .. Len(Kids(x))
                   PROVE  /\ Kids(x)[k] \in Names /\ Rank[x] < Rank[Kids(x)[k]]
                          /\ paths[d - 1][Kids(x)[k]] = Count(create[d - 1][Kids(x)[k]], m)
        OBVIOUS
      <3>1. Kids(x)[k] \in Names /\ Rank[x] < Rank[Kids(x)[k]]
        BY KidsAbove
      <3>2. H(Kids(x)[k]) <= d - 1
        <4>1. H(Kids(x)[k]) < H(x)
          BY <1>3, <3>1
        <4>2. H(Kids(x)[k]) \in 1 .. N /\ H(x) \in 1 .. N
          BY <1>3, <3>1
        <4> QED
          BY <1>3, <2>1, <4>1, <4>2
      <3> QED
        BY <1>6, <3>1, <3>2
    <2> DEFINE t == FromKids(paths[d - 1], x)
    <2>5. Count(create[d][x], m) = (IF x = m THEN 1 ELSE 0) + Total(t)
      <3> DEFINE p == create[d - 1]
                 q == paths[d - 1]
      <3>1. /\ p \in Plain /\ q \in [Names -> Nat]
            /\ \A k \in 1 .. Len(Kids(x)) : q[Kids(x)[k]] = Count(p[Kids(x)[k]], m)
        BY <2>2, <2>4
      <3> HIDE DEF p, q
      <3>2. Count(Grown(x, Subtrees(p, x)), m)
              = (IF x = m THEN 1 ELSE 0) + Total(FromKids(q, x))
        BY <3>1, CountsUnfold
      <3> QED
        BY <2>3, <3>2 DEF p, q
    <2>6. /\ t \in Seq(Nat) /\ Len(t) = Len(Kids(x))
          /\ \A k \in 1 .. Len(Kids(x)) : t[k] = paths[d - 1][Kids(x)[k]]
      BY <2>2, FromKidsType
    <2>7. paths[d][x] = IF x = m THEN 1 ELSE Total(t)
      BY <1>2
    <2> HIDE DEF t
    <2>8. Total(t) \in Nat
      <3>1. PICK sum \in [0 .. Len(t) -> Nat] : Total(t) = sum[Len(t)]
        BY <2>6, TotalUnfolds
      <3>2. Len(t) \in 0 .. Len(t)
        BY <2>6
      <3> QED
        BY <3>1, <3>2
    <2>9. CASE x # m
      BY <2>5, <2>7, <2>8, <2>9
    <2>10. CASE x = m
      <3>1. \A k \in 1 .. Len(t) : t[k] = 0
        BY <1>4, <2>0, <2>4, <2>6, <2>10
      <3>2. Total(t) = 0
        BY <2>6, <3>1, TotalOfNone
      <3> QED
        BY <2>5, <2>7, <2>10, <3>2
    <2> QED
      BY <2>9, <2>10
  <1>7. \A d \in 0 .. N : d \in T
    <2> HIDE DEF T
    <2> QED
      BY <1>3, <1>5, <1>6, UpTo
  <1>8. N \in 0 .. N /\ H(n) <= N
    BY <1>3
  <1> QED
    BY <1>1, <1>2, <1>7, <1>8

\* Nothing is shared: a name has as many runs in a tree as there are paths to it along the
\* bindings, so a dependency of two tasks of one tree is executed twice.
THEOREM RunPerPath == BindingsSpec => []OneRunPerPath
  <1>1. BindingsInv => OneRunPerPath
    <2> SUFFICES ASSUME BindingsInv, NEW n \in Names, NEW m \in Names
                 PROVE  Cardinality({i \in DOMAIN Plans[n] : Plans[n][i].name = m}) = Paths(m)[n]
      BY DEF OneRunPerPath
    <2>1. Count(Plans[n], m) = Paths(m)[n]
      BY RunsArePaths DEF BindingsInv
    <2>2. TreeOf(Plans[n], n)
      BY PlanFollows DEF BindingsInv
    <2>3. DOMAIN Plans[n] = 1 .. Len(Plans[n])
      BY <2>2 DEF TreeOf
    <2> QED
      BY <2>1, <2>3 DEF Count, Positions
  <1> QED
    BY <1>1, BindingsInvariant, PTL
=============================================================================
