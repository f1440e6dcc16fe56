-------------------------- MODULE TaskRunnerProofs --------------------------
(***************************************************************************)
(* Machine-checked proofs about TaskRunner for every set of workers, tasks *)
(* and batches: type correctness, the exclusion of serial tasks and the    *)
(* exactness of running_count; that every task is in exactly one place and *)
(* none is lost or run twice, that batches are published in the order in   *)
(* which they were linked, that a wait returns no sooner than it may, what *)
(* may be left without a wake-up, that an owner's call is never left with  *)
(* nobody to serve it, and that the runner is a TaskPool.                  *)
(***************************************************************************)
EXTENDS TaskRunner, TLAPS, FiniteSetTheorems, SequenceTheorems

(* A worker that runs holds one task, and a worker that posts owes a permit. *)
HandsOK ==
    \A w \in Workers :
        /\ pc[w] = "run" => \E t \in Tasks : held[w] = {t}
        /\ pc[w] = "post" => posts[w] > 0

IInv == TypeOK /\ HandsOK /\ SerialLane /\ RunningExact

-----------------------------------------------------------------------------
(* Lemmas on sequences *)

\* Removing an element of a sequence, as VecDeque::remove does, leaves a sequence of the same type.
LEMMA RemoveAtType ==
    ASSUME NEW S, NEW s \in Seq(S), NEW i \in 1..Len(s)
    PROVE  RemoveAt(s, i) \in Seq(S)
<1>1. Len(s) \in Nat
  BY LenProperties
<1>2. SubSeq(s, 1, i-1) \in Seq(S) /\ SubSeq(s, i+1, Len(s)) \in Seq(S)
  <2>1. \A k \in 1..(i-1) : s[k] \in S
    BY <1>1, ElementOfSeq
  <2>2. \A k \in (i+1)..Len(s) : s[k] \in S
    BY <1>1, ElementOfSeq
  <2> QED
    BY <1>1, <2>1, <2>2, SubSeqProperties
<1> QED
  BY <1>2, ConcatProperties DEF RemoveAt

\* The set of a sequence's elements is within the type of the sequence.
LEMMA ToSetType ==
    ASSUME NEW S, NEW s \in Seq(S)
    PROVE  ToSet(s) \subseteq S
BY ElementOfSeq, LenProperties DEF ToSet

\* A prefix and a suffix of the ingress are sequences of tasks.
LEMMA SplitType ==
    ASSUME NEW S, NEW s \in Seq(S), NEW n \in 0..Len(s)
    PROVE  SubSeq(s, 1, n) \in Seq(S) /\ SubSeq(s, n+1, Len(s)) \in Seq(S)
<1>1. Len(s) \in Nat
  BY LenProperties
<1>2. \A k \in 1..n : s[k] \in S
  BY <1>1, ElementOfSeq
<1>3. \A k \in (n+1)..Len(s) : s[k] \in S
  BY <1>1, ElementOfSeq
<1> QED
  BY <1>1, <1>2, <1>3, SubSeqProperties
-----------------------------------------------------------------------------
(* Type correctness *)

\* The initial pool has the type.
LEMMA InitType == Init => TypeOK /\ HandsOK
<1> SUFFICES ASSUME Init PROVE TypeOK /\ HandsOK
  OBVIOUS
<1>1. incoming \in Seq(Tasks) /\ arrived \in Seq(Tasks) /\ spinning_tasks \in Seq(Tasks)
  BY EmptySeq DEF Init
<1>2. pc \in [Workers -> WorkerPCs] /\ \A w \in Workers : pc[w] \in {"sleep", "none"}
  BY DEF Init, WorkerPCs
<1>3. priority \in [Tasks -> Priorities]
  BY SetsAssumption DEF Init
<1>4. {tasks_sorted, stopping, serial_running, prefer_postponed_next} \subseteq BOOLEAN
  BY DEF Init
<1>5. /\ token \in [Batches -> Nat] /\ posts \in [Workers -> Nat]
      /\ held \in [Workers -> SUBSET Tasks]
  BY DEF Init
<1> QED
  BY <1>1, <1>2, <1>3, <1>4, <1>5 DEF Init, TypeOK, HandsOK, OwnerPCs, OwnerOps

\* The producers' steps keep the type.
LEMMA ProducerType ==
    ASSUME TypeOK, NEW b \in Batches, Link(b) \/ Publish(b) \/ PostPermit(b)
    PROVE  TypeOK'
<1>1. BatchTasks[b] \in Seq(Tasks) /\ Len(BatchTasks[b]) \in Nat
  BY BatchAssumption, LenProperties
<1>2. CASE Link(b)
  <2>1. incoming' \in Seq(Tasks)
    BY <1>1, <1>2, ConcatProperties DEF Link, TypeOK
  <2> QED
    BY <1>2, <2>1 DEF Link, TypeOK, queueVars, workerVars, ownerVars
<1>3. CASE Publish(b)
  BY <1>1, <1>3 DEF Publish, TypeOK, queueVars, workerVars, ownerVars
<1>4. CASE PostPermit(b)
  BY <1>4 DEF PostPermit, TypeOK, queueVars, workerVars, ownerVars
<1> QED
  BY <1>2, <1>3, <1>4

\* A refresh keeps the type: what it detaches are tasks.
LEMMA RefreshType ==
    ASSUME TypeOK, NEW w \in Workers, StartRefresh(w) \/ FinishRefresh(w)
    PROVE  TypeOK'
<1>1. CASE StartRefresh(w)
  <2>1. PICK n \in 0..Len(incoming) :
          /\ incoming' = SubSeq(incoming, n + 1, Len(incoming))
          /\ arrived' = arrived \o SubSeq(incoming, 1, n)
          /\ held' = [held EXCEPT ![w] = tasks \cup ToSet(SubSeq(incoming, 1, n))]
          /\ refreshing_count' = refreshing_count + Cardinality(tasks \cup ToSet(SubSeq(incoming, 1, n)))
    BY <1>1 DEF StartRefresh, Undrained
  <2>2. SubSeq(incoming, 1, n) \in Seq(Tasks) /\ incoming' \in Seq(Tasks)
    BY <2>1, SplitType DEF TypeOK
  <2>3. tasks \cup ToSet(SubSeq(incoming, 1, n)) \subseteq Tasks
    BY <2>2, ToSetType DEF TypeOK
  <2>4. Cardinality(tasks \cup ToSet(SubSeq(incoming, 1, n))) \in Nat
    BY <2>3, FS_Subset, FS_CardinalityType, SetsAssumption
  <2>5. arrived' \in Seq(Tasks)
    BY <2>1, <2>2, ConcatProperties DEF TypeOK
  <2>6. tasks_sorted' \in BOOLEAN
    BY <1>1 DEF StartRefresh, Sorted, TypeOK
  <2>7. held' \in [Workers -> SUBSET Tasks] /\ refreshing_count' \in Int
    BY <2>1, <2>3, <2>4 DEF TypeOK
  <2> QED
    BY <1>1, <2>2, <2>5, <2>6, <2>7 DEF StartRefresh, TypeOK, ownerVars, WorkerPCs
<1>2. CASE FinishRefresh(w)
  <2>1. PICK gone \in SUBSET (held[w] \cap (Cancellable \cup Panicking)),
             fresh \in [held[w] -> Priorities] :
          /\ priority' = [t \in Tasks |-> IF t \in held[w] THEN fresh[t] ELSE priority[t]]
          /\ completed_tasks' = completed_tasks \cup gone
          /\ tasks' = tasks \cup (held[w] \ gone)
          /\ AfterUnlock(w, Cardinality(held[w] \ gone))
    BY <1>2 DEF FinishRefresh
  <2>2. Cardinality(held[w] \ gone) \in Nat /\ Cardinality(held[w]) \in Nat
    BY FS_Subset, FS_CardinalityType, SetsAssumption DEF TypeOK
  <2>3. priority' \in [Tasks -> Priorities]
    BY <2>1 DEF TypeOK
  <2>4. pc' \in [Workers -> WorkerPCs] /\ posts' \in [Workers -> Nat]
    BY <2>1, <2>2 DEF TypeOK, AfterUnlock, WorkerPCs
  <2>5. tasks' \subseteq Tasks /\ completed_tasks' \subseteq Tasks
    BY <2>1 DEF TypeOK
  <2>6. owner' \in OwnerPCs /\ refreshing_count' \in Int /\ held' \in [Workers -> SUBSET Tasks]
    BY <1>2, <2>2 DEF FinishRefresh, NotifyAll, TypeOK, OwnerPCs
  <2>7. tasks_sorted' \in BOOLEAN
    BY <1>2 DEF FinishRefresh
  <2> QED
    BY <1>2, <2>3, <2>4, <2>5, <2>6, <2>7 DEF FinishRefresh, TypeOK, ingressVars
<1> QED
  BY <1>1, <1>2
\* Picking a task keeps the type.
LEMMA PickType ==
    ASSUME TypeOK, NEW w \in Workers, PickPrioritized(w) \/ PickPostponed(w)
    PROVE  TypeOK'
<1>1. ASSUME NEW t \in Tasks, StartTask(w, t)
      PROVE  /\ held' \in [Workers -> SUBSET Tasks] /\ pc' \in [Workers -> WorkerPCs]
             /\ running_count' \in Int
             /\ {serial_running', prefer_postponed_next'} \subseteq BOOLEAN
  BY <1>1 DEF StartTask, NextPreference, TypeOK, WorkerPCs
<1>2. CASE PickPrioritized(w)
  <2>1. PICK t \in PickableTasks : tasks' = tasks \ {t} /\ StartTask(w, t)
    BY <1>2 DEF PickPrioritized
  <2>2. t \in Tasks
    BY DEF PickableTasks, TypeOK
  <2> QED
    BY <1>1, <1>2, <2>1, <2>2 DEF PickPrioritized, StartTask, TypeOK, ingressVars, ownerVars
<1>3. CASE PickPostponed(w)
  <2>1. PICK i \in PickablePostponed :
          spinning_tasks' = RemoveAt(spinning_tasks, i) /\ StartTask(w, spinning_tasks[i])
    BY <1>3 DEF PickPostponed
  <2>2. i \in 1..Len(spinning_tasks) /\ spinning_tasks[i] \in Tasks
    BY LenProperties, ElementOfSeq DEF PickablePostponed, TypeOK
  <2>3. spinning_tasks' \in Seq(Tasks)
    BY <2>1, <2>2, RemoveAtType DEF TypeOK
  <2> QED
    BY <1>1, <1>3, <2>1, <2>2, <2>3 DEF PickPostponed, StartTask, TypeOK, ingressVars, ownerVars
<1> QED
  BY <1>2, <1>3

\* The end of a run keeps the type.
LEMMA EndRunType ==
    ASSUME TypeOK, NEW w \in Workers, Complete(w) \/ Postpone(w)
    PROVE  TypeOK'
<1>1. ASSUME NEW t \in Tasks, NEW p, EndRun(w, t, p)
      PROVE  /\ held' \in [Workers -> SUBSET Tasks] /\ pc' \in [Workers -> WorkerPCs]
             /\ posts' \in [Workers -> Nat] /\ running_count' \in Int
             /\ serial_running' \in BOOLEAN /\ owner' \in OwnerPCs
  BY <1>1 DEF EndRun, PermitsAfterRun, AfterUnlock, NotifyAll, TypeOK, WorkerPCs, OwnerPCs
<1>2. CASE Complete(w)
  <2>1. PICK t \in held[w] : completed_tasks' = completed_tasks \cup {t} /\ EndRun(w, t, FALSE)
    BY <1>2 DEF Complete
  <2>2. t \in Tasks
    BY DEF TypeOK
  <2> QED
    BY <1>1, <1>2, <2>1, <2>2 DEF Complete, EndRun, TypeOK, ingressVars
<1>3. CASE Postpone(w)
  <2>1. PICK t \in held[w] : spinning_tasks' = Append(spinning_tasks, t) /\ EndRun(w, t, TRUE)
    BY <1>3 DEF Postpone
  <2>2. t \in Tasks
    BY DEF TypeOK
  <2>3. spinning_tasks' \in Seq(Tasks)
    BY <2>1, <2>2, AppendProperties DEF TypeOK
  <2> QED
    BY <1>1, <1>3, <2>1, <2>2, <2>3 DEF Postpone, EndRun, TypeOK, ingressVars
<1> QED
  BY <1>2, <1>3

\* The worker's remaining steps keep the type.
LEMMA WorkerType ==
    ASSUME TypeOK, HandsOK, NEW w \in Workers,
           Wake(w) \/ Exit(w) \/ FindNothing(w) \/ WorkerPost(w)
    PROVE  TypeOK'
<1>1. CASE Wake(w)
  BY <1>1 DEF Wake, TypeOK, WorkerPCs, ingressVars, queueVars, ownerVars
<1>2. CASE Exit(w)
  BY <1>2 DEF Exit, TypeOK, WorkerPCs, ingressVars, queueVars, ownerVars
<1>3. CASE FindNothing(w)
  BY <1>3 DEF FindNothing, TypeOK, WorkerPCs, ingressVars, queueVars, ownerVars
<1>4. CASE WorkerPost(w)
  BY <1>4 DEF WorkerPost, HandsOK, TypeOK, WorkerPCs, ingressVars, queueVars, ownerVars
<1> QED
  BY <1>1, <1>2, <1>3, <1>4

\* The owner's steps keep the type.
LEMMA OwnerType ==
    ASSUME TypeOK, OwnerStep \/ DrainCompleted \/ \E name \in OwnerOps : Call(name)
    PROVE  TypeOK'
<1>1. Cardinality(Threads) \in Nat
  <2>1. Threads \subseteq Workers
    BY DEF Threads
  <2> QED
    BY <2>1, FS_Subset, FS_CardinalityType, SetsAssumption
<1>2. LinkedTasks \subseteq Tasks
  <2>1. \A b \in Batches : ToSet(BatchTasks[b]) \subseteq Tasks
    BY BatchAssumption, ToSetType
  <2> QED
    BY <2>1 DEF LinkedTasks, TypeOK
<1>3. ASSUME NEW name \in OwnerOps, Call(name)
      PROVE  TypeOK'
  BY <1>2, <1>3 DEF Call, TypeOK, OwnerPCs, OwnerOps, ingressVars, queueVars, workerVars
<1>4. CASE CheckIdle
  BY <1>4 DEF CheckIdle, TypeOK, OwnerPCs, OwnerOps, ingressVars, queueVars, workerVars
<1>5. CASE StopThreads
  BY <1>1, <1>5 DEF StopThreads, TypeOK, OwnerPCs, ingressVars, queueVars, workerVars
<1>6. CASE PostStop
  BY <1>6 DEF PostStop, TypeOK, OwnerPCs, ingressVars, queueVars, workerVars
<1>7. CASE Join
  <2>1. pc' \in [Workers -> WorkerPCs] /\ owner' \in OwnerPCs /\ op' \in OwnerOps
    BY <1>7 DEF Join, WorkerPCs, OwnerPCs, OwnerOps
  <2>2. stopping' \in BOOLEAN
    BY <1>7 DEF Join, TypeOK
  <2> QED
    BY <1>7, <2>1, <2>2 DEF Join, TypeOK, ingressVars, queueVars
<1>8. CASE DrainCompleted
  BY <1>8 DEF DrainCompleted, TypeOK, ingressVars, workerVars, ownerVars
<1> QED
  BY <1>3, <1>4, <1>5, <1>6, <1>7, <1>8 DEF OwnerStep

\* Every step keeps the type.
LEMMA NextType ==
    ASSUME TypeOK, HandsOK, [Next]_vars
    PROVE  TypeOK'
<1>1. CASE UNCHANGED vars
  BY <1>1 DEF TypeOK, vars, ingressVars, queueVars, workerVars, ownerVars
<1>2. CASE Next
  BY <1>2, ProducerType, RefreshType, PickType, EndRunType, WorkerType, OwnerType
     DEF Next, WorkerStep
<1> QED
  BY <1>1, <1>2
-----------------------------------------------------------------------------
(* What a step does to the workers' hands *)

\* A pick gives the worker exactly the task it starts.
LEMMA PickStarts ==
    ASSUME TypeOK, NEW w \in Workers, PickPrioritized(w) \/ PickPostponed(w)
    PROVE  /\ pc[w] = "awake"
           /\ \E t \in Tasks : /\ StartTask(w, t)
                               /\ serial_running => t \notin Serial
<1>1. CASE PickPrioritized(w)
  BY <1>1 DEF PickPrioritized, PickableTasks, TypeOK
<1>2. CASE PickPostponed(w)
  <2>1. \A i \in PickablePostponed : spinning_tasks[i] \in Tasks
    BY LenProperties, ElementOfSeq DEF PickablePostponed, TypeOK
  <2> QED
    BY <1>2, <2>1 DEF PickPostponed, PickablePostponed
<1> QED
  BY <1>1, <1>2

\* A run that ends, ends for the one task in the worker's hands.
LEMMA RunEnds ==
    ASSUME TypeOK, HandsOK, NEW w \in Workers, Complete(w) \/ Postpone(w)
    PROVE  /\ pc[w] = "run"
           /\ \E t \in Tasks, p \in BOOLEAN : held[w] = {t} /\ EndRun(w, t, p)
BY DEF Complete, Postpone, HandsOK

\* The steps that touch no worker that runs: the pool's threads, and the
\* serial flag, stay as they are as far as running tasks are concerned.
Quiet ==
    /\ serial_running' = serial_running
    /\ running_count' = running_count
    /\ \A w \in Workers :
         /\ (pc[w] = "run") <=> (pc'[w] = "run")
         /\ pc[w] = "run" => held'[w] = held[w]
         /\ pc'[w] = "post" => posts'[w] > 0

\* Every step but a pick and the end of a run is quiet.
LEMMA QuietSteps ==
    ASSUME TypeOK, HandsOK, [Next]_vars,
           ~ \E w \in Workers : PickPrioritized(w) \/ PickPostponed(w) \/ Complete(w) \/ Postpone(w)
    PROVE  Quiet
<1>1. CASE UNCHANGED vars
  BY <1>1 DEF vars, queueVars, workerVars, Quiet, HandsOK
<1>2. CASE \E b \in Batches : Link(b) \/ Publish(b) \/ PostPermit(b)
  BY <1>2 DEF Link, Publish, PostPermit, queueVars, workerVars, Quiet, HandsOK
<1>3. ASSUME NEW v \in Workers, StartRefresh(v)
      PROVE  Quiet
  BY <1>3 DEF StartRefresh, Quiet, HandsOK, TypeOK
<1>4. ASSUME NEW v \in Workers, FinishRefresh(v)
      PROVE  Quiet
  <2>1. PICK n : n \in Nat /\ AfterUnlock(v, n)
    <3>1. PICK gone \in SUBSET held[v] : AfterUnlock(v, Cardinality(held[v] \ gone))
      BY <1>4 DEF FinishRefresh
    <3>2. Cardinality(held[v] \ gone) \in Nat
      BY FS_Subset, FS_CardinalityType, SetsAssumption DEF TypeOK
    <3> QED
      BY <3>1, <3>2
  <2> QED
    BY <1>4, <2>1 DEF FinishRefresh, AfterUnlock, Quiet, HandsOK, TypeOK
<1>5. ASSUME NEW v \in Workers, Wake(v) \/ Exit(v) \/ FindNothing(v)
      PROVE  Quiet
  BY <1>5 DEF Wake, Exit, FindNothing, queueVars, Quiet, HandsOK, TypeOK
<1>6. ASSUME NEW v \in Workers, WorkerPost(v)
      PROVE  Quiet
  BY <1>6 DEF WorkerPost, queueVars, Quiet, HandsOK, TypeOK
<1>7. CASE DrainCompleted \/ \E name \in OwnerOps : Call(name)
  BY <1>7 DEF DrainCompleted, Call, queueVars, workerVars, Quiet, HandsOK
<1>8. CASE CheckIdle \/ StopThreads \/ PostStop
  BY <1>8 DEF CheckIdle, StopThreads, PostStop, queueVars, workerVars, Quiet, HandsOK
<1>9. CASE Join
  <2>1. \A w \in Workers : pc[w] # "run" /\ pc'[w] \in {"sleep", "none"}
    BY <1>9 DEF Join, Threads
  <2> QED
    BY <1>9, <2>1 DEF Join, queueVars, Quiet
<1> QED
  BY <1>1, <1>2, <1>3, <1>4, <1>5, <1>6, <1>7, <1>8, <1>9 DEF Next, WorkerStep, OwnerStep

-----------------------------------------------------------------------------
(* The invariant is inductive *)

\* Every step keeps one task per running worker and a permit owed per poster.
LEMMA HandsStep ==
    ASSUME TypeOK, HandsOK, [Next]_vars
    PROVE  HandsOK'
<1>1. ASSUME NEW w \in Workers, PickPrioritized(w) \/ PickPostponed(w)
      PROVE  HandsOK'
  <2>1. PICK t \in Tasks : StartTask(w, t)
    BY <1>1, PickStarts
  <2> QED
    BY <2>1 DEF StartTask, HandsOK, TypeOK
<1>2. ASSUME NEW w \in Workers, Complete(w) \/ Postpone(w)
      PROVE  HandsOK'
  <2>1. PICK t \in Tasks, p \in BOOLEAN : EndRun(w, t, p)
    BY <1>2, RunEnds
  <2> QED
    BY <2>1 DEF EndRun, PermitsAfterRun, AfterUnlock, HandsOK, TypeOK
<1>3. CASE Quiet
  BY <1>3 DEF Quiet, HandsOK
<1> QED
  BY <1>1, <1>2, <1>3, QuietSteps

\* Every step keeps the serial lane exclusive and its flag exact.
LEMMA SerialStep ==
    ASSUME TypeOK, HandsOK, SerialLane, [Next]_vars
    PROVE  SerialLane'
<1>1. ASSUME NEW w \in Workers, PickPrioritized(w) \/ PickPostponed(w)
      PROVE  SerialLane'
  <2>1. PICK t \in Tasks : StartTask(w, t) /\ (serial_running => t \notin Serial)
    BY <1>1, PickStarts
  <2>2. pc[w] # "run" /\ ~ RunsSerial(w)
    BY <1>1, PickStarts DEF RunsSerial
  <2>3. RunsSerial(w)' <=> t \in Serial
    BY <2>1 DEF StartTask, RunsSerial, TypeOK
  <2>4. \A v \in Workers \ {w} : RunsSerial(v)' <=> RunsSerial(v)
    BY <2>1 DEF StartTask, RunsSerial, TypeOK
  <2>5. serial_running' <=> (serial_running \/ t \in Serial)
    BY <2>1 DEF StartTask
  <2> QED
    BY <2>1, <2>2, <2>3, <2>4, <2>5 DEF SerialLane
<1>2. ASSUME NEW w \in Workers, Complete(w) \/ Postpone(w)
      PROVE  SerialLane'
  <2>1. PICK t \in Tasks, p \in BOOLEAN : held[w] = {t} /\ EndRun(w, t, p)
    BY <1>2, RunEnds
  <2>2. RunsSerial(w) <=> t \in Serial
    BY <1>2, <2>1, RunEnds DEF RunsSerial
  <2>3. ~ RunsSerial(w)'
    BY <2>1 DEF EndRun, PermitsAfterRun, AfterUnlock, RunsSerial, TypeOK
  <2>4. \A v \in Workers \ {w} : RunsSerial(v)' <=> RunsSerial(v)
    BY <2>1 DEF EndRun, PermitsAfterRun, AfterUnlock, RunsSerial, TypeOK
  <2>5. serial_running' <=> (serial_running /\ t \notin Serial)
    BY <2>1 DEF EndRun
  <2> QED
    BY <2>2, <2>3, <2>4, <2>5 DEF SerialLane
<1>3. CASE Quiet
  <2>1. \A w \in Workers : RunsSerial(w)' <=> RunsSerial(w)
    BY <1>3 DEF Quiet, RunsSerial
  <2> QED
    BY <1>3, <2>1 DEF Quiet, SerialLane
<1> QED
  BY <1>1, <1>2, <1>3, QuietSteps

\* Every step keeps running_count equal to the number of running workers.
LEMMA RunningStep ==
    ASSUME TypeOK, HandsOK, RunningExact, [Next]_vars
    PROVE  RunningExact'
<1>0. IsFiniteSet(InPhase("run")) /\ Cardinality(InPhase("run")) \in Nat
  <2>1. InPhase("run") \subseteq Workers
    BY DEF InPhase
  <2> QED
    BY <2>1, FS_Subset, FS_CardinalityType, SetsAssumption
<1>1. ASSUME NEW w \in Workers, PickPrioritized(w) \/ PickPostponed(w)
      PROVE  RunningExact'
  <2>1. PICK t \in Tasks : StartTask(w, t)
    BY <1>1, PickStarts
  <2>2. w \notin InPhase("run")
    BY <1>1, PickStarts DEF InPhase
  <2>3. InPhase("run")' = InPhase("run") \cup {w}
    BY <2>1 DEF StartTask, InPhase, TypeOK
  <2>4. running_count' = running_count + 1
    BY <2>1 DEF StartTask
  <2> QED
    BY <1>0, <2>2, <2>3, <2>4, FS_AddElement DEF RunningExact
<1>2. ASSUME NEW w \in Workers, Complete(w) \/ Postpone(w)
      PROVE  RunningExact'
  <2>1. PICK t \in Tasks, p \in BOOLEAN : EndRun(w, t, p)
    BY <1>2, RunEnds
  <2>2. w \in InPhase("run")
    BY <1>2, RunEnds DEF InPhase
  <2>3. InPhase("run")' = InPhase("run") \ {w}
    BY <2>1 DEF EndRun, PermitsAfterRun, AfterUnlock, InPhase, TypeOK
  <2>4. running_count' = running_count - 1
    BY <2>1 DEF EndRun
  <2> QED
    BY <1>0, <2>2, <2>3, <2>4, FS_RemoveElement DEF RunningExact
<1>3. CASE Quiet
  BY <1>3 DEF Quiet, RunningExact, InPhase
<1> QED
  BY <1>1, <1>2, <1>3, QuietSteps

\* The initial pool satisfies the invariant.
LEMMA InitInv == Init => IInv
<1> SUFFICES ASSUME Init PROVE IInv
  OBVIOUS
<1>1. TypeOK /\ HandsOK
  BY InitType
<1>2. \A w \in Workers : pc[w] # "run"
  BY DEF Init
<1>3. SerialLane
  BY <1>2 DEF Init, SerialLane, RunsSerial
<1>4. InPhase("run") = {}
  BY <1>2 DEF InPhase
<1>5. RunningExact
  BY <1>4, FS_EmptySet DEF Init, RunningExact
<1> QED
  BY <1>1, <1>3, <1>5 DEF IInv

\* The strengthened invariant holds in every reachable state.
THEOREM Invariance == Spec => []IInv
<1>1. Init => IInv
  BY InitInv
<1>2. IInv /\ [Next]_vars => IInv'
  BY NextType, HandsStep, SerialStep, RunningStep DEF IInv
<1> QED
  BY <1>1, <1>2, PTL DEF Spec

\* The runner's state always has its type.
THEOREM TypeCorrect == Spec => []TypeOK
BY Invariance, PTL DEF IInv

\* Two serial tasks never run at once and serial_running says whether one does.
THEOREM SerialExclusion == Spec => []SerialLane
BY Invariance, PTL DEF IInv

\* running_count is the number of running workers, so it never underflows.
THEOREM RunningCounted == Spec => []RunningExact
BY Invariance, PTL DEF IInv
-----------------------------------------------------------------------------
(* More lemmas on sequences *)

\* The elements of two sequences without repetition and without a common
\* element are those of the two joined.
LEMMA JoinElements ==
    ASSUME NEW S, NEW u \in Seq(S), NEW v \in Seq(S), IsInjective(u), IsInjective(v),
           ToSet(u) \cap ToSet(v) = {}
    PROVE  /\ u \o v \in Seq(S) /\ IsInjective(u \o v)
           /\ ToSet(u \o v) = ToSet(u) \cup ToSet(v)
<1>1. PICK s : s = u \o v
  OBVIOUS
<1>2. /\ s \in Seq(S) /\ Len(u) \in Nat /\ Len(v) \in Nat /\ Len(s) = Len(u) + Len(v)
      /\ \A i \in 1..Len(u) + Len(v) : s[i] = IF i <= Len(u) THEN u[i] ELSE v[i - Len(u)]
  BY <1>1, ConcatProperties, LenProperties
<1>3. DOMAIN u = 1..Len(u) /\ DOMAIN v = 1..Len(v) /\ DOMAIN s = 1..Len(s)
  BY <1>2, LenProperties
<1>4. \A i \in 1..Len(u) : s[i] = u[i] /\ i \in 1..Len(s)
  BY <1>2
<1>5. \A i \in 1..Len(v) : s[Len(u) + i] = v[i] /\ Len(u) + i \in 1..Len(s)
  BY <1>2
<1>6. ASSUME NEW i \in 1..Len(s), i \notin 1..Len(u)
      PROVE  \E j \in 1..Len(v) : i = Len(u) + j
  <2>1. i - Len(u) \in 1..Len(v) /\ i = Len(u) + (i - Len(u))
    BY <1>2, <1>6
  <2> QED
    BY <2>1
<1>7. IsInjective(s)
  <2>1. SUFFICES ASSUME NEW i \in 1..Len(s), NEW j \in 1..Len(s), s[i] = s[j]
                 PROVE  i = j
    BY <1>3 DEF IsInjective
  <2>2. CASE i \in 1..Len(u) /\ j \in 1..Len(u)
    BY <1>3, <1>4, <2>1, <2>2 DEF IsInjective
  <2>3. CASE i \in 1..Len(u) /\ j \notin 1..Len(u)
    <3>1. PICK n \in 1..Len(v) : j = Len(u) + n
      BY <1>6, <2>3
    <3>2. u[i] = v[n]
      BY <1>4, <1>5, <2>1, <2>3, <3>1
    <3>3. u[i] \in ToSet(u) /\ v[n] \in ToSet(v)
      BY <1>3, <2>3 DEF ToSet
    <3> QED
      BY <3>2, <3>3
  <2>4. CASE i \notin 1..Len(u) /\ j \in 1..Len(u)
    <3>1. PICK m \in 1..Len(v) : i = Len(u) + m
      BY <1>6, <2>4
    <3>2. u[j] = v[m]
      BY <1>4, <1>5, <2>1, <2>4, <3>1
    <3>3. u[j] \in ToSet(u) /\ v[m] \in ToSet(v)
      BY <1>3, <2>4 DEF ToSet
    <3> QED
      BY <3>2, <3>3
  <2>5. CASE i \notin 1..Len(u) /\ j \notin 1..Len(u)
    <3>1. PICK m \in 1..Len(v) : i = Len(u) + m
      BY <1>6, <2>5
    <3>2. PICK n \in 1..Len(v) : j = Len(u) + n
      BY <1>6, <2>5
    <3>3. v[m] = v[n]
      BY <1>5, <2>1, <3>1, <3>2
    <3>4. m = n
      BY <1>3, <3>3 DEF IsInjective
    <3> QED
      BY <3>1, <3>2, <3>4
  <2> QED
    BY <2>2, <2>3, <2>4, <2>5
<1>8. ToSet(s) = ToSet(u) \cup ToSet(v)
  <2>1. ASSUME NEW i \in 1..Len(s)
        PROVE  s[i] \in ToSet(u) \cup ToSet(v)
    <3>1. CASE i \in 1..Len(u)
      BY <1>3, <1>4, <3>1 DEF ToSet
    <3>2. CASE i \notin 1..Len(u)
      <4>1. PICK n \in 1..Len(v) : i = Len(u) + n
        BY <1>6, <3>2
      <4>2. s[i] = v[n]
        BY <1>5, <4>1
      <4> QED
        BY <1>3, <4>2 DEF ToSet
    <3> QED
      BY <3>1, <3>2
  <2>2. ToSet(s) \subseteq ToSet(u) \cup ToSet(v)
    BY <1>3, <2>1 DEF ToSet
  <2>3. ToSet(u) \subseteq ToSet(s)
    BY <1>3, <1>4 DEF ToSet
  <2>4. ToSet(v) \subseteq ToSet(s)
    BY <1>3, <1>5 DEF ToSet
  <2> QED
    BY <2>2, <2>3, <2>4
<1> QED
  BY <1>1, <1>2, <1>7, <1>8

\* A sequence without repetition is split into two of the kind.
LEMMA PartElements ==
    ASSUME NEW S, NEW u \in Seq(S), NEW v \in Seq(S), NEW s, s = u \o v, IsInjective(s)
    PROVE  /\ IsInjective(u) /\ IsInjective(v) /\ ToSet(u) \cap ToSet(v) = {}
           /\ ToSet(s) = ToSet(u) \cup ToSet(v)
<1>2. /\ s \in Seq(S) /\ Len(u) \in Nat /\ Len(v) \in Nat /\ Len(s) = Len(u) + Len(v)
      /\ \A i \in 1..Len(u) + Len(v) : s[i] = IF i <= Len(u) THEN u[i] ELSE v[i - Len(u)]
  BY ConcatProperties, LenProperties
<1>3. DOMAIN u = 1..Len(u) /\ DOMAIN v = 1..Len(v) /\ DOMAIN s = 1..Len(s)
  BY <1>2, LenProperties
<1>4. \A i \in 1..Len(u) : s[i] = u[i] /\ i \in 1..Len(s)
  BY <1>2
<1>5. \A i \in 1..Len(v) : s[Len(u) + i] = v[i] /\ Len(u) + i \in 1..Len(s)
  BY <1>2
<1>6. \A i, j \in 1..Len(s) : s[i] = s[j] => i = j
  BY <1>3 DEF IsInjective
<1>7. IsInjective(u)
  BY <1>3, <1>4, <1>6 DEF IsInjective
<1>8. IsInjective(v)
  <2>1. SUFFICES ASSUME NEW i \in 1..Len(v), NEW j \in 1..Len(v), v[i] = v[j]
                 PROVE  i = j
    BY <1>3 DEF IsInjective
  <2>2. /\ s[Len(u) + i] = v[i] /\ Len(u) + i \in 1..Len(s)
        /\ s[Len(u) + j] = v[j] /\ Len(u) + j \in 1..Len(s)
    BY <1>5
  <2>3. Len(u) + i = Len(u) + j
    BY <1>6, <2>1, <2>2
  <2> QED
    BY <1>2, <2>3
<1>9. ToSet(u) \cap ToSet(v) = {}
  <2>1. ASSUME NEW i \in 1..Len(u), NEW j \in 1..Len(v), u[i] = v[j]
        PROVE  FALSE
    <3>1. s[i] = u[i] /\ i \in 1..Len(s)
      BY <1>4
    <3>2. s[Len(u) + j] = v[j] /\ Len(u) + j \in 1..Len(s)
      BY <1>5
    <3>3. i = Len(u) + j
      BY <1>6, <2>1, <3>1, <3>2
    <3> QED
      BY <1>2, <3>3
  <2> QED
    BY <1>3, <2>1 DEF ToSet
<1> QED
  BY <1>7, <1>8, <1>9, JoinElements

\* One more postponed task.
LEMMA AppendElement ==
    ASSUME NEW S, NEW s \in Seq(S), NEW e \in S, IsInjective(s), e \notin ToSet(s)
    PROVE  IsInjective(Append(s, e)) /\ ToSet(Append(s, e)) = ToSet(s) \cup {e}
<1>1. PICK w : w = <<e>>
  OBVIOUS
<1>2. w \in Seq(S) /\ Append(s, e) = s \o w
  BY <1>1, AppendIsConcat
<1>3. IsInjective(w) /\ ToSet(w) = {e}
  BY <1>1 DEF IsInjective, ToSet
<1>4. ToSet(s) \cap ToSet(w) = {}
  BY <1>3
<1>5. IsInjective(s \o w) /\ ToSet(s \o w) = ToSet(s) \cup ToSet(w)
  BY <1>2, <1>3, <1>4, JoinElements
<1> QED
  BY <1>2, <1>3, <1>5

\* A sequence that grows at its end keeps what it has.
LEMMA GrowsAtEnd ==
    ASSUME NEW S, NEW s \in Seq(S), NEW b \in Seq(S), NEW t, t = s \o b
    PROVE  IsPrefix(s, t)
<1>1. /\ t \in Seq(S) /\ Len(s) \in Nat /\ Len(b) \in Nat /\ Len(t) = Len(s) + Len(b)
      /\ \A i \in 1..Len(s) + Len(b) : t[i] = IF i <= Len(s) THEN s[i] ELSE b[i - Len(s)]
  BY ConcatProperties, LenProperties
<1>2. \A i \in 1..Len(s) : t[i] = s[i] /\ s[i] \in S
  BY <1>1, ElementOfSeq
<1>3. PICK p : p = SubSeq(t, 1, Len(s))
  OBVIOUS
<1>4. p \in Seq(S) /\ Len(p) = Len(s) /\ \A i \in 1..Len(s) : p[i] = s[i]
  <2>1. \A i \in 1..Len(s) : t[i] \in S
    BY <1>2
  <2> QED
    BY <1>1, <1>2, <1>3, <2>1, SubSeqProperties
<1>5. p = s
  BY <1>4, SeqEqual
<1> QED
  BY <1>1, <1>3, <1>5, SubSeqFull DEF IsPrefix

\* Some of the ingress is drained, the rest is kept.
LEMMA SplitJoins ==
    ASSUME NEW S, NEW s \in Seq(S), NEW n \in 0..Len(s)
    PROVE  SubSeq(s, 1, n) \o SubSeq(s, n + 1, Len(s)) = s
<1>1. Len(s) \in Nat /\ 1 \in 1..Len(s)+1 /\ n \in 1-1..Len(s) /\ Len(s) \in n..Len(s)
  BY LenProperties
<1> QED
  BY <1>1, ConcatAdjacentSubSeq, SubSeqFull

\* A postponed task leaves.
LEMMA RemoveElement ==
    ASSUME NEW S, NEW s \in Seq(S), NEW i \in 1..Len(s), IsInjective(s)
    PROVE  /\ IsInjective(RemoveAt(s, i)) /\ ToSet(RemoveAt(s, i)) = ToSet(s) \ {s[i]}
           /\ s[i] \in ToSet(s)
<1>1. /\ Len(s) \in Nat /\ i - 1 \in 0..Len(s) /\ i \in 0..Len(s) /\ (i - 1) + 1 = i
      /\ DOMAIN s = 1..Len(s)
  BY LenProperties
<1>2. PICK u : u = SubSeq(s, 1, i - 1)
  OBVIOUS
<1>3. PICK b : b = SubSeq(s, (i - 1) + 1, Len(s))
  OBVIOUS
<1>4. PICK a : a = SubSeq(s, 1, i)
  OBVIOUS
<1>5. PICK v : v = SubSeq(s, i + 1, Len(s))
  OBVIOUS
<1>6. /\ u \in Seq(S) /\ b \in Seq(S) /\ u \o b = s /\ IsInjective(u)
      /\ ToSet(s) = ToSet(u) \cup ToSet(b) /\ ToSet(u) \cap ToSet(b) = {}
  <2>1. u \o b = s
    BY <1>1, <1>2, <1>3, SplitJoins
  <2>2. u \in Seq(S) /\ b \in Seq(S)
    BY <1>1, <1>2, <1>3, SplitType
  <2> QED
    BY <2>1, <2>2, PartElements
<1>7. /\ a \in Seq(S) /\ v \in Seq(S) /\ a \o v = s /\ IsInjective(v)
      /\ ToSet(s) = ToSet(a) \cup ToSet(v) /\ ToSet(a) \cap ToSet(v) = {}
  <2>1. a \o v = s
    BY <1>1, <1>4, <1>5, SplitJoins
  <2>2. a \in Seq(S) /\ v \in Seq(S)
    BY <1>1, <1>4, <1>5, SplitType
  <2> QED
    BY <2>1, <2>2, PartElements
<1>8. \A k \in 1..Len(s) : s[k] \in S
  BY ElementOfSeq
<1>9. Len(u) = i - 1 /\ \A k \in 1..(i - 1) : u[k] = s[k]
  <2>1. \A k \in 1..(i - 1) : s[k] \in S
    BY <1>1, <1>8
  <2> QED
    BY <1>1, <1>2, <2>1, SubSeqProperties
<1>10. Len(a) = i /\ \A k \in 1..i : a[k] = s[k]
  <2>1. \A k \in 1..i : s[k] \in S
    BY <1>1, <1>8
  <2> QED
    BY <1>1, <1>4, <2>1, SubSeqProperties
<1>11. ToSet(a) = ToSet(u) \cup {s[i]}
  <2>1. DOMAIN a = 1..i /\ DOMAIN u = 1..(i - 1)
    BY <1>6, <1>7, <1>9, <1>10, LenProperties
  <2>2. \A k \in 1..i : k \in 1..(i - 1) \/ k = i
    BY <1>1
  <2>3. i \in 1..i /\ \A k \in 1..(i - 1) : k \in 1..i
    BY <1>1
  <2>4. ToSet(a) \subseteq ToSet(u) \cup {s[i]}
    BY <1>9, <1>10, <2>1, <2>2 DEF ToSet
  <2>5. ToSet(u) \cup {s[i]} \subseteq ToSet(a)
    BY <1>9, <1>10, <2>1, <2>3 DEF ToSet
  <2> QED
    BY <2>4, <2>5
<1>12. s[i] \in ToSet(s) /\ s[i] \notin ToSet(u)
  <2>1. DOMAIN u = 1..(i - 1)
    BY <1>6, <1>9, LenProperties
  <2>2. \A k \in 1..(i - 1) : k \in DOMAIN s /\ k # i
    BY <1>1
  <2>3. \A k \in 1..(i - 1) : u[k] # s[i]
    BY <1>1, <1>9, <2>2 DEF IsInjective
  <2> QED
    BY <1>1, <2>1, <2>3 DEF ToSet
<1>13. ToSet(u) \cap ToSet(v) = {} /\ ToSet(u) \cup ToSet(v) = ToSet(s) \ {s[i]}
  BY <1>7, <1>11, <1>12
<1>14. IsInjective(u \o v) /\ ToSet(u \o v) = ToSet(u) \cup ToSet(v)
  BY <1>6, <1>7, <1>13, JoinElements
<1> QED
  BY <1>2, <1>5, <1>12, <1>13, <1>14 DEF RemoveAt

-----------------------------------------------------------------------------
(* Every task is in one place *)

Hands == UNION {held[w] : w \in Workers}

\* no task is in two of the places
Apart(I, Q, P, C, D, H) ==
    /\ I \cap (Q \cup P \cup C \cup D \cup H) = {}
    /\ Q \cap (P \cup C \cup D \cup H) = {}
    /\ P \cap (C \cup D \cup H) = {}
    /\ C \cap (D \cup H) = {}
    /\ D \cap H = {}

PlacesOK ==
    /\ LinkedTasks = ToSet(incoming) \cup tasks \cup ToSet(spinning_tasks) \cup completed_tasks
                     \cup drained \cup Hands
    /\ Apart(ToSet(incoming), tasks, ToSet(spinning_tasks), completed_tasks, drained, Hands)
    /\ IsInjective(incoming) /\ IsInjective(spinning_tasks)

\* a worker has tasks in its hands while it runs or refreshes them
HandsApart ==
    /\ \A w \in Workers : pc[w] \notin {"run", "refresh"} => held[w] = {}
    /\ \A w, v \in Workers : w # v => held[w] \cap held[v] = {}

Refreshed == UNION {held[w] : w \in InPhase("refresh")}

AInv == IInv /\ HandsApart /\ PlacesOK /\ RefreshingExact /\ awaited \subseteq LinkedTasks

\* A worker's hands are filled or emptied.
LEMMA Handed ==
    ASSUME TypeOK, HandsApart, NEW w \in Workers, NEW S \in SUBSET Tasks,
           held' = [held EXCEPT ![w] = S], S \cap (Hands \ held[w]) = {},
           pc'[w] \in {"run", "refresh"} \/ S = {},
           \A v \in Workers \ {w} : pc'[v] = pc[v]
    PROVE  /\ HandsApart' /\ Hands' = (Hands \ held[w]) \cup S
           /\ held[w] \subseteq Hands
<1>1. held'[w] = S /\ \A v \in Workers \ {w} : held'[v] = held[v]
  BY DEF TypeOK
<1>2. \A v \in Workers \ {w} : held[v] \cap held[w] = {}
  BY DEF HandsApart
<1>3. \A v \in Workers : held[v] \subseteq Hands
  BY DEF Hands
<1>4. Hands' = (Hands \ held[w]) \cup S
  BY <1>1, <1>2 DEF Hands
<1>5. \A v \in Workers \ {w} : held[v] \cap S = {}
  BY <1>2, <1>3
<1>6. HandsApart'
  BY <1>1, <1>5 DEF HandsApart
<1> QED
  BY <1>3, <1>4, <1>6

\* Steps that move no task.
LEMMA PlacesStay ==
    ASSUME AInv, UNCHANGED <<incoming, linked, tasks, spinning_tasks, completed_tasks, drained, held>>
    PROVE  PlacesOK'
BY DEF AInv, PlacesOK, LinkedTasks, Hands

\* The tasks of a batch are new when it is linked.
LEMMA BatchIsNew ==
    ASSUME NEW b \in Batches, b \notin linked, linked \subseteq Batches
    PROVE  ToSet(BatchTasks[b]) \cap LinkedTasks = {}
BY BatchAssumption DEF LinkedTasks

LEMMA LinkPlaces ==
    ASSUME AInv, NEW b \in Batches, Link(b)
    PROVE  PlacesOK' /\ LinkedTasks' = LinkedTasks \cup ToSet(BatchTasks[b])
<1>1. /\ b \notin linked /\ linked' = linked \cup {b} /\ incoming' = incoming \o BatchTasks[b]
      /\ UNCHANGED <<tasks, spinning_tasks, completed_tasks, drained, held>>
  BY DEF Link, queueVars, workerVars
<1>2. /\ incoming \in Seq(Tasks) /\ linked \subseteq Batches /\ PlacesOK
  BY DEF AInv, IInv, TypeOK
<1>3. PICK s : s = BatchTasks[b]
  OBVIOUS
<1>4. s \in Seq(Tasks) /\ IsInjective(s)
  BY <1>3, BatchAssumption
<1>5. ToSet(s) \cap LinkedTasks = {}
  BY <1>1, <1>2, <1>3, BatchIsNew
<1>6. LinkedTasks' = LinkedTasks \cup ToSet(s)
  BY <1>1, <1>3 DEF LinkedTasks
<1>7. ToSet(incoming) \cap ToSet(s) = {}
  BY <1>2, <1>5 DEF PlacesOK
<1>8. IsInjective(incoming') /\ ToSet(incoming') = ToSet(incoming) \cup ToSet(s)
  BY <1>1, <1>2, <1>3, <1>4, <1>7, JoinElements DEF PlacesOK
<1>9. Hands' = Hands
  BY <1>1 DEF Hands
<1>10. PlacesOK'
  BY <1>1, <1>2, <1>5, <1>6, <1>8, <1>9 DEF PlacesOK, Apart
<1> QED
  BY <1>3, <1>6, <1>10

\* The queue and the ready part of the ingress are detached.
LEMMA StartRefreshPlaces ==
    ASSUME AInv, NEW w \in Workers, StartRefresh(w)
    PROVE  /\ HandsApart' /\ PlacesOK' /\ RefreshingExact'
           /\ arrived' \o incoming' = arrived \o incoming
<1>1. PICK n \in 0..Len(incoming) :
        /\ incoming' = SubSeq(incoming, n + 1, Len(incoming))
        /\ arrived' = arrived \o SubSeq(incoming, 1, n)
        /\ held' = [held EXCEPT ![w] = tasks \cup ToSet(SubSeq(incoming, 1, n))]
        /\ refreshing_count' = refreshing_count + Cardinality(tasks \cup ToSet(SubSeq(incoming, 1, n)))
  BY DEF StartRefresh, Undrained
<1>2. /\ pc[w] = "awake" /\ tasks' = {} /\ pc' = [pc EXCEPT ![w] = "refresh"]
      /\ UNCHANGED <<linked, spinning_tasks, completed_tasks, drained>>
  BY DEF StartRefresh
<1>3. TypeOK /\ HandsApart /\ PlacesOK /\ held[w] = {} /\ pc'[w] = "refresh"
      /\ \A v \in Workers \ {w} : pc'[v] = pc[v]
  BY <1>2 DEF AInv, IInv, HandsApart, TypeOK
<1>4. incoming \in Seq(Tasks) /\ arrived \in Seq(Tasks) /\ IsInjective(incoming)
  BY <1>3 DEF TypeOK, PlacesOK
<1>5. PICK u : u = SubSeq(incoming, 1, n)
  OBVIOUS
<1>6. PICK v : v = SubSeq(incoming, n + 1, Len(incoming))
  OBVIOUS
<1>7. /\ u \in Seq(Tasks) /\ v \in Seq(Tasks) /\ u \o v = incoming /\ IsInjective(v)
      /\ ToSet(incoming) = ToSet(u) \cup ToSet(v) /\ ToSet(u) \cap ToSet(v) = {}
  <2>1. u \o v = incoming
    BY <1>4, <1>5, <1>6, SplitJoins
  <2>2. u \in Seq(Tasks) /\ v \in Seq(Tasks)
    BY <1>4, <1>5, <1>6, SplitType
  <2> QED
    BY <1>4, <2>1, <2>2, PartElements
<1>8. PICK Det \in SUBSET Tasks : Det = tasks \cup ToSet(u)
  <2>1. tasks \cup ToSet(u) \subseteq Tasks
    BY <1>3, <1>7, ToSetType DEF TypeOK
  <2> QED
    BY <2>1
<1>9. /\ held' = [held EXCEPT ![w] = Det] /\ incoming' = v /\ arrived' = arrived \o u
      /\ refreshing_count' = refreshing_count + Cardinality(Det)
  BY <1>1, <1>5, <1>6, <1>8
<1>10. Det \cap Hands = {}
  BY <1>3, <1>7, <1>8 DEF PlacesOK, Apart
<1>11. HandsApart' /\ Hands' = Hands \cup Det
  <2>1. Det \cap (Hands \ held[w]) = {}
    BY <1>10
  <2>2. HandsApart' /\ Hands' = (Hands \ held[w]) \cup Det
    BY <1>3, <1>9, <2>1, Handed
  <2> QED
    BY <1>3, <2>2
<1>12. PlacesOK'
  <2>1. LinkedTasks' = LinkedTasks
    BY <1>2 DEF LinkedTasks
  <2>2. LinkedTasks = ToSet(v) \cup {} \cup ToSet(spinning_tasks) \cup completed_tasks
                      \cup drained \cup (Hands \cup Det)
    BY <1>3, <1>7, <1>8 DEF PlacesOK
  <2>3. Apart(ToSet(v), {}, ToSet(spinning_tasks), completed_tasks, drained, Hands \cup Det)
    BY <1>3, <1>7, <1>8 DEF PlacesOK, Apart
  <2> QED
    BY <1>2, <1>3, <1>7, <1>9, <1>11, <2>1, <2>2, <2>3 DEF PlacesOK
<1>13. RefreshingExact'
  <2>1. Refreshed' = Refreshed \cup Det
    <3>1. held'[w] = Det /\ \A x \in Workers \ {w} : held'[x] = held[x]
      BY <1>3, <1>9 DEF TypeOK
    <3>2. InPhase("refresh")' = InPhase("refresh") \cup {w} /\ w \notin InPhase("refresh")
      BY <1>2, <1>3 DEF InPhase
    <3> QED
      BY <3>1, <3>2 DEF Refreshed, InPhase
  <2>2. Refreshed \subseteq Hands /\ Hands \subseteq Tasks
    BY <1>3 DEF Refreshed, Hands, InPhase, TypeOK
  <2>3. Refreshed \cap Det = {} /\ IsFiniteSet(Refreshed) /\ IsFiniteSet(Det)
    BY <1>10, <2>2, SetsAssumption, FS_Subset
  <2>4. Cardinality(Refreshed \cup Det) = Cardinality(Refreshed) + Cardinality(Det)
    <3>1. Cardinality(Refreshed) \in Nat /\ Cardinality(Det) \in Nat
      BY <2>3, FS_CardinalityType
    <3>2. Cardinality(Refreshed \cap Det) = 0
      BY <2>3, FS_EmptySet
    <3>3. Cardinality(Refreshed \cup Det)
            = Cardinality(Refreshed) + Cardinality(Det) - Cardinality(Refreshed \cap Det)
      BY <2>3, FS_Union
    <3> QED
      BY <3>1, <3>2, <3>3
  <2>5. refreshing_count = Cardinality(Refreshed)
    BY DEF AInv, RefreshingExact, Refreshed
  <2>6. refreshing_count' = Cardinality(Refreshed')
    BY <1>9, <2>1, <2>4, <2>5
  <2> QED
    BY <2>6 DEF RefreshingExact, Refreshed
<1>14. arrived' \o incoming' = arrived \o incoming
  <2>1. arrived \in Seq(Tasks) /\ u \in Seq(Tasks) /\ v \in Seq(Tasks)
    BY <1>4, <1>7
  <2>2. (arrived \o u) \o v = arrived \o (u \o v)
    BY <2>1, ConcatAssociative
  <2> QED
    BY <1>7, <1>9, <2>2
<1> QED
  BY <1>11, <1>12, <1>13, <1>14

\* The detached queue comes back without its cancelled tasks.
LEMMA FinishRefreshPlaces ==
    ASSUME AInv, NEW w \in Workers, FinishRefresh(w)
    PROVE  /\ HandsApart' /\ PlacesOK' /\ RefreshingExact'
           /\ \E gone \in SUBSET held[w] : completed_tasks' = completed_tasks \cup gone
<1>1. PICK gone \in SUBSET held[w] :
        /\ completed_tasks' = completed_tasks \cup gone
        /\ tasks' = tasks \cup (held[w] \ gone)
        /\ AfterUnlock(w, Cardinality(held[w] \ gone))
  BY DEF FinishRefresh
<1>2. /\ pc[w] = "refresh" /\ held' = [held EXCEPT ![w] = {}]
      /\ refreshing_count' = refreshing_count - Cardinality(held[w])
      /\ UNCHANGED <<incoming, linked, spinning_tasks, drained>>
  BY DEF FinishRefresh, ingressVars
<1>3. /\ TypeOK /\ HandsApart /\ PlacesOK
      /\ pc'[w] # "refresh" /\ \A v \in Workers \ {w} : pc'[v] = pc[v]
  BY <1>1 DEF AInv, IInv, AfterUnlock, TypeOK
<1>4. HandsApart' /\ Hands' = Hands \ held[w] /\ held[w] \subseteq Hands
  <2>1. {} \in SUBSET Tasks /\ {} \cap (Hands \ held[w]) = {}
    OBVIOUS
  <2>2. HandsApart' /\ Hands' = (Hands \ held[w]) \cup {} /\ held[w] \subseteq Hands
    BY <1>2, <1>3, <2>1, Handed
  <2> QED
    BY <2>2
<1>5. PlacesOK'
  <2>1. LinkedTasks' = LinkedTasks
    BY <1>2 DEF LinkedTasks
  <2>2. LinkedTasks = ToSet(incoming) \cup tasks' \cup ToSet(spinning_tasks) \cup completed_tasks'
                      \cup drained \cup Hands'
    BY <1>1, <1>3, <1>4 DEF PlacesOK
  <2>3. Apart(ToSet(incoming), tasks', ToSet(spinning_tasks), completed_tasks', drained, Hands')
    BY <1>1, <1>3, <1>4 DEF PlacesOK, Apart
  <2> QED
    BY <1>2, <1>3, <2>1, <2>2, <2>3 DEF PlacesOK
<1>6. RefreshingExact'
  <2>1. /\ InPhase("refresh")' = InPhase("refresh") \ {w} /\ w \in InPhase("refresh")
        /\ \A v \in Workers \ {w} : held'[v] = held[v] /\ held[v] \cap held[w] = {}
    BY <1>2, <1>3 DEF InPhase, HandsApart, TypeOK
  <2>2. Refreshed' = Refreshed \ held[w] /\ held[w] \subseteq Refreshed
    BY <2>1 DEF Refreshed, InPhase
  <2>3. Refreshed \subseteq Tasks
    BY <1>3 DEF Refreshed, InPhase, TypeOK
  <2>4. IsFiniteSet(Refreshed) /\ Refreshed \cap held[w] = held[w]
    BY <2>2, <2>3, SetsAssumption, FS_Subset
  <2>5. Cardinality(Refreshed \ held[w]) = Cardinality(Refreshed) - Cardinality(held[w])
    BY <2>4, FS_Difference
  <2>6. refreshing_count = Cardinality(Refreshed)
    BY DEF AInv, RefreshingExact, Refreshed
  <2>7. refreshing_count' = Cardinality(Refreshed')
    BY <1>2, <2>2, <2>5, <2>6
  <2> QED
    BY <2>7 DEF RefreshingExact, Refreshed
<1> QED
  BY <1>1, <1>4, <1>5, <1>6


\* The tasks detached for a refresh are the same where no refresh starts or ends.
LEMMA RefreshingStays ==
    ASSUME RefreshingExact, refreshing_count' = refreshing_count,
           \A w \in Workers : /\ (pc[w] = "refresh") <=> (pc'[w] = "refresh")
                              /\ pc[w] = "refresh" => held'[w] = held[w]
    PROVE  RefreshingExact'
<1>1. InPhase("refresh")' = InPhase("refresh")
  BY DEF InPhase
<1>2. \A w \in InPhase("refresh") : held'[w] = held[w]
  BY DEF InPhase
<1>3. (UNION {held[w] : w \in InPhase("refresh")})' = UNION {held[w] : w \in InPhase("refresh")}
  BY <1>1, <1>2
<1> QED
  BY <1>3 DEF RefreshingExact

\* A picked task leaves the queue or the postponed tasks for a worker's hands.
LEMMA PickPlaces ==
    ASSUME AInv, NEW w \in Workers, PickPrioritized(w) \/ PickPostponed(w)
    PROVE  /\ HandsApart' /\ PlacesOK' /\ RefreshingExact'
           /\ \E t \in Tasks :
                /\ StartTask(w, t)
                /\ serial_running => t \notin Serial
                /\ t \in tasks \cup ToSet(spinning_tasks)
                /\ tasks' \cup ToSet(spinning_tasks') = (tasks \cup ToSet(spinning_tasks)) \ {t}
                /\ tasks' \subseteq tasks /\ ToSet(spinning_tasks') \subseteq ToSet(spinning_tasks)
<1>1. TypeOK /\ HandsApart /\ PlacesOK /\ RefreshingExact
  BY DEF AInv, IInv
<1>2. pc[w] = "awake" /\ held[w] = {}
  BY <1>1, PickStarts DEF HandsApart
<1>3. \E t \in Tasks : /\ StartTask(w, t)
                       /\ serial_running => t \notin Serial
                       /\ t \in tasks \cup ToSet(spinning_tasks)
                       /\ tasks' \cup ToSet(spinning_tasks') = (tasks \cup ToSet(spinning_tasks)) \ {t}
                       /\ tasks' \subseteq tasks /\ ToSet(spinning_tasks') \subseteq ToSet(spinning_tasks)
                       /\ IsInjective(spinning_tasks')
  <2>1. spinning_tasks \in Seq(Tasks) /\ IsInjective(spinning_tasks)
    BY <1>1 DEF TypeOK, PlacesOK
  <2>2. CASE PickPrioritized(w)
    <3>1. PICK t \in PickableTasks : tasks' = tasks \ {t} /\ StartTask(w, t)
      BY <2>2 DEF PickPrioritized
    <3>2. t \in Tasks /\ t \in tasks /\ (serial_running => t \notin Serial)
      BY <1>1, <3>1 DEF PickableTasks, TypeOK
    <3>3. spinning_tasks' = spinning_tasks
      BY <2>2 DEF PickPrioritized
    <3>4. t \notin ToSet(spinning_tasks)
      BY <1>1, <3>2 DEF PlacesOK, Apart
    <3> QED
      BY <2>1, <3>1, <3>2, <3>3, <3>4
  <2>3. CASE PickPostponed(w)
    <3>1. PICK i \in PickablePostponed :
            spinning_tasks' = RemoveAt(spinning_tasks, i) /\ StartTask(w, spinning_tasks[i])
      BY <2>3 DEF PickPostponed
    <3>2. PICK t : t = spinning_tasks[i]
      OBVIOUS
    <3>3. i \in 1..Len(spinning_tasks) /\ t \in Tasks /\ (serial_running => t \notin Serial)
      BY <2>1, <3>2, LenProperties, ElementOfSeq DEF PickablePostponed
    <3>4. /\ IsInjective(spinning_tasks')
          /\ ToSet(spinning_tasks') = ToSet(spinning_tasks) \ {t}
          /\ t \in ToSet(spinning_tasks)
      BY <2>1, <3>1, <3>2, <3>3, RemoveElement
    <3>5. tasks' = tasks /\ t \notin tasks
      BY <1>1, <2>3, <3>4 DEF PickPostponed, PlacesOK, Apart
    <3> QED
      BY <3>1, <3>2, <3>3, <3>4, <3>5
  <2> QED
    BY <2>2, <2>3
<1>4. PICK t \in Tasks :
        /\ StartTask(w, t)
        /\ serial_running => t \notin Serial
        /\ t \in tasks \cup ToSet(spinning_tasks)
        /\ tasks' \cup ToSet(spinning_tasks') = (tasks \cup ToSet(spinning_tasks)) \ {t}
        /\ tasks' \subseteq tasks /\ ToSet(spinning_tasks') \subseteq ToSet(spinning_tasks)
        /\ IsInjective(spinning_tasks')
  BY <1>3
<1>5. /\ held' = [held EXCEPT ![w] = {t}] /\ pc' = [pc EXCEPT ![w] = "run"]
      /\ UNCHANGED <<incoming, linked, completed_tasks, drained, refreshing_count>>
  BY <1>4 DEF StartTask, ingressVars
<1>6. HandsApart' /\ Hands' = Hands \cup {t} /\ t \notin Hands
  <2>1. t \notin Hands
    BY <1>1, <1>4 DEF PlacesOK, Apart
  <2>2. {t} \in SUBSET Tasks /\ {t} \cap (Hands \ held[w]) = {}
    BY <2>1
  <2>3. pc'[w] = "run" /\ \A v \in Workers \ {w} : pc'[v] = pc[v]
    BY <1>1, <1>5 DEF TypeOK
  <2>4. HandsApart' /\ Hands' = (Hands \ held[w]) \cup {t}
    BY <1>1, <1>5, <2>2, <2>3, Handed
  <2> QED
    BY <1>2, <2>1, <2>4
<1>7. PlacesOK'
  <2>1. LinkedTasks' = LinkedTasks
    BY <1>5 DEF LinkedTasks
  <2>2. LinkedTasks = ToSet(incoming) \cup tasks' \cup ToSet(spinning_tasks') \cup completed_tasks
                      \cup drained \cup (Hands \cup {t})
    BY <1>1, <1>4 DEF PlacesOK
  <2>3. Apart(ToSet(incoming), tasks', ToSet(spinning_tasks'), completed_tasks, drained, Hands \cup {t})
    BY <1>1, <1>4, <1>6 DEF PlacesOK, Apart
  <2> QED
    BY <1>1, <1>4, <1>5, <1>6, <2>1, <2>2, <2>3 DEF PlacesOK
<1>8. RefreshingExact'
  <2>1. \A v \in Workers : /\ (pc[v] = "refresh") <=> (pc'[v] = "refresh")
                           /\ pc[v] = "refresh" => held'[v] = held[v]
    BY <1>1, <1>2, <1>5 DEF TypeOK
  <2> QED
    BY <1>1, <1>5, <2>1, RefreshingStays
<1> QED
  BY <1>4, <1>6, <1>7, <1>8

\* A task that ends its run leaves the worker's hands.
LEMMA EndRunPlaces ==
    ASSUME AInv, NEW w \in Workers, Complete(w) \/ Postpone(w)
    PROVE  HandsApart' /\ PlacesOK' /\ RefreshingExact'
<1>1. TypeOK /\ HandsOK /\ HandsApart /\ PlacesOK /\ RefreshingExact
  BY DEF AInv, IInv
<1>2. PICK t \in Tasks, p \in BOOLEAN : held[w] = {t} /\ EndRun(w, t, p)
  BY <1>1, RunEnds
<1>3. pc[w] = "run"
  BY <1>1, RunEnds
<1>4. /\ held' = [held EXCEPT ![w] = {}] /\ pc'[w] \in {"sleep", "post"}
      /\ \A v \in Workers \ {w} : pc'[v] = pc[v]
      /\ UNCHANGED <<incoming, linked, tasks, drained, refreshing_count>>
  BY <1>1, <1>2 DEF EndRun, AfterUnlock, ingressVars, TypeOK
<1>5. HandsApart' /\ Hands' = Hands \ {t} /\ t \in Hands
  <2>1. {} \in SUBSET Tasks /\ {} \cap (Hands \ held[w]) = {}
    OBVIOUS
  <2>2. HandsApart' /\ Hands' = (Hands \ held[w]) \cup {} /\ held[w] \subseteq Hands
    BY <1>1, <1>4, <2>1, Handed
  <2> QED
    BY <1>2, <2>2
<1>6. t \notin completed_tasks /\ t \notin drained /\ t \notin tasks
      /\ t \notin ToSet(spinning_tasks) /\ t \notin ToSet(incoming)
  BY <1>1, <1>5 DEF PlacesOK, Apart
<1>7. /\ completed_tasks' \cup ToSet(spinning_tasks')
           = completed_tasks \cup ToSet(spinning_tasks) \cup {t}
      /\ completed_tasks' \cap ToSet(spinning_tasks') = {}
      /\ completed_tasks' \subseteq completed_tasks \cup {t}
      /\ ToSet(spinning_tasks') \subseteq ToSet(spinning_tasks) \cup {t}
      /\ IsInjective(spinning_tasks')
  <2>1. /\ spinning_tasks \in Seq(Tasks) /\ IsInjective(spinning_tasks)
        /\ completed_tasks \cap ToSet(spinning_tasks) = {}
    BY <1>1 DEF TypeOK, PlacesOK, Apart
  <2>2. CASE Complete(w)
    <3>1. completed_tasks' = completed_tasks \cup {t} /\ spinning_tasks' = spinning_tasks
      BY <1>2, <2>2 DEF Complete
    <3> QED
      BY <1>6, <2>1, <3>1
  <2>3. CASE Postpone(w)
    <3>1. spinning_tasks' = Append(spinning_tasks, t) /\ completed_tasks' = completed_tasks
      BY <1>2, <2>3 DEF Postpone
    <3>2. IsInjective(spinning_tasks') /\ ToSet(spinning_tasks') = ToSet(spinning_tasks) \cup {t}
      BY <1>6, <2>1, <3>1, AppendElement
    <3> QED
      BY <1>6, <2>1, <3>1, <3>2
  <2> QED
    BY <2>2, <2>3
<1>8. PlacesOK'
  <2>1. LinkedTasks' = LinkedTasks
    BY <1>4 DEF LinkedTasks
  <2>2. LinkedTasks = ToSet(incoming) \cup tasks \cup ToSet(spinning_tasks') \cup completed_tasks'
                      \cup drained \cup (Hands \ {t})
    BY <1>1, <1>5, <1>7 DEF PlacesOK
  <2>3. Apart(ToSet(incoming), tasks, ToSet(spinning_tasks'), completed_tasks', drained, Hands \ {t})
    BY <1>1, <1>6, <1>7 DEF PlacesOK, Apart
  <2> QED
    BY <1>1, <1>4, <1>5, <1>7, <2>1, <2>2, <2>3 DEF PlacesOK
<1>9. RefreshingExact'
  <2>1. \A v \in Workers : /\ (pc[v] = "refresh") <=> (pc'[v] = "refresh")
                           /\ pc[v] = "refresh" => held'[v] = held[v]
    BY <1>1, <1>3, <1>4 DEF TypeOK
  <2> QED
    BY <1>1, <1>4, <2>1, RefreshingStays
<1> QED
  BY <1>5, <1>8, <1>9

\* The owner takes what is completed.
LEMMA DrainPlaces ==
    ASSUME AInv, DrainCompleted
    PROVE  PlacesOK'
<1>1. /\ drained' = drained \cup completed_tasks /\ completed_tasks' = {}
      /\ UNCHANGED <<incoming, linked, tasks, spinning_tasks, held>>
  BY DEF DrainCompleted, ingressVars, workerVars
<1>2. LinkedTasks' = LinkedTasks /\ Hands' = Hands
  BY <1>1 DEF LinkedTasks, Hands
<1> QED
  BY <1>1, <1>2 DEF AInv, PlacesOK, Apart

\* What a step does that moves no task.
TasksStay ==
    /\ UNCHANGED <<incoming, linked, tasks, spinning_tasks, completed_tasks, drained, held,
                   arrived, refreshing_count>>
    /\ \A w \in Workers : /\ (pc[w] = "refresh") <=> (pc'[w] = "refresh")
                          /\ (pc[w] = "run") <=> (pc'[w] = "run")

\* The steps of workers, producers and the owner that move no task.
LEMMA OtherPlaces ==
    ASSUME AInv, [Next]_vars,
           ~ \E b \in Batches : Link(b),
           ~ \E w \in Workers : \/ StartRefresh(w) \/ FinishRefresh(w)
                                \/ PickPrioritized(w) \/ PickPostponed(w)
                                \/ Complete(w) \/ Postpone(w),
           ~ DrainCompleted
    PROVE  TasksStay /\ HandsApart' /\ RefreshingExact'
<1>1. TypeOK /\ HandsApart /\ RefreshingExact
  BY DEF AInv, IInv
<1>2. TasksStay
  <2>1. CASE UNCHANGED vars
    BY <2>1 DEF TasksStay, vars, ingressVars, queueVars, workerVars
  <2>2. CASE \E b \in Batches : Publish(b) \/ PostPermit(b)
    BY <2>2 DEF TasksStay, Publish, PostPermit, queueVars, workerVars
  <2>3. ASSUME NEW w \in Workers, Wake(w) \/ Exit(w) \/ FindNothing(w)
        PROVE  TasksStay
    BY <1>1, <2>3 DEF TasksStay, Wake, Exit, FindNothing, ingressVars, queueVars, TypeOK
  <2>4. ASSUME NEW w \in Workers, WorkerPost(w)
        PROVE  TasksStay
    BY <1>1, <2>4 DEF TasksStay, WorkerPost, ingressVars, queueVars, TypeOK
  <2>5. CASE CheckIdle \/ StopThreads \/ PostStop \/ \E name \in OwnerOps : Call(name)
    BY <2>5 DEF TasksStay, CheckIdle, StopThreads, PostStop, Call, ingressVars, queueVars, workerVars
  <2>6. CASE Join
    <3>1. \A w \in Workers : pc[w] \in {"exit", "none"} /\ pc'[w] \in {"sleep", "none"}
      BY <2>6 DEF Join, Threads
    <3> QED
      BY <2>6, <3>1 DEF TasksStay, Join, ingressVars, queueVars
  <2> QED
    BY <2>1, <2>2, <2>3, <2>4, <2>5, <2>6 DEF Next, WorkerStep, OwnerStep
<1>3. HandsApart'
  BY <1>1, <1>2 DEF HandsApart, TasksStay
<1>4. RefreshingExact'
  BY <1>1, <1>2, RefreshingStays DEF TasksStay
<1> QED
  BY <1>2, <1>3, <1>4

\* Tasks are only added to the linked ones, and a wait awaits those there are.
LEMMA AwaitedStep ==
    ASSUME AInv, [Next]_vars
    PROVE  linked \subseteq linked' /\ awaited' \subseteq LinkedTasks'
<1>1. linked \subseteq linked' /\ awaited' \subseteq awaited \cup LinkedTasks
  <2>1. CASE UNCHANGED vars
    BY <2>1 DEF vars, ingressVars, ownerVars
  <2>2. ASSUME NEW b \in Batches, Link(b) \/ Publish(b) \/ PostPermit(b)
        PROVE  linked \subseteq linked' /\ awaited' = awaited
    BY <2>2 DEF Link, Publish, PostPermit, ownerVars
  <2>3. ASSUME NEW w \in Workers, WorkerStep(w)
        PROVE  linked' = linked /\ awaited' = awaited
    BY <2>3 DEF WorkerStep, Wake, Exit, StartRefresh, FinishRefresh, PickPrioritized,
                PickPostponed, StartTask, FindNothing, Complete, Postpone, EndRun, WorkerPost,
                ingressVars, ownerVars
  <2>4. ASSUME NEW name \in OwnerOps, Call(name)
        PROVE  linked' = linked /\ awaited' \in {{}, LinkedTasks}
    BY <2>4 DEF Call, ingressVars
  <2>5. CASE OwnerStep \/ DrainCompleted
    BY <2>5 DEF OwnerStep, CheckIdle, StopThreads, PostStop, Join, DrainCompleted,
                ingressVars, ownerVars
  <2> QED
    BY <2>1, <2>2, <2>3, <2>4, <2>5 DEF Next
<1>2. LinkedTasks \subseteq LinkedTasks'
  BY <1>1 DEF LinkedTasks
<1> QED
  BY <1>1, <1>2 DEF AInv

\* Every step keeps the account of the tasks.
LEMMA AccountStep ==
    ASSUME AInv, [Next]_vars
    PROVE  AInv'
<1>1. IInv'
  BY NextType, HandsStep, SerialStep, RunningStep DEF AInv, IInv
<1>2. awaited' \subseteq LinkedTasks'
  BY AwaitedStep
<1>3. HandsApart /\ RefreshingExact
  BY DEF AInv
<1>4. HandsApart' /\ PlacesOK' /\ RefreshingExact'
  <2>1. ASSUME NEW b \in Batches, Link(b)
        PROVE  HandsApart' /\ PlacesOK' /\ RefreshingExact'
    <3>1. UNCHANGED <<pc, held, refreshing_count>>
      BY <2>1 DEF Link, queueVars, workerVars
    <3>2. HandsApart'
      BY <1>3, <3>1 DEF HandsApart
    <3>3. RefreshingExact'
      BY <1>3, <3>1, RefreshingStays
    <3> QED
      BY <2>1, <3>2, <3>3, LinkPlaces
  <2>2. ASSUME NEW w \in Workers, StartRefresh(w)
        PROVE  HandsApart' /\ PlacesOK' /\ RefreshingExact'
    BY <2>2, StartRefreshPlaces
  <2>3. ASSUME NEW w \in Workers, FinishRefresh(w)
        PROVE  HandsApart' /\ PlacesOK' /\ RefreshingExact'
    BY <2>3, FinishRefreshPlaces
  <2>4. ASSUME NEW w \in Workers, PickPrioritized(w) \/ PickPostponed(w)
        PROVE  HandsApart' /\ PlacesOK' /\ RefreshingExact'
    BY <2>4, PickPlaces
  <2>5. ASSUME NEW w \in Workers, Complete(w) \/ Postpone(w)
        PROVE  HandsApart' /\ PlacesOK' /\ RefreshingExact'
    BY <2>5, EndRunPlaces
  <2>6. CASE DrainCompleted
    <3>1. UNCHANGED <<pc, held, refreshing_count>>
      BY <2>6 DEF DrainCompleted, workerVars
    <3>2. HandsApart'
      BY <1>3, <3>1 DEF HandsApart
    <3>3. RefreshingExact'
      BY <1>3, <3>1, RefreshingStays
    <3> QED
      BY <2>6, <3>2, <3>3, DrainPlaces
  <2>7. CASE /\ ~ \E b \in Batches : Link(b)
             /\ ~ \E w \in Workers : \/ StartRefresh(w) \/ FinishRefresh(w)
                                     \/ PickPrioritized(w) \/ PickPostponed(w)
                                     \/ Complete(w) \/ Postpone(w)
             /\ ~ DrainCompleted
    <3>1. TasksStay /\ HandsApart' /\ RefreshingExact'
      BY <2>7, OtherPlaces
    <3> QED
      BY <3>1, PlacesStay DEF TasksStay
  <2> QED
    BY <2>1, <2>2, <2>3, <2>4, <2>5, <2>6, <2>7
<1> QED
  BY <1>1, <1>2, <1>4 DEF AInv

\* The account of the tasks is right in every reachable state.
THEOREM Accounts == Spec => []AInv
<1>1. Init => AInv
  <2> SUFFICES ASSUME Init, IInv PROVE AInv
    BY InitInv
  <2>1. /\ \A w \in Workers : held[w] = {} /\ pc[w] # "refresh"
        /\ incoming = <<>> /\ spinning_tasks = <<>> /\ linked = {} /\ tasks = {}
        /\ completed_tasks = {} /\ drained = {} /\ awaited = {} /\ refreshing_count = 0
    BY DEF Init
  <2>2. HandsApart
    BY <2>1 DEF HandsApart
  <2>3. Hands = {} /\ LinkedTasks = {} /\ ToSet(incoming) = {} /\ ToSet(spinning_tasks) = {}
    BY <2>1 DEF Hands, LinkedTasks, ToSet
  <2>4. IsInjective(incoming) /\ IsInjective(spinning_tasks)
    BY <2>1 DEF IsInjective
  <2>5. PlacesOK
    BY <2>1, <2>3, <2>4 DEF PlacesOK, Apart
  <2>6. RefreshingExact
    <3>1. UNION {held[w] : w \in InPhase("refresh")} = {}
      BY <2>1 DEF InPhase
    <3> QED
      BY <2>1, <3>1, FS_EmptySet DEF RefreshingExact
  <2> QED
    BY <2>1, <2>2, <2>5, <2>6 DEF AInv
<1>2. AInv /\ [Next]_vars => AInv'
  BY AccountStep
<1> QED
  BY <1>1, <1>2, PTL DEF Spec

\* Every linked task is in exactly one place: the ingress, the queue, the
\* postponed tasks, the hands of one worker, the completed or the returned ones,
\* and running_count and refreshing_count count what they are meant to.
THEOREM TasksAreAccounted == Spec => []TasksAccounted
<1>1. AInv => TasksAccounted
  <2> SUFFICES ASSUME AInv PROVE TasksAccounted
    OBVIOUS
  <2>1. /\ Places[1] = ToSet(incoming) /\ Places[2] = tasks /\ Places[3] = ToSet(spinning_tasks)
        /\ Places[4] = completed_tasks /\ Places[5] = drained /\ Places[6] = Hands
        /\ DOMAIN Places = 1..6
    BY DEF Places, Hands
  <2>2. 1..6 = {1, 2, 3, 4, 5, 6}
    OBVIOUS
  <2>3. LinkedTasks = UNION {Places[i] : i \in DOMAIN Places}
    BY <2>1, <2>2 DEF AInv, PlacesOK
  <2>4. \A i, j \in DOMAIN Places : i # j => Places[i] \cap Places[j] = {}
    BY <2>1, <2>2 DEF AInv, PlacesOK, Apart
  <2> QED
    BY <2>3, <2>4 DEF AInv, IInv, PlacesOK, HandsApart, TasksAccounted, TasksConserved, CountersExact
<1> QED
  BY <1>1, Accounts, PTL

\* The tasks are numbered in the order their batches were linked.
THEOREM IngressIsFifo == Spec => IngressFifo
<1>1. AInv /\ [Next]_vars => [IsPrefix(arrived \o incoming, arrived' \o incoming')]_vars
  <2> SUFFICES ASSUME AInv, [Next]_vars
               PROVE  IsPrefix(arrived \o incoming, arrived' \o incoming')
    OBVIOUS
  <2>1. arrived \in Seq(Tasks) /\ incoming \in Seq(Tasks)
    BY DEF AInv, IInv, TypeOK
  <2>2. PICK s : s = arrived \o incoming
    OBVIOUS
  <2>3. s \in Seq(Tasks)
    BY <2>1, <2>2, ConcatProperties
  <2>4. CASE arrived' \o incoming' = s
    <3>1. <<>> \in Seq(Tasks) /\ s = s \o <<>>
      BY <2>3, EmptySeq, ConcatEmptySeq
    <3> QED
      BY <2>2, <2>3, <2>4, <3>1, GrowsAtEnd
  <2>5. ASSUME NEW b \in Batches, Link(b)
        PROVE  IsPrefix(arrived \o incoming, arrived' \o incoming')
    <3>1. PICK v : v = BatchTasks[b]
      OBVIOUS
    <3>2. v \in Seq(Tasks)
      BY <3>1, BatchAssumption
    <3>3. PICK t : t = arrived' \o incoming'
      OBVIOUS
    <3>4. (arrived \o incoming) \o v = arrived \o (incoming \o v)
      BY <2>1, <3>2, ConcatAssociative
    <3>5. t = s \o v
      BY <2>2, <2>5, <3>1, <3>3, <3>4 DEF Link, queueVars
    <3>6. IsPrefix(s, t)
      BY <2>3, <3>2, <3>5, GrowsAtEnd
    <3> QED
      BY <2>2, <3>3, <3>6
  <2>6. ASSUME NEW w \in Workers, StartRefresh(w)
        PROVE  arrived' \o incoming' = s
    BY <2>2, <2>6, StartRefreshPlaces
  <2>7. CASE /\ ~ \E b \in Batches : Link(b)
             /\ ~ \E w \in Workers : StartRefresh(w)
    <3>1. arrived' = arrived /\ incoming' = incoming
      <4>1. ASSUME NEW w \in Workers, \/ FinishRefresh(w) \/ PickPrioritized(w) \/ PickPostponed(w)
                                      \/ Complete(w) \/ Postpone(w)
            PROVE  arrived' = arrived /\ incoming' = incoming
        BY <4>1 DEF FinishRefresh, PickPrioritized, PickPostponed, StartTask, Complete, Postpone,
                    EndRun, ingressVars
      <4>2. CASE DrainCompleted
        BY <4>2 DEF DrainCompleted, ingressVars
      <4> QED
        BY <2>7, <4>1, <4>2, OtherPlaces DEF TasksStay
    <3> QED
      BY <2>2, <2>4, <3>1
  <2> QED
    BY <2>4, <2>5, <2>6, <2>7
<1> QED
  BY <1>1, Accounts, PTL DEF Spec, IngressFifo

\* no task is anywhere
Idle == tasks = {} /\ spinning_tasks = <<>> /\ incoming = <<>> /\ Hands = {}

\* A test that finds nothing pending finds no task anywhere.
LEMMA IdleFound ==
    ASSUME AInv, ~HasPendingOrRunning, incoming = <<>>
    PROVE  Idle
<1>1. tasks = {} /\ spinning_tasks = <<>> /\ running_count = 0 /\ refreshing_count = 0
  BY DEF HasPendingOrRunning, HasQueued
<1>2. TypeOK /\ RunningExact /\ RefreshingExact /\ HandsApart
  BY DEF AInv, IInv
<1>3. InPhase("run") = {}
  <2>1. InPhase("run") \subseteq Workers
    BY DEF InPhase
  <2> QED
    BY <1>1, <1>2, <2>1, SetsAssumption, FS_Subset, FS_EmptySet DEF RunningExact
<1>4. UNION {held[w] : w \in InPhase("refresh")} = {}
  <2>1. UNION {held[w] : w \in InPhase("refresh")} \subseteq Tasks
    BY <1>2 DEF InPhase, TypeOK
  <2> QED
    BY <1>1, <1>2, <2>1, SetsAssumption, FS_Subset, FS_EmptySet DEF RefreshingExact
<1>5. Hands = {}
  BY <1>2, <1>3, <1>4 DEF Hands, HandsApart, InPhase
<1> QED
  BY <1>1, <1>5 DEF Idle

\* wait_for_all_tasks, and the waits of set_thread_count and shutdown, return
\* only when all the tasks linked before the call have ended.
THEOREM WaitsForAll == Spec => WaitSound
<1>1. AInv /\ [Next]_vars
        => [owner = "check" /\ owner' \in {"free", "stop"}
              => awaited \subseteq completed_tasks \cup drained]_vars
  <2> SUFFICES ASSUME AInv, [Next]_vars, owner = "check", owner' \in {"free", "stop"}
               PROVE  awaited \subseteq completed_tasks \cup drained
    OBVIOUS
  <2>1. CheckIdle
    <3>1. ASSUME NEW b \in Batches, Link(b) \/ Publish(b) \/ PostPermit(b)
          PROVE  FALSE
      BY <3>1 DEF Link, Publish, PostPermit, ownerVars
    <3>2. ASSUME NEW w \in Workers, WorkerStep(w)
          PROVE  FALSE
      BY <3>2 DEF WorkerStep, Wake, Exit, StartRefresh, FinishRefresh, PickPrioritized,
                  PickPostponed, StartTask, FindNothing, Complete, Postpone, EndRun, WorkerPost,
                  NotifyAll, ownerVars
    <3>3. CASE UNCHANGED vars
      BY <3>3 DEF vars, ownerVars
    <3>4. ~ StopThreads /\ ~ PostStop /\ ~ Join /\ ~ DrainCompleted /\ \A name \in OwnerOps : ~ Call(name)
      BY DEF StopThreads, PostStop, Join, DrainCompleted, Call
    <3> QED
      BY <3>1, <3>2, <3>3, <3>4 DEF Next, OwnerStep
  <2>2. Idle
    BY <2>1, IdleFound DEF CheckIdle
  <2>3. ToSet(incoming) = {} /\ ToSet(spinning_tasks) = {}
    BY <2>2 DEF Idle, ToSet
  <2> QED
    BY <2>2, <2>3 DEF AInv, PlacesOK, Idle
<1> QED
  BY <1>1, Accounts, PTL DEF Spec, WaitSound
-----------------------------------------------------------------------------
(* What may wake a worker, counted *)

\* What f still owes to each member of S, one by one.
Owed(S, f) == {x \in S \X Nat : x[2] \in 1..f[x[1]]}

\* One less is owed to s.
LEMMA OneLessOwed ==
    ASSUME NEW S, NEW f \in [S -> Nat], NEW s \in S, f[s] > 0,
           NEW g \in [S -> Nat], g[s] = f[s] - 1, \A u \in S \ {s} : g[u] = f[u],
           IsFiniteSet(Owed(S, f))
    PROVE  /\ IsFiniteSet(Owed(S, g))
           /\ Cardinality(Owed(S, g)) = Cardinality(Owed(S, f)) - 1
<1>2. <<s, f[s]>> \in Owed(S, f)
  BY DEF Owed
<1>3. Owed(S, g) = Owed(S, f) \ {<<s, f[s]>>}
  <2>1. ASSUME NEW x \in S \X Nat
        PROVE  x \in Owed(S, g) <=> x \in Owed(S, f) /\ x # <<s, f[s]>>
    <3>1. PICK u \in S, i \in Nat : x = <<u, i>>
      OBVIOUS
    <3>2. (x \in Owed(S, g) <=> i \in 1..g[u]) /\ (x \in Owed(S, f) <=> i \in 1..f[u])
      BY <3>1 DEF Owed
    <3>3. CASE u = s
      BY <3>1, <3>2, <3>3
    <3>4. CASE u # s
      BY <3>1, <3>2, <3>4
    <3> QED
      BY <3>3, <3>4
  <2> QED
    BY <2>1 DEF Owed
<1> DEFINE Left == Owed(S, f) \ {<<s, f[s]>>}
<1>4. IsFiniteSet(Left) /\ Cardinality(Left) = Cardinality(Owed(S, f)) - 1
  BY <1>2, FS_RemoveElement
<1> QED
  BY <1>3, <1>4

\* More is owed to an s to which nothing was.
LEMMA MoreOwed ==
    ASSUME NEW S, NEW f \in [S -> Nat], NEW s \in S, f[s] = 0, NEW n \in Nat,
           NEW g \in [S -> Nat], g[s] = n, \A u \in S \ {s} : g[u] = f[u],
           IsFiniteSet(Owed(S, f))
    PROVE  /\ IsFiniteSet(Owed(S, g))
           /\ Cardinality(Owed(S, g)) = Cardinality(Owed(S, f)) + n
<1> DEFINE N == {x \in {s} \X Nat : x[2] \in 1..n}
<1>2. IsFiniteSet(N) /\ Cardinality(N) = n
  <2> DEFINE h == [i \in 1..n |-> <<s, i>>]
  <2>1. h \in [1..n -> N] /\ \A i \in 1..n : h[i] = <<s, i>>
    OBVIOUS
  <2>2. ASSUME NEW x \in N PROVE \E i \in 1..n : h[i] = x
    <3>1. PICK i \in Nat : x = <<s, i>>
      OBVIOUS
    <3> QED
      BY <2>1, <3>1
  <2>3. \A i, j \in 1..n : h[i] = h[j] => i = j
    BY <2>1
  <2>4. h \in Bijection(1..n, N)
    BY <2>1, <2>2, <2>3 DEF Bijection, Injection, Surjection, IsInjective
  <2>5. ExistsBijection(1..n, N)
    BY <2>4 DEF ExistsBijection
  <2>6. IsFiniteSet(1..n) /\ Cardinality(1..n) = n
    BY FS_Interval
  <2> HIDE DEF N
  <2> QED
    BY <2>5, <2>6, FS_Bijection
<1>3. Owed(S, g) = Owed(S, f) \cup N
  <2>1. ASSUME NEW x \in S \X Nat
        PROVE  x \in Owed(S, g) <=> x \in Owed(S, f) \/ x \in N
    <3>1. PICK u \in S, i \in Nat : x = <<u, i>>
      OBVIOUS
    <3>2. (x \in Owed(S, g) <=> i \in 1..g[u]) /\ (x \in Owed(S, f) <=> i \in 1..f[u])
      BY <3>1 DEF Owed
    <3>3. x \in N <=> u = s /\ i \in 1..n
      BY <3>1
    <3>4. CASE u = s
      BY <3>2, <3>3, <3>4
    <3>5. CASE u # s
      BY <3>2, <3>3, <3>5
    <3> QED
      BY <3>4, <3>5
  <2>2. N \subseteq S \X Nat
    OBVIOUS
  <2> QED
    BY <2>1, <2>2 DEF Owed
<1>4. Owed(S, f) \cap N = {}
  BY DEF Owed
<1> HIDE DEF N
<1>5. PICK U : U = Owed(S, f)
  OBVIOUS
<1>6. IsFiniteSet(U) /\ Cardinality(U) \in Nat /\ Cardinality(U \cap N) = 0
  BY <1>4, <1>5, FS_CardinalityType, FS_EmptySet
<1>7. IsFiniteSet(U \cup N) /\ Cardinality(U \cup N) = Cardinality(U) + n
  <2>1. /\ IsFiniteSet(U \cup N)
        /\ Cardinality(U \cup N) = Cardinality(U) + Cardinality(N) - Cardinality(U \cap N)
    BY <1>2, <1>6, FS_Union
  <2> QED
    BY <1>2, <1>6, <2>1
<1>8. Owed(S, g) = U \cup N
  BY <1>3, <1>5
<1> QED
  BY <1>5, <1>7, <1>8

\* Every permit there is or will be: in the semaphore, in a wake token, owed by
\* a worker, or spent by a worker that has not looked at the queue yet.
Chances == permits + Cardinality(Owed(Batches, token)) + Cardinality(Owed(Workers, posts))
             + Cardinality(InPhase("awake"))

\* Finitely many are owed, and only by those who still post.
OwedOK ==
    /\ IsFiniteSet(Owed(Batches, token)) /\ IsFiniteSet(Owed(Workers, posts))
    /\ \A b \in Batches : token[b] > 0 => b \in ready
    /\ \A w \in Workers : posts[w] > 0 => pc[w] = "post"

\* The counts are natural numbers.
LEMMA ChancesType ==
    ASSUME TypeOK, OwedOK
    PROVE  /\ Chances \in Nat /\ permits \in Nat
           /\ Cardinality(Owed(Batches, token)) \in Nat
           /\ Cardinality(Owed(Workers, posts)) \in Nat
           /\ IsFiniteSet(InPhase("awake")) /\ Cardinality(InPhase("awake")) \in Nat
           /\ Chances >= Cardinality(InPhase("awake"))
<1>1. IsFiniteSet(InPhase("awake"))
  BY FS_Subset, SetsAssumption DEF InPhase
<1> QED
  BY <1>1, FS_CardinalityType DEF OwedOK, TypeOK, Chances

\* A worker that looks at the queue spends its chance.
LEMMA SpentChance ==
    ASSUME TypeOK, OwedOK, NEW w \in Workers, pc[w] = "awake",
           NEW p \in {"exit", "refresh", "run", "sleep"}, pc' = [pc EXCEPT ![w] = p],
           UNCHANGED <<permits, token, posts>>, ready \subseteq ready'
    PROVE  OwedOK' /\ Chances' = Chances - 1
<1>1. InPhase("awake")' = InPhase("awake") \ {w} /\ w \in InPhase("awake")
  BY DEF InPhase, TypeOK
<1>2. Cardinality(InPhase("awake")') = Cardinality(InPhase("awake")) - 1
  BY <1>1, ChancesType, FS_RemoveElement
<1>3. OwedOK'
  BY DEF OwedOK, TypeOK
<1> QED
  BY <1>2, <1>3, ChancesType DEF Chances

\* A worker that unlocks the state owes as many chances as it has found tasks.
LEMMA OwedChances ==
    ASSUME TypeOK, OwedOK, NEW w \in Workers, pc[w] \in {"refresh", "run"}, NEW n \in Nat,
           AfterUnlock(w, n), UNCHANGED <<permits, token, ready>>
    PROVE  OwedOK' /\ Chances' = Chances + n
<1>1. posts[w] = 0
  <2>1. posts[w] \in Nat
    BY DEF TypeOK
  <2>2. posts[w] > 0 => pc[w] = "post"
    BY DEF OwedOK
  <2> QED
    BY <2>1, <2>2
<1>2. posts' = [posts EXCEPT ![w] = n] /\ pc'[w] \in {"sleep", "post"} /\ (n > 0 => pc'[w] = "post")
      /\ \A v \in Workers \ {w} : pc'[v] = pc[v]
  BY DEF AfterUnlock, TypeOK
<1>3. /\ IsFiniteSet(Owed(Workers, posts'))
      /\ Cardinality(Owed(Workers, posts')) = Cardinality(Owed(Workers, posts)) + n
  <2>1. posts \in [Workers -> Nat] /\ IsFiniteSet(Owed(Workers, posts))
    BY DEF OwedOK, TypeOK
  <2>2. posts' \in [Workers -> Nat] /\ posts'[w] = n /\ \A v \in Workers \ {w} : posts'[v] = posts[v]
    BY <1>2, <2>1
  <2> QED
    BY <1>1, <2>1, <2>2, MoreOwed
<1>4. InPhase("awake")' = InPhase("awake")
  BY <1>2 DEF InPhase
<1>5. OwedOK'
  BY <1>2, <1>3 DEF OwedOK, TypeOK
<1> QED
  BY <1>3, <1>4, <1>5, ChancesType DEF Chances

\* Steps that move chances without making or spending any.
LEMMA MovedChances ==
    ASSUME TypeOK, HandsOK, OwedOK,
                           \/ \E b \in Batches : PostPermit(b)
                           \/ \E w \in Workers : Wake(w) \/ WorkerPost(w)
    PROVE  OwedOK' /\ Chances' = Chances
<1>1. ASSUME NEW b \in Batches, PostPermit(b) PROVE OwedOK' /\ Chances' = Chances
  <2>1. /\ token[b] > 0 /\ token' = [token EXCEPT ![b] = token[b] - 1] /\ permits' = permits + 1
        /\ UNCHANGED <<ready, pc, posts>>
    BY <1>1 DEF PostPermit, workerVars
  <2>2. /\ IsFiniteSet(Owed(Batches, token'))
        /\ Cardinality(Owed(Batches, token')) = Cardinality(Owed(Batches, token)) - 1
    <3>1. token \in [Batches -> Nat] /\ IsFiniteSet(Owed(Batches, token))
      BY DEF OwedOK, TypeOK
    <3>2. /\ token' \in [Batches -> Nat] /\ token'[b] = token[b] - 1
          /\ \A c \in Batches \ {b} : token'[c] = token[c]
      BY <2>1, <3>1
    <3>3. token[b] > 0
      BY <2>1
    <3> QED
      BY <3>1, <3>2, <3>3, OneLessOwed
  <2>3. InPhase("awake")' = InPhase("awake")
    BY <2>1 DEF InPhase
  <2>4. OwedOK'
    BY <2>1, <2>2 DEF OwedOK, TypeOK
  <2> QED
    BY <2>1, <2>2, <2>3, <2>4, ChancesType DEF Chances
<1>2. ASSUME NEW w \in Workers, Wake(w) PROVE OwedOK' /\ Chances' = Chances
  <2>1. /\ pc[w] = "sleep" /\ permits' = permits - 1 /\ pc' = [pc EXCEPT ![w] = "awake"]
        /\ UNCHANGED <<ready, token, posts>>
    BY <1>2 DEF Wake, ingressVars
  <2>2. InPhase("awake")' = InPhase("awake") \cup {w} /\ w \notin InPhase("awake")
    BY <2>1 DEF InPhase, TypeOK
  <2>3. Cardinality(InPhase("awake")') = Cardinality(InPhase("awake")) + 1
    BY <2>2, ChancesType, FS_AddElement
  <2>4. OwedOK'
    BY <2>1 DEF OwedOK, TypeOK
  <2> QED
    BY <2>1, <2>3, <2>4, ChancesType DEF Chances
<1>3. ASSUME NEW w \in Workers, WorkerPost(w) PROVE OwedOK' /\ Chances' = Chances
  <2>1. /\ pc[w] = "post" /\ posts' = [posts EXCEPT ![w] = posts[w] - 1] /\ permits' = permits + 1
        /\ pc' = IF posts[w] = 1 THEN [pc EXCEPT ![w] = "sleep"] ELSE pc
        /\ UNCHANGED <<ready, token>>
    BY <1>3 DEF WorkerPost, ingressVars
  <2>2. posts[w] > 0
    BY <2>1 DEF HandsOK
  <2>3. /\ IsFiniteSet(Owed(Workers, posts'))
        /\ Cardinality(Owed(Workers, posts')) = Cardinality(Owed(Workers, posts)) - 1
    <3>1. posts \in [Workers -> Nat] /\ IsFiniteSet(Owed(Workers, posts))
      BY DEF OwedOK, TypeOK
    <3>2. /\ posts' \in [Workers -> Nat] /\ posts'[w] = posts[w] - 1
          /\ \A v \in Workers \ {w} : posts'[v] = posts[v]
      BY <2>1, <2>2, <3>1
    <3> QED
      BY <2>2, <3>1, <3>2, OneLessOwed
  <2>4. InPhase("awake")' = InPhase("awake")
    BY <2>1 DEF InPhase, TypeOK
  <2>5. OwedOK'
    BY <2>1, <2>2, <2>3 DEF OwedOK, TypeOK
  <2> QED
    BY <2>1, <2>3, <2>4, <2>5, ChancesType DEF Chances
<1> QED
  BY <1>1, <1>2, <1>3

\* a ready batch asks for one look at the queue
Due == IF HasReady THEN 1 ELSE 0

\* A worker that looks has a chance to spend.
LEMMA AwakeChance ==
    ASSUME TypeOK, OwedOK, NEW w \in Workers, pc[w] = "awake"
    PROVE  Chances \in Nat /\ Chances >= 1
<1>1. w \in InPhase("awake")
  BY DEF InPhase
<1>2. Cardinality(InPhase("awake")) # 0
  BY <1>1, ChancesType, FS_EmptySet
<1> QED
  BY <1>2, ChancesType

\* A published batch brings a chance per task.
LEMMA PublishOwes ==
    ASSUME AInv, OwedOK, NEW b \in Batches, Publish(b)
    PROVE  OwedOK' /\ Chances' \in Nat /\ Chances' >= Chances + 1
<1>1. TypeOK
  BY DEF AInv, IInv
<1>2. PICK n : n = Len(BatchTasks[b])
  OBVIOUS
<1>3. n \in Nat /\ n >= 1
  <2>1. BatchTasks[b] \in Seq(Tasks) /\ BatchTasks[b] # <<>>
    BY BatchAssumption
  <2>2. Len(BatchTasks[b]) \in Nat /\ Len(BatchTasks[b]) # 0
    BY <2>1, LenProperties, EmptySeq
  <2> QED
    BY <1>2, <2>2
<1>4. /\ b \notin ready /\ ready' = ready \cup {b} /\ token' = [token EXCEPT ![b] = n]
      /\ UNCHANGED <<permits, posts, pc>>
  BY <1>2 DEF Publish, workerVars
<1>5. /\ IsFiniteSet(Owed(Batches, token'))
      /\ Cardinality(Owed(Batches, token')) = Cardinality(Owed(Batches, token)) + n
  <2>1. token \in [Batches -> Nat] /\ IsFiniteSet(Owed(Batches, token)) /\ token[b] = 0
    BY <1>1, <1>4 DEF OwedOK, TypeOK
  <2>2. /\ token' \in [Batches -> Nat] /\ token'[b] = n
        /\ \A c \in Batches \ {b} : token'[c] = token[c]
    BY <1>3, <1>4, <2>1
  <2> QED
    BY <1>3, <2>1, <2>2, MoreOwed
<1>6. OwedOK'
  BY <1>1, <1>4, <1>5 DEF OwedOK, TypeOK
<1>7. Chances' = Chances + n
  <2>1. InPhase("awake")' = InPhase("awake")
    BY <1>4 DEF InPhase
  <2> QED
    BY <1>1, <1>3, <1>4, <1>5, <2>1, ChancesType DEF Chances
<1> QED
  BY <1>1, <1>3, <1>6, <1>7, ChancesType

\* A worker that looks at the queue spends its chance and leaves no ready batch.
LEMMA LookSpends ==
    ASSUME AInv, OwedOK, NEW w \in Workers,
           StartRefresh(w) \/ PickPrioritized(w) \/ PickPostponed(w) \/ FindNothing(w)
    PROVE  /\ OwedOK' /\ Chances' = Chances - 1 /\ Chances \in Nat /\ Chances >= 1
           /\ ~HasReady' /\ Due' = 0
           /\ HasReady => StartRefresh(w)
<1>1. TypeOK
  BY DEF AInv, IInv
<1>2. PICK p \in {"exit", "refresh", "run", "sleep"} :
        /\ pc[w] = "awake" /\ pc' = [pc EXCEPT ![w] = p]
        /\ UNCHANGED <<ready, token, permits, posts>>
  BY DEF StartRefresh, PickPrioritized, PickPostponed, StartTask, FindNothing, ingressVars
<1>3. OwedOK' /\ Chances' = Chances - 1 /\ Chances \in Nat /\ Chances >= 1
  <2>1. ready \subseteq ready'
    BY <1>2
  <2> QED
    BY <1>1, <1>2, <2>1, SpentChance, AwakeChance
<1>4. CASE StartRefresh(w)
  <2>1. PICK n \in 0..Len(incoming) : IsReadyPrefix(n) /\ incoming' = SubSeq(incoming, n + 1, Len(incoming))
    BY <1>4 DEF StartRefresh, Undrained
  <2>2. PICK v : v = SubSeq(incoming, n + 1, Len(incoming))
    OBVIOUS
  <2>3. ASSUME v # <<>> PROVE BatchOf(Head(v)) \notin ready
    <3>1. incoming \in Seq(Tasks) /\ Len(incoming) \in Nat
      BY <1>1, LenProperties DEF TypeOK
    <3>2. \A k \in (n + 1)..Len(incoming) : incoming[k] \in Tasks
      BY <3>1, ElementOfSeq
    <3>3. /\ v \in Seq(Tasks) /\ Len(v) = IF n + 1 <= Len(incoming) THEN Len(incoming) - (n + 1) + 1 ELSE 0
          /\ \A k \in 1..(Len(incoming) - (n + 1) + 1) : v[k] = incoming[(n + 1) + k - 1]
      BY <2>2, <3>1, <3>2, SubSeqProperties
    <3>4. Len(v) # 0 /\ Head(v) = v[1]
      BY <2>3, <3>3, EmptySeq, LenProperties, HeadTailProperties
    <3>5. n < Len(incoming) /\ v[1] = incoming[n + 1]
      BY <3>1, <3>3, <3>4
    <3> QED
      BY <2>1, <3>4, <3>5 DEF IsReadyPrefix
  <2> QED
    BY <1>2, <1>3, <1>4, <2>1, <2>2, <2>3 DEF HasReady, Due
<1>5. CASE PickPrioritized(w) \/ PickPostponed(w) \/ FindNothing(w)
  <2>1. ~HasReady /\ UNCHANGED <<incoming, ready>>
    BY <1>5 DEF PickPrioritized, PickPostponed, StartTask, FindNothing, MustRefresh, Sorted, ingressVars
  <2> QED
    BY <1>3, <2>1 DEF HasReady, Due
<1> QED
  BY <1>4, <1>5

\* A linked batch waits unready: it asks for nothing yet.
LEMMA LinkOwesNothing ==
    ASSUME AInv, OwedOK, NEW b \in Batches, Link(b)
    PROVE  OwedOK' /\ Chances' = Chances /\ HasReady' = HasReady
<1>1. TypeOK /\ TypeOK'
  <2>1. TypeOK
    BY DEF AInv, IInv
  <2> QED
    BY <2>1, ProducerType
<1>2. /\ b \notin linked /\ incoming' = incoming \o BatchTasks[b]
      /\ UNCHANGED <<ready, token, permits, posts, pc>>
  BY DEF Link, workerVars
<1>3. PICK s \in Seq(Tasks) : s = BatchTasks[b] /\ s # <<>>
  BY BatchAssumption
<1>4. Len(s) \in Nat /\ Len(s) # 0 /\ incoming \in Seq(Tasks) /\ Len(incoming) \in Nat
  BY <1>1, <1>3, LenProperties, EmptySeq DEF TypeOK
<1>5. /\ incoming' \in Seq(Tasks) /\ Len(incoming') = Len(incoming) + Len(s)
      /\ incoming' # <<>> /\ Head(incoming') = incoming'[1]
      /\ incoming'[1] = IF 1 <= Len(incoming) THEN incoming[1] ELSE s[1]
  <2>1. PICK u : u = incoming \o s
    OBVIOUS
  <2>2. /\ u \in Seq(Tasks) /\ Len(u) = Len(incoming) + Len(s)
        /\ u[1] = IF 1 <= Len(incoming) THEN incoming[1] ELSE s[1 - Len(incoming)]
    BY <1>4, <2>1, ConcatProperties
  <2>3. u # <<>> /\ Head(u) = u[1]
    BY <1>4, <2>2, EmptySeq, HeadTailProperties
  <2>4. u[1] = IF 1 <= Len(incoming) THEN incoming[1] ELSE s[1]
    BY <1>4, <2>2
  <2> QED
    BY <1>2, <1>3, <2>1, <2>2, <2>3, <2>4
<1>6. BatchOf(s[1]) \notin ready
  <2>1. s[1] \in ToSet(s)
    BY <1>4, LenProperties DEF ToSet
  <2>2. \A c \in Batches : s[1] \in ToSet(BatchTasks[c]) => c = b
    BY <1>3, <2>1, BatchAssumption
  <2>3. BatchOf(s[1]) = b
    BY <1>3, <2>1, <2>2 DEF BatchOf
  <2> QED
    BY <1>1, <1>2, <2>3 DEF TypeOK
<1>7. HasReady' = HasReady
  <2>1. CASE incoming = <<>>
    BY <1>2, <1>4, <1>5, <1>6, <2>1, EmptySeq DEF HasReady
  <2>2. CASE incoming # <<>>
    <3>1. 1 <= Len(incoming) /\ Head(incoming) = incoming[1]
      BY <1>4, <2>2, EmptySeq, HeadTailProperties
    <3> QED
      BY <1>2, <1>5, <2>2, <3>1 DEF HasReady
  <2> QED
    BY <2>1, <2>2
<1>8. OwedOK' /\ Chances' = Chances
  BY <1>2 DEF OwedOK, Chances, InPhase
<1> QED
  BY <1>7, <1>8

\* The end of a run owes a chance for the task that comes back, or for what
\* the lane held up.
LEMMA EndRunOwes ==
    ASSUME AInv, OwedOK, NEW w \in Workers, Complete(w) \/ Postpone(w)
    PROVE  /\ OwedOK' /\ HasReady' = HasReady /\ tasks' = tasks
           /\ \E t \in Tasks, p \in BOOLEAN, n \in {0, 1} :
                /\ held[w] = {t} /\ EndRun(w, t, p) /\ (t \in Serial => serial_running)
                /\ n = PermitsAfterRun(t, p) /\ Chances' = Chances + n
                /\ ToSet(spinning_tasks') = ToSet(spinning_tasks) \cup (IF p THEN {t} ELSE {})
<1>1. TypeOK /\ HandsOK /\ PlacesOK /\ SerialLane
  BY DEF AInv, IInv
<1>2. PICK t \in Tasks, p \in BOOLEAN :
        /\ held[w] = {t} /\ EndRun(w, t, p)
        /\ p => spinning_tasks' = Append(spinning_tasks, t)
        /\ ~p => spinning_tasks' = spinning_tasks
  <2>1. PICK t \in Tasks : held[w] = {t}
    BY <1>1 DEF HandsOK, Complete, Postpone
  <2>2. CASE Complete(w)
    BY <2>1, <2>2 DEF Complete
  <2>3. CASE Postpone(w)
    BY <2>1, <2>3 DEF Postpone
  <2> QED
    BY <2>2, <2>3
<1>3. PICK n \in {0, 1} : n = PermitsAfterRun(t, p)
  BY DEF PermitsAfterRun
<1>4. /\ pc[w] = "run" /\ AfterUnlock(w, n)
      /\ UNCHANGED <<incoming, ready, token, permits, tasks>>
  BY <1>2, <1>3 DEF EndRun, Complete, Postpone, ingressVars
<1>5. OwedOK' /\ Chances' = Chances + n
  BY <1>1, <1>3, <1>4, OwedChances
<1>6. HasReady' = HasReady
  BY <1>4 DEF HasReady
<1>7. t \notin ToSet(spinning_tasks) /\ t \notin tasks
  <2>1. t \in Hands
    BY <1>2 DEF Hands
  <2> QED
    BY <1>1, <2>1 DEF PlacesOK, Apart
<1>8. ToSet(spinning_tasks') = ToSet(spinning_tasks) \cup (IF p THEN {t} ELSE {})
  <2>1. spinning_tasks \in Seq(Tasks) /\ IsInjective(spinning_tasks)
    BY <1>1 DEF TypeOK, PlacesOK
  <2>2. CASE p
    <3>1. spinning_tasks' = Append(spinning_tasks, t)
      BY <1>2, <2>2
    <3>2. ToSet(Append(spinning_tasks, t)) = ToSet(spinning_tasks) \cup {t}
      BY <1>7, <2>1, AppendElement
    <3> QED
      BY <2>2, <3>1, <3>2
  <2>3. CASE ~p
    <3>1. spinning_tasks' = spinning_tasks
      BY <1>2, <2>3
    <3> QED
      BY <2>3, <3>1
  <2> QED
    BY <2>2, <2>3
<1>9. t \in Serial => serial_running
  BY <1>1, <1>2, <1>4 DEF SerialLane, RunsSerial
<1> QED
  BY <1>2, <1>3, <1>4, <1>5, <1>6, <1>8, <1>9

\* Where no wake-up is owed there is no chance left.
LEMMA SpentAll ==
    ASSUME TypeOK, OwedOK, ~WakeOwed
    PROVE  Chances = 0
<1>1. /\ permits = 0
      /\ \A w \in Workers : pc[w] \notin {"awake", "post"}
      /\ \A b \in Batches : token[b] = 0
  BY DEF WakeOwed, TypeOK
<1>2. \A w \in Workers : posts[w] = 0
  BY <1>1 DEF OwedOK, TypeOK
<1>3. Owed(Batches, token) = {} /\ Owed(Workers, posts) = {} /\ InPhase("awake") = {}
  BY <1>1, <1>2 DEF Owed, InPhase
<1> QED
  BY <1>1, <1>3, FS_EmptySet DEF Chances
-----------------------------------------------------------------------------
(* The chances suffice for what waits *)

\* what waits and needs no lane
FreeWork == (tasks \cup ToSet(spinning_tasks)) \ Serial

\* There is a chance for every task outside the lane, and one for the lane;
\* while a serial task runs, the chance that its end will owe counts.
ChancesOK ==
    /\ Chances >= Due
    /\ \/ Chances >= Cardinality(FreeWork) + Due
       \/ serial_running /\ Chances + 1 >= Cardinality(FreeWork \cup tasks) + Due
    /\ ~serial_running /\ tasks \cap Serial # {} => Chances >= Cardinality(FreeWork) + 1

\* A part of a finite set of tasks is no larger.
LEMMA Fewer ==
    ASSUME NEW S \in SUBSET Tasks, NEW T \in SUBSET S
    PROVE  /\ IsFiniteSet(S) /\ IsFiniteSet(T)
           /\ Cardinality(S) \in Nat /\ Cardinality(T) \in Nat
           /\ Cardinality(T) <= Cardinality(S)
           /\ \A t \in S \ T : Cardinality(T) + 1 <= Cardinality(S)
<1>1. IsFiniteSet(S) /\ IsFiniteSet(T)
  BY FS_Subset, SetsAssumption
<1>2. Cardinality(S) \in Nat /\ Cardinality(T) \in Nat /\ Cardinality(T) <= Cardinality(S)
  BY <1>1, FS_CardinalityType, FS_Subset
<1>3. ASSUME NEW t \in S \ T PROVE Cardinality(T) + 1 <= Cardinality(S)
  <2>1. IsFiniteSet(T \cup {t}) /\ Cardinality(T \cup {t}) = Cardinality(T) + 1
    BY <1>1, <1>3, FS_AddElement
  <2>2. T \cup {t} \subseteq S
    BY <1>3
  <2>3. Cardinality(T \cup {t}) <= Cardinality(S)
    BY <1>1, <2>2, FS_Subset
  <2> QED
    BY <2>1, <2>3
<1> QED
  BY <1>1, <1>2, <1>3

\* Tasks that join a set add no more than their number.
LEMMA Joined ==
    ASSUME NEW S \in SUBSET Tasks, NEW T \in SUBSET Tasks
    PROVE  /\ Cardinality(S \cup T) \in Nat /\ Cardinality(S) \in Nat /\ Cardinality(T) \in Nat
           /\ Cardinality(S \cup T) <= Cardinality(S) + Cardinality(T)
<1>1. IsFiniteSet(S) /\ IsFiniteSet(T)
  BY FS_Subset, SetsAssumption
<1>2. IsFiniteSet(S \cup T) /\ IsFiniteSet(S \cap T)
  BY <1>1, FS_Union, FS_Subset
<1>3. Cardinality(S \cup T) = Cardinality(S) + Cardinality(T) - Cardinality(S \cap T)
  BY <1>1, FS_Union
<1> QED
  BY <1>1, <1>2, <1>3, FS_CardinalityType

\* What waits is a finite set of tasks.
LEMMA WorkType ==
    ASSUME TypeOK
    PROVE  /\ FreeWork \in SUBSET Tasks /\ FreeWork \cup tasks \in SUBSET Tasks
           /\ ToSet(spinning_tasks) \subseteq Tasks
           /\ Cardinality(FreeWork) \in Nat /\ Cardinality(FreeWork \cup tasks) \in Nat
           /\ Due \in {0, 1} /\ (HasReady <=> Due = 1)
<1>1. ToSet(spinning_tasks) \subseteq Tasks
  BY ToSetType DEF TypeOK
<1>2. FreeWork \in SUBSET Tasks /\ FreeWork \cup tasks \in SUBSET Tasks
  BY <1>1 DEF FreeWork, TypeOK
<1> QED
  BY <1>1, <1>2, Fewer DEF Due

\* Where nothing waits every chance is one too many.
LEMMA NothingWaits ==
    ASSUME TypeOK, OwedOK, tasks = {}, spinning_tasks = <<>>, incoming = <<>>
    PROVE  ChancesOK
<1>1. FreeWork = {} /\ ~HasReady
  BY DEF FreeWork, HasReady, ToSet
<1>2. Cardinality(FreeWork) = 0 /\ Due = 0
  BY <1>1, FS_EmptySet DEF Due
<1> QED
  BY <1>2, ChancesType DEF ChancesOK

\* More chances for the same work.
LEMMA MoreChances ==
    ASSUME TypeOK, OwedOK, ChancesOK, Chances' \in Nat, Chances' >= Chances, HasReady' = HasReady,
           UNCHANGED <<tasks, spinning_tasks, serial_running>>
    PROVE  ChancesOK'
<1>1. FreeWork' = FreeWork /\ Due' = Due
  BY DEF FreeWork, Due
<1> QED
  BY <1>1, WorkType, ChancesType DEF ChancesOK

\* A published batch brings a chance per task.
LEMMA PublishChances ==
    ASSUME AInv, OwedOK, NEW b \in Batches, Publish(b)
    PROVE  OwedOK' /\ (ChancesOK => ChancesOK')
<1>1. TypeOK
  BY DEF AInv, IInv
<1>2. /\ OwedOK' /\ Chances' \in Nat /\ Chances' >= Chances + 1
      /\ UNCHANGED <<tasks, spinning_tasks, serial_running>>
  BY PublishOwes DEF Publish, queueVars
<1>3. FreeWork' = FreeWork /\ Due' \in {0, 1}
  BY <1>2 DEF FreeWork, Due
<1> QED
  BY <1>1, <1>2, <1>3, WorkType, ChancesType DEF ChancesOK

\* A refresh takes the queue and the ready batches in hand.
LEMMA StartRefreshChances ==
    ASSUME AInv, OwedOK, NEW w \in Workers, StartRefresh(w)
    PROVE  OwedOK' /\ (ChancesOK => ChancesOK')
<1>1. TypeOK /\ PlacesOK
  BY DEF AInv, IInv
<1>2. /\ tasks' = {}
      /\ tasks # {} \/ HasReady
      /\ UNCHANGED <<spinning_tasks, serial_running>>
  BY DEF StartRefresh, MustRefresh, MayRefresh
<1>3. OwedOK' /\ Chances' = Chances - 1 /\ Chances >= 1
  BY LookSpends
<1>4. ~HasReady' /\ Due' = 0
  BY LookSpends
<1>5. FreeWork' = ToSet(spinning_tasks) \ Serial
  BY <1>2 DEF FreeWork
<1>6. FreeWork' \in SUBSET FreeWork /\ FreeWork' \in SUBSET (FreeWork \cup tasks)
  BY <1>5 DEF FreeWork
<1>7. /\ Cardinality(FreeWork') \in Nat /\ Cardinality(FreeWork') <= Cardinality(FreeWork)
      /\ Cardinality(FreeWork') <= Cardinality(FreeWork \cup tasks)
  BY <1>1, <1>6, WorkType, Fewer
<1>8. ASSUME NEW t \in tasks
      PROVE  /\ Cardinality(FreeWork') + 1 <= Cardinality(FreeWork \cup tasks)
             /\ t \notin Serial => Cardinality(FreeWork') + 1 <= Cardinality(FreeWork)
  <2>1. t \notin FreeWork'
    BY <1>1, <1>5 DEF PlacesOK, Apart
  <2>2. t \in (FreeWork \cup tasks) \ FreeWork'
    BY <2>1
  <2>3. t \notin Serial => t \in FreeWork \ FreeWork'
    BY <2>1 DEF FreeWork
  <2> QED
    BY <1>1, <1>6, <2>2, <2>3, WorkType, Fewer
<1>9. ASSUME ChancesOK PROVE ChancesOK'
  <2>1. FreeWork' \cup tasks' = FreeWork' /\ tasks' \cap Serial = {}
    BY <1>2
  <2>2. \/ Chances' >= Cardinality(FreeWork')
        \/ serial_running /\ Chances' + 1 >= Cardinality(FreeWork')
    <3>1. CASE Due = 1
      BY <1>1, <1>3, <1>7, <1>9, <3>1, WorkType, ChancesType DEF ChancesOK
    <3>2. CASE Due = 0
      <4>1. PICK t \in tasks : TRUE
        BY <1>1, <1>2, <3>2, WorkType
      <4>2. CASE t \notin Serial
        <5>1. Cardinality(FreeWork') + 1 <= Cardinality(FreeWork)
          BY <1>8, <4>2
        <5>2. Cardinality(FreeWork') + 1 <= Cardinality(FreeWork \cup tasks)
          BY <1>8
        <5>3. \/ Chances >= Cardinality(FreeWork)
              \/ serial_running /\ Chances + 1 >= Cardinality(FreeWork \cup tasks)
          BY <1>1, <1>9, <3>2, WorkType, ChancesType DEF ChancesOK
        <5> QED
          BY <1>1, <1>3, <1>7, <5>1, <5>2, <5>3, WorkType, ChancesType
      <4>3. CASE t \in Serial /\ ~serial_running
        BY <1>1, <1>3, <1>7, <1>9, <4>3, WorkType, ChancesType DEF ChancesOK
      <4>4. CASE t \in Serial /\ serial_running
        <5>1. Cardinality(FreeWork') + 1 <= Cardinality(FreeWork \cup tasks)
          BY <1>8
        <5>2. \/ Chances >= Cardinality(FreeWork)
              \/ Chances + 1 >= Cardinality(FreeWork \cup tasks)
          BY <1>1, <1>9, <3>2, WorkType, ChancesType DEF ChancesOK
        <5>3. Chances >= Cardinality(FreeWork')
          BY <1>1, <1>7, <5>1, <5>2, WorkType, ChancesType
        <5> QED
          BY <1>1, <1>3, <1>7, <4>4, <5>3, ChancesType
      <4> QED
        BY <4>2, <4>3, <4>4
    <3> QED
      BY <1>1, <3>1, <3>2, WorkType
  <2> QED
    BY <1>1, <1>2, <1>3, <1>4, <1>7, <2>1, <2>2, ChancesType DEF ChancesOK
<1> QED
  BY <1>3, <1>9

\* The detached tasks that are still wanted come back, each with a chance.
LEMMA FinishRefreshChances ==
    ASSUME AInv, OwedOK, NEW w \in Workers, FinishRefresh(w)
    PROVE  OwedOK' /\ (ChancesOK => ChancesOK')
<1>1. TypeOK /\ PlacesOK
  BY DEF AInv, IInv
<1>2. PICK new \in SUBSET Tasks :
        tasks' = tasks \cup new /\ AfterUnlock(w, Cardinality(new))
  <2>1. PICK gone \in SUBSET held[w] :
          tasks' = tasks \cup (held[w] \ gone) /\ AfterUnlock(w, Cardinality(held[w] \ gone))
    BY DEF FinishRefresh
  <2>2. held[w] \ gone \in SUBSET Tasks
    BY <1>1 DEF TypeOK
  <2> QED
    BY <2>1, <2>2
<1>3. /\ pc[w] = "refresh"
      /\ UNCHANGED <<incoming, ready, token, permits, spinning_tasks, serial_running>>
  BY DEF FinishRefresh, ingressVars
<1>4. PICK n \in Nat : n = Cardinality(new)
  BY Joined
<1>5. OwedOK' /\ Chances' = Chances + n
  BY <1>1, <1>2, <1>3, <1>4, OwedChances
<1>6. Due' = Due
  BY <1>3 DEF Due, HasReady
<1>7. /\ FreeWork' = FreeWork \cup (new \ Serial)
      /\ FreeWork' \cup tasks' = (FreeWork \cup tasks) \cup new
  BY <1>2, <1>3 DEF FreeWork
<1>8. PICK m \in Nat : m = Cardinality(new \ Serial)
  BY Joined
<1>9. m <= n /\ (new \cap Serial # {} => m + 1 <= n)
  <2>1. new \ Serial \in SUBSET new
    OBVIOUS
  <2>2. \A t \in new \cap Serial : t \in new \ (new \ Serial)
    OBVIOUS
  <2> QED
    BY <1>4, <1>8, <2>1, <2>2, Fewer
<1>10. /\ Cardinality(FreeWork') \in Nat /\ Cardinality(FreeWork' \cup tasks') \in Nat
       /\ Cardinality(FreeWork') <= Cardinality(FreeWork) + m
       /\ Cardinality(FreeWork' \cup tasks') <= Cardinality(FreeWork \cup tasks) + n
  <2>1. new \ Serial \in SUBSET Tasks
    OBVIOUS
  <2> QED
    BY <1>1, <1>4, <1>7, <1>8, <2>1, WorkType, Joined
<1>11. ASSUME ChancesOK PROVE ChancesOK'
  <2>1. Chances' >= Due'
    BY <1>1, <1>5, <1>6, <1>11, WorkType, ChancesType DEF ChancesOK
  <2>2. \/ Chances' >= Cardinality(FreeWork') + Due'
        \/ serial_running' /\ Chances' + 1 >= Cardinality(FreeWork' \cup tasks') + Due'
    BY <1>1, <1>3, <1>5, <1>6, <1>9, <1>10, <1>11, WorkType, ChancesType DEF ChancesOK
  <2>3. ASSUME ~serial_running', tasks' \cap Serial # {}
        PROVE  Chances' >= Cardinality(FreeWork') + 1
    <3>1. CASE tasks \cap Serial # {}
      BY <1>1, <1>3, <1>5, <1>9, <1>10, <1>11, <2>3, <3>1, WorkType, ChancesType DEF ChancesOK
    <3>2. CASE tasks \cap Serial = {}
      <4>1. m + 1 <= n
        BY <1>2, <1>9, <2>3, <3>2
      <4> QED
        BY <1>1, <1>3, <1>5, <1>10, <1>11, <2>3, <4>1, WorkType, ChancesType DEF ChancesOK
    <3> QED
      BY <3>1, <3>2
  <2> QED
    BY <2>1, <2>2, <2>3 DEF ChancesOK
<1> QED
  BY <1>5, <1>11

\* A picked task is one less to wake for.
LEMMA PickChances ==
    ASSUME AInv, OwedOK, NEW w \in Workers, PickPrioritized(w) \/ PickPostponed(w)
    PROVE  OwedOK' /\ (ChancesOK => ChancesOK')
<1>1. TypeOK /\ PlacesOK
  BY DEF AInv, IInv
<1>2. PICK t \in Tasks :
        /\ StartTask(w, t)
        /\ serial_running => t \notin Serial
        /\ t \in tasks \cup ToSet(spinning_tasks)
        /\ tasks' \cup ToSet(spinning_tasks') = (tasks \cup ToSet(spinning_tasks)) \ {t}
        /\ tasks' \subseteq tasks
  BY PickPlaces
<1>3. /\ pc[w] = "awake" /\ pc' = [pc EXCEPT ![w] = "run"]
      /\ serial_running' = (serial_running \/ t \in Serial)
  BY <1>2 DEF StartTask, PickPrioritized, PickPostponed
<1>4. OwedOK' /\ Chances' = Chances - 1 /\ Chances \in Nat /\ Chances >= 1
  BY LookSpends
<1>5. Due = 0 /\ Due' = 0
  <2>1. pc' # pc /\ ~ StartRefresh(w)
    BY <1>1, <1>3 DEF TypeOK, StartRefresh
  <2> QED
    BY <2>1, LookSpends DEF Due
<1>6. ASSUME ChancesOK, t \notin Serial PROVE ChancesOK'
  <2>1. FreeWork' \in SUBSET FreeWork /\ FreeWork' \cup tasks' \in SUBSET (FreeWork \cup tasks)
    BY <1>2 DEF FreeWork
  <2>2. t \in FreeWork \ FreeWork' /\ t \in (FreeWork \cup tasks) \ (FreeWork' \cup tasks')
    BY <1>2, <1>6 DEF FreeWork
  <2>3. /\ Cardinality(FreeWork') \in Nat /\ Cardinality(FreeWork' \cup tasks') \in Nat
        /\ Cardinality(FreeWork') + 1 <= Cardinality(FreeWork)
        /\ Cardinality(FreeWork' \cup tasks') + 1 <= Cardinality(FreeWork \cup tasks)
    BY <1>1, <2>1, <2>2, WorkType, Fewer
  <2>4. serial_running' = serial_running /\ (tasks' \cap Serial # {} => tasks \cap Serial # {})
    BY <1>1, <1>2, <1>3, <1>6 DEF TypeOK
  <2> QED
    BY <1>1, <1>4, <1>5, <1>6, <2>3, <2>4, WorkType DEF ChancesOK
<1>7. ASSUME ChancesOK, t \in Serial PROVE ChancesOK'
  <2>1. ~serial_running /\ serial_running'
    BY <1>2, <1>3, <1>7
  <2>2. FreeWork' = FreeWork
    BY <1>2, <1>7 DEF FreeWork
  <2>3. Chances >= Cardinality(FreeWork)
    BY <1>1, <1>5, <1>7, <2>1, WorkType DEF ChancesOK
  <2>4. \/ Chances >= Cardinality(FreeWork) + 1
        \/ Chances >= Cardinality(FreeWork \cup tasks')
    <3>1. CASE tasks \cap Serial # {}
      BY <1>7, <2>1, <3>1 DEF ChancesOK
    <3>2. CASE tasks \cap Serial = {}
      <4>1. tasks' \subseteq FreeWork
        BY <1>2, <3>2 DEF FreeWork
      <4>2. FreeWork \cup tasks' = FreeWork
        BY <4>1
      <4> QED
        BY <2>3, <4>2
    <3> QED
      BY <3>1, <3>2
  <2>5. /\ FreeWork' \cup tasks' = FreeWork \cup tasks'
        /\ Cardinality(FreeWork \cup tasks') \in Nat
    <3>1. FreeWork \cup tasks' \in SUBSET (FreeWork \cup tasks)
      BY <1>2
    <3> QED
      BY <1>1, <2>2, <3>1, WorkType, Fewer
  <2>6. /\ Chances' >= Due'
        /\ \/ Chances' >= Cardinality(FreeWork') + Due'
           \/ Chances' + 1 >= Cardinality(FreeWork' \cup tasks') + Due'
    BY <1>1, <1>4, <1>5, <2>2, <2>3, <2>4, <2>5, WorkType
  <2> QED
    BY <2>1, <2>6 DEF ChancesOK
<1> QED
  BY <1>4, <1>6, <1>7

\* A worker that finds nothing to pick was not needed.
LEMMA FindNothingChances ==
    ASSUME AInv, OwedOK, NEW w \in Workers, FindNothing(w)
    PROVE  OwedOK' /\ (ChancesOK => ChancesOK')
<1>1. TypeOK
  BY DEF AInv, IInv
<1>2. /\ PickableTasks = {} /\ PickablePostponed = {}
      /\ UNCHANGED <<tasks, spinning_tasks, serial_running>>
  BY DEF FindNothing, queueVars
<1>3. OwedOK' /\ Chances' = Chances - 1 /\ Chances \in Nat /\ Chances >= 1
  BY LookSpends
<1>4. Due' = 0
  BY LookSpends
<1>5. FreeWork = {} /\ (~serial_running => tasks = {})
  <2>1. tasks \subseteq Serial /\ (~serial_running => tasks = {})
    BY <1>1, <1>2 DEF PickableTasks, TypeOK
  <2>2. ToSet(spinning_tasks) \subseteq Serial
    BY <1>2 DEF PickablePostponed, ToSet
  <2> QED
    BY <2>1, <2>2 DEF FreeWork
<1>6. Cardinality(FreeWork') = 0
  BY <1>2, <1>5, FS_EmptySet DEF FreeWork
<1> QED
  BY <1>2, <1>3, <1>4, <1>5, <1>6 DEF ChancesOK

\* The end of a run leaves a chance for every task that waits.
LEMMA EndRunChances ==
    ASSUME AInv, OwedOK, NEW w \in Workers, Complete(w) \/ Postpone(w)
    PROVE  OwedOK' /\ (ChancesOK => ChancesOK')
<1>1. TypeOK
  BY DEF AInv, IInv
<1>2. PICK t \in Tasks, p \in BOOLEAN, n \in {0, 1} :
        /\ EndRun(w, t, p) /\ (t \in Serial => serial_running)
        /\ n = PermitsAfterRun(t, p) /\ Chances' = Chances + n
        /\ ToSet(spinning_tasks') = ToSet(spinning_tasks) \cup (IF p THEN {t} ELSE {})
  BY EndRunOwes
<1>3. n = PermitsAfterRun(t, p)
  BY <1>2
<1>4. serial_running' = (serial_running /\ t \notin Serial) /\ tasks' = tasks
  BY <1>2 DEF EndRun
<1>5. OwedOK' /\ Chances' = Chances + n
  BY <1>2, EndRunOwes
<1>6. Due' = Due
  BY EndRunOwes DEF Due
<1>7. ToSet(spinning_tasks') = ToSet(spinning_tasks) \cup (IF p THEN {t} ELSE {})
  BY <1>2
<1>8. ASSUME ChancesOK, t \notin Serial PROVE ChancesOK'
  <2>1. serial_running' = serial_running
    BY <1>1, <1>4, <1>8 DEF TypeOK
  <2>2. CASE p
    <3>1. n = 1
      BY <1>3, <2>2 DEF PermitsAfterRun
    <3>2. FreeWork' = FreeWork \cup {t} /\ FreeWork' \cup tasks' = (FreeWork \cup tasks) \cup {t}
      BY <1>4, <1>7, <1>8, <2>2 DEF FreeWork
    <3>3. Cardinality({t}) = 1 /\ {t} \in SUBSET Tasks
      BY FS_Singleton
    <3>4. /\ Cardinality(FreeWork') \in Nat /\ Cardinality(FreeWork' \cup tasks') \in Nat
          /\ Cardinality(FreeWork') <= Cardinality(FreeWork) + 1
          /\ Cardinality(FreeWork' \cup tasks') <= Cardinality(FreeWork \cup tasks) + 1
      BY <1>1, <3>2, <3>3, WorkType, Joined
    <3> QED
      BY <1>1, <1>4, <1>5, <1>6, <1>8, <2>1, <3>1, <3>4, WorkType, ChancesType DEF ChancesOK
  <2>3. CASE ~p
    <3>1. n = 0 /\ FreeWork' = FreeWork
      BY <1>3, <1>4, <1>7, <1>8, <2>3 DEF PermitsAfterRun, FreeWork
    <3> QED
      BY <1>1, <1>4, <1>5, <1>6, <1>8, <2>1, <3>1, WorkType, ChancesType DEF ChancesOK
  <2> QED
    BY <2>2, <2>3
<1>9. ASSUME ChancesOK, t \in Serial PROVE ChancesOK'
  <2>1. serial_running /\ ~serial_running'
    BY <1>2, <1>4, <1>9
  <2>2. FreeWork' = FreeWork
    BY <1>4, <1>7, <1>9 DEF FreeWork
  <2>3. Chances + 1 >= Cardinality(FreeWork) + Due
    <3>1. Cardinality(FreeWork) <= Cardinality(FreeWork \cup tasks)
      <4>1. FreeWork \in SUBSET (FreeWork \cup tasks)
        OBVIOUS
      <4> QED
        BY <1>1, <4>1, WorkType, Fewer
    <3> QED
      BY <1>1, <1>9, <3>1, WorkType, ChancesType DEF ChancesOK
  <2>4. CASE n = 1
    <3>1. ASSUME tasks \cap Serial # {} PROVE Chances >= Cardinality(FreeWork)
      <4>1. PICK u \in tasks : u \in Serial
        BY <3>1
      <4>2. u \in (FreeWork \cup tasks) \ FreeWork /\ FreeWork \in SUBSET (FreeWork \cup tasks)
        BY <4>1 DEF FreeWork
      <4>3. Cardinality(FreeWork) + 1 <= Cardinality(FreeWork \cup tasks)
        BY <1>1, <4>2, WorkType, Fewer
      <4> QED
        BY <1>1, <1>9, <4>3, WorkType, ChancesType DEF ChancesOK
    <3> QED
      BY <1>1, <1>4, <1>5, <1>6, <1>9, <2>1, <2>2, <2>3, <2>4, <3>1, WorkType, ChancesType
         DEF ChancesOK
  <2>5. CASE n = 0
    <3>1. ~HasQueued
      BY <1>3, <1>9, <2>5 DEF PermitsAfterRun
    <3>2. tasks = {} /\ FreeWork = {}
      BY <3>1 DEF HasQueued, FreeWork, ToSet
    <3>3. Cardinality(FreeWork) = 0
      BY <3>2, FS_EmptySet
    <3> QED
      BY <1>1, <1>4, <1>5, <1>6, <1>9, <2>1, <2>2, <2>5, <3>2, <3>3, WorkType, ChancesType
         DEF ChancesOK
  <2> QED
    BY <2>4, <2>5
<1> QED
  BY <1>5, <1>8, <1>9

-----------------------------------------------------------------------------
(* A pool that stops has nothing to do *)

\* the pool is dropped, with whatever is still queued
Dead == stopping /\ (op = "drop" \/ owner = "dropped")

\* Only a drop stops threads that have something to do.
StopsOK ==
    /\ op = "none" <=> owner \in {"free", "dropped"}
    /\ op = "wait" => owner \in {"check", "parked"}
    /\ owner \in {"stop", "posting", "join"} /\ op # "drop" => Threads = {} \/ Idle
    /\ stopping /\ ~Dead => Threads = {} \/ owner \in {"posting", "join"}

\* The workers' steps leave the owner's call where it is, and the threads.
LEMMA WorkerStops ==
    ASSUME AInv, StopsOK, NEW w \in Workers, WorkerStep(w)
    PROVE  StopsOK'
<1>1. TypeOK /\ HandsApart /\ PlacesOK
  BY DEF AInv, IInv
<1>2. /\ UNCHANGED <<op, stopping>>
      /\ owner' = owner \/ (owner = "parked" /\ owner' = "check")
  BY DEF WorkerStep, Wake, Exit, StartRefresh, FinishRefresh, PickPrioritized, PickPostponed,
         StartTask, FindNothing, Complete, Postpone, EndRun, WorkerPost, NotifyAll, ownerVars
<1>3. Threads' = Threads /\ w \in Threads
  <2>1. pc[w] # "none" /\ pc'[w] # "none" /\ \A v \in Workers \ {w} : pc'[v] = pc[v]
    BY <1>1 DEF WorkerStep, Wake, Exit, StartRefresh, FinishRefresh, PickPrioritized, PickPostponed,
                StartTask, FindNothing, Complete, Postpone, EndRun, AfterUnlock, WorkerPost, TypeOK
  <2> QED
    BY <2>1 DEF Threads
<1>4. ASSUME Idle PROVE Idle'
  <2>1. held[w] = {} /\ ~HasReady
    BY <1>4 DEF Idle, Hands, HasReady
  <2>2. ~ StartRefresh(w)
    BY <1>4, <2>1 DEF StartRefresh, MustRefresh, MayRefresh, Idle
  <2>3. ~ Complete(w) /\ ~ Postpone(w)
    BY <2>1 DEF Complete, Postpone
  <2>4. ~ PickPrioritized(w) /\ ~ PickPostponed(w)
    <3>1. ToSet(spinning_tasks) = {} /\ tasks = {}
      BY <1>4 DEF Idle, ToSet
    <3> QED
      BY <3>1, PickPlaces
  <2>5. CASE FinishRefresh(w)
    <3>1. tasks' = tasks /\ held' = [held EXCEPT ![w] = {}] /\ UNCHANGED <<spinning_tasks, incoming>>
      BY <2>1, <2>5 DEF FinishRefresh, ingressVars
    <3>2. held' = held
      BY <1>1, <2>1, <3>1 DEF TypeOK
    <3> QED
      BY <1>4, <3>1, <3>2 DEF Idle, Hands
  <2>6. CASE Wake(w) \/ Exit(w) \/ FindNothing(w) \/ WorkerPost(w)
    BY <1>4, <2>6 DEF Wake, Exit, FindNothing, WorkerPost, Idle, Hands, ingressVars, queueVars
  <2> QED
    BY <2>2, <2>3, <2>4, <2>5, <2>6 DEF WorkerStep
<1> QED
  BY <1>2, <1>3, <1>4 DEF StopsOK, Dead

\* The producers' steps need the pool shared, so none adds a task once it stops.
LEMMA ProducerStops ==
    ASSUME StopsOK, \E b \in Batches : Link(b) \/ Publish(b) \/ PostPermit(b)
    PROVE  StopsOK'
<1>1. UNCHANGED <<owner, op, stopping, pc, held, tasks, spinning_tasks>>
  BY DEF Link, Publish, PostPermit, queueVars, workerVars, ownerVars
<1>2. Threads' = Threads
  BY <1>1 DEF Threads
<1>3. CASE incoming' = incoming
  BY <1>1, <1>2, <1>3 DEF StopsOK, Dead, Idle, Hands
<1>4. CASE \E b \in Batches : Link(b)
  <2>1. owner # "dropped" /\ op \in {"none", "wait"}
    BY <1>4 DEF Link, Shared
  <2> QED
    BY <1>1, <1>2, <2>1 DEF StopsOK, Dead
<1> QED
  BY <1>3, <1>4 DEF Publish, PostPermit

\* The owner stops the threads when it has found nothing to do, or drops the pool.
LEMMA OwnerStops ==
    ASSUME AInv, StopsOK, OwnerStep \/ DrainCompleted \/ \E name \in OwnerOps \ {"none"} : Call(name)
    PROVE  StopsOK'
<1>1. TypeOK
  BY DEF AInv, IInv
<1>2. ASSUME UNCHANGED <<tasks, spinning_tasks, incoming, held, pc>>
      PROVE  Idle' = Idle /\ Threads' = Threads
  BY <1>2 DEF Idle, Hands, Threads
<1>3. CASE DrainCompleted
  <2>1. UNCHANGED <<tasks, spinning_tasks, incoming, held, pc, owner, op, stopping>>
    BY <1>3 DEF DrainCompleted, ingressVars, workerVars, ownerVars
  <2> QED
    BY <1>2, <2>1 DEF StopsOK, Dead
<1>4. ASSUME NEW name \in OwnerOps \ {"none"}, Call(name)
      PROVE  StopsOK'
  <2>1. /\ UNCHANGED <<tasks, spinning_tasks, incoming, held, pc, stopping>>
        /\ owner = "free" /\ op' = name
        /\ name = "wait" => owner' = "check"
        /\ name = "drop" => owner' = "stop"
        /\ name \notin {"wait", "drop"} => owner' = IF Threads = {} THEN "join" ELSE "check"
    BY <1>4 DEF Call, ingressVars, queueVars, workerVars
  <2>2. name \in {"wait", "resize", "shutdown", "drop"}
    BY DEF OwnerOps
  <2>3. op = "none" /\ (stopping => Threads = {})
    BY <2>1 DEF StopsOK, Dead
  <2>4. Threads' = Threads
    BY <1>2, <2>1
  <2> QED
    BY <2>1, <2>2, <2>3, <2>4 DEF StopsOK, Dead
<1>5. CASE CheckIdle
  <2>1. /\ UNCHANGED <<tasks, spinning_tasks, incoming, held, pc, stopping>>
        /\ owner = "check"
        /\ \/ owner' = "parked" /\ op' = op
           \/ op = "wait" /\ owner' = "free" /\ op' = "none"
           \/ op # "wait" /\ owner' = "stop" /\ op' = op /\ Idle
    BY <1>5, IdleFound DEF CheckIdle, ingressVars, queueVars, workerVars
  <2>2. op # "none" /\ (stopping /\ op # "drop" => Threads = {})
    BY <2>1 DEF StopsOK, Dead
  <2> QED
    BY <1>2, <2>1, <2>2 DEF StopsOK, Dead
<1>6. CASE StopThreads \/ PostStop
  <2>1. /\ UNCHANGED <<tasks, spinning_tasks, incoming, held, pc, op>>
        /\ owner \in {"stop", "posting"} /\ owner' \in {"posting", "join"}
    BY <1>6 DEF StopThreads, PostStop, ingressVars, queueVars, workerVars
  <2> QED
    BY <1>2, <2>1 DEF StopsOK, Dead
<1>7. CASE Join
  <2>1. /\ owner = "join" /\ owner' = (IF op = "drop" THEN "dropped" ELSE "free") /\ op' = "none"
        /\ stopping' = IF op = "resize" THEN FALSE ELSE stopping
    BY <1>7 DEF Join
  <2>2. op # "resize" => Threads' = {}
    BY <1>7 DEF Join, Threads
  <2> QED
    BY <2>1, <2>2 DEF StopsOK, Dead
<1> QED
  BY <1>3, <1>4, <1>5, <1>6, <1>7 DEF OwnerStep

-----------------------------------------------------------------------------
(* No wake-up is lost *)

\* While the pool is not dropped there is a chance for all that waits, and only
\* tasks that may postpone themselves are postponed.
WakeInv ==
    /\ AInv /\ OwedOK /\ StopsOK
    /\ ToSet(spinning_tasks) \subseteq Postponing
    /\ Dead \/ ChancesOK

\* A drop is for good.
LEMMA DropsForGood ==
    ASSUME StopsOK, Dead, [Next]_vars
    PROVE  Dead'
<1>1. stopping /\ (op = "drop" \/ owner = "dropped") /\ (owner = "dropped" => op = "none")
  BY DEF Dead, StopsOK
<1>2. CASE UNCHANGED vars
  BY <1>1, <1>2 DEF vars, ownerVars, Dead
<1>3. ASSUME NEW b \in Batches, Link(b) \/ Publish(b) \/ PostPermit(b)
      PROVE  Dead'
  BY <1>1, <1>3 DEF Link, Publish, PostPermit, ownerVars, Dead
<1>4. ASSUME NEW w \in Workers, WorkerStep(w)
      PROVE  Dead'
  <2>1. UNCHANGED <<op, stopping>> /\ (owner = "dropped" => owner' = owner)
    BY <1>4 DEF WorkerStep, Wake, Exit, StartRefresh, FinishRefresh, PickPrioritized, PickPostponed,
                StartTask, FindNothing, Complete, Postpone, EndRun, WorkerPost, NotifyAll, ownerVars
  <2> QED
    BY <1>1, <2>1 DEF Dead
<1>5. CASE OwnerStep \/ DrainCompleted \/ \E name \in OwnerOps \ {"none"} : Call(name)
  <2>1. op = "drop" => owner # "free"
    BY DEF StopsOK
  <2> QED
    BY <1>1, <1>5, <2>1 DEF OwnerStep, CheckIdle, StopThreads, PostStop, Join, DrainCompleted, Call,
                            ownerVars, Dead
<1> QED
  BY <1>2, <1>3, <1>4, <1>5 DEF Next

\* Only tasks that may postpone themselves are postponed.
LEMMA PostponedStep ==
    ASSUME AInv, ToSet(spinning_tasks) \subseteq Postponing, [Next]_vars
    PROVE  ToSet(spinning_tasks') \subseteq Postponing
<1>1. ASSUME NEW w \in Workers, Postpone(w)
      PROVE  ToSet(spinning_tasks') \subseteq Postponing
  <2>1. PICK t \in held[w] : t \in Postponing /\ spinning_tasks' = Append(spinning_tasks, t)
    BY <1>1 DEF Postpone
  <2>2. spinning_tasks \in Seq(Tasks) /\ IsInjective(spinning_tasks) /\ t \in Tasks
    BY DEF AInv, IInv, TypeOK, PlacesOK
  <2>3. t \notin ToSet(spinning_tasks)
    BY <2>1 DEF AInv, PlacesOK, Apart, Hands
  <2>4. ToSet(spinning_tasks') = ToSet(spinning_tasks) \cup {t}
    BY <2>1, <2>2, <2>3, AppendElement
  <2> QED
    BY <2>1, <2>4
<1>2. ASSUME NEW w \in Workers, PickPrioritized(w) \/ PickPostponed(w)
      PROVE  ToSet(spinning_tasks') \subseteq ToSet(spinning_tasks)
  BY <1>2, PickPlaces
<1>3. CASE ~ \E w \in Workers : PickPrioritized(w) \/ PickPostponed(w) \/ Postpone(w)
  <2>1. CASE UNCHANGED vars
    BY <2>1 DEF vars, queueVars
  <2>2. CASE \E b \in Batches : Link(b) \/ Publish(b) \/ PostPermit(b)
    BY <2>2 DEF Link, Publish, PostPermit, queueVars
  <2>3. ASSUME NEW w \in Workers, WorkerStep(w)
        PROVE  spinning_tasks' = spinning_tasks
    BY <1>3, <2>3 DEF WorkerStep, Wake, Exit, StartRefresh, FinishRefresh, FindNothing, Complete,
                      WorkerPost, queueVars
  <2>4. CASE OwnerStep \/ DrainCompleted \/ \E name \in OwnerOps \ {"none"} : Call(name)
    BY <2>4 DEF OwnerStep, CheckIdle, StopThreads, PostStop, Join, DrainCompleted, Call, queueVars
  <2> QED
    BY <2>1, <2>2, <2>3, <2>4 DEF Next
<1> QED
  BY <1>1, <1>2, <1>3

\* The steps that neither bring tasks nor look for them lose no chance, unless a
\* worker leaves a pool that is dropped or has nothing to do.
LEMMA OtherChances ==
    ASSUME AInv, OwedOK, StopsOK, [Next]_vars,
           ~ \E b \in Batches : Publish(b),
           ~ \E w \in Workers : \/ StartRefresh(w) \/ FinishRefresh(w)
                                \/ PickPrioritized(w) \/ PickPostponed(w) \/ FindNothing(w)
                                \/ Complete(w) \/ Postpone(w)
    PROVE  /\ OwedOK' /\ Chances' \in Nat /\ HasReady' = HasReady
           /\ UNCHANGED <<tasks, spinning_tasks, serial_running, refreshing_count>>
           /\ Refreshed' = Refreshed
           /\ Chances' >= Chances \/ Idle \/ Dead
<1> DEFINE Kept == /\ OwedOK' /\ Chances' \in Nat /\ HasReady' = HasReady
                   /\ Chances' >= Chances \/ Idle \/ Dead
<1>1. TypeOK /\ HandsOK
  BY DEF AInv, IInv
<1>2. /\ UNCHANGED <<tasks, spinning_tasks, serial_running, refreshing_count>>
      /\ Refreshed' = Refreshed
  <2>1. serial_running' = serial_running
    BY <1>1, QuietSteps DEF Quiet
  <2>2. CASE \E b \in Batches : Link(b)
    BY <2>1, <2>2 DEF Link, queueVars, workerVars, Refreshed, InPhase
  <2>3. CASE DrainCompleted
    BY <2>1, <2>3 DEF DrainCompleted, workerVars, Refreshed, InPhase
  <2>4. CASE TasksStay
    BY <2>1, <2>4 DEF TasksStay, Refreshed, InPhase
  <2> QED
    BY <2>2, <2>3, <2>4, OtherPlaces
<1>3. CASE /\ UNCHANGED <<incoming, ready, token, posts, pc>>
           /\ permits' \in {permits, permits + 1}
  <2>1. InPhase("awake")' = InPhase("awake") /\ OwedOK' /\ HasReady' = HasReady
    BY <1>3 DEF InPhase, OwedOK, HasReady
  <2> QED
    BY <1>1, <1>2, <1>3, <2>1, ChancesType DEF Chances
<1>4. CASE \/ \E b \in Batches : PostPermit(b)
           \/ \E w \in Workers : Wake(w) \/ WorkerPost(w)
  <2>1. OwedOK' /\ Chances' = Chances
    BY <1>1, <1>4, MovedChances
  <2>2. UNCHANGED <<incoming, ready>>
    BY <1>4 DEF PostPermit, Wake, WorkerPost, ingressVars
  <2> QED
    BY <1>1, <1>2, <2>1, <2>2, ChancesType DEF HasReady
<1>5. ASSUME NEW w \in Workers, Exit(w)
      PROVE  Kept
  <2>1. /\ pc[w] = "awake" /\ stopping /\ pc' = [pc EXCEPT ![w] = "exit"]
        /\ UNCHANGED <<incoming, ready, token, permits, posts>>
    BY <1>5 DEF Exit, ingressVars
  <2>2. OwedOK' /\ Chances' \in Nat
    <3>1. "exit" \in {"exit", "refresh", "run", "sleep"} /\ ready \subseteq ready'
      BY <2>1
    <3>2. OwedOK' /\ Chances' = Chances - 1
      BY <1>1, <2>1, <3>1, SpentChance
    <3> QED
      BY <1>1, <2>1, <3>2, AwakeChance
  <2>3. Idle \/ Dead
    <3>1. w \in Threads
      BY <2>1 DEF Threads
    <3> QED
      BY <2>1, <3>1 DEF StopsOK, Dead
  <2> QED
    BY <2>1, <2>2, <2>3 DEF HasReady
<1>6. ASSUME NEW b \in Batches, Link(b)
      PROVE  Kept
  BY <1>1, <1>6, LinkOwesNothing, ChancesType
<1>7. CASE Join
  <2>1. /\ UNCHANGED <<incoming, ready, token, permits, posts>>
        /\ \A w \in Workers : pc[w] \in {"exit", "none"} /\ pc'[w] \in {"sleep", "none"}
    BY <1>7 DEF Join, Threads, ingressVars
  <2>2. InPhase("awake")' = InPhase("awake")
    BY <2>1 DEF InPhase
  <2>3. OwedOK' /\ Chances' = Chances
    BY <2>1, <2>2 DEF OwedOK, Chances
  <2>4. HasReady' = HasReady
    BY <2>1 DEF HasReady
  <2> QED
    BY <1>1, <1>2, <2>3, <2>4, ChancesType
<1>8. CASE UNCHANGED vars
  BY <1>3, <1>8 DEF vars, ingressVars, workerVars
<1>9. CASE \/ DrainCompleted \/ CheckIdle \/ StopThreads \/ PostStop
           \/ \E name \in OwnerOps \ {"none"} : Call(name)
  BY <1>3, <1>9 DEF DrainCompleted, CheckIdle, StopThreads, PostStop, Call, ingressVars, workerVars
<1> QED
  BY <1>2, <1>4, <1>5, <1>6, <1>7, <1>8, <1>9 DEF Next, WorkerStep, OwnerStep

\* Every step of a pool that is not dropped keeps a chance for all that waits.
LEMMA ChancesStep ==
    ASSUME AInv, OwedOK, StopsOK, [Next]_vars
    PROVE  OwedOK' /\ (ChancesOK /\ ~Dead => ChancesOK')
<1>1. TypeOK
  BY DEF AInv, IInv
<1>2. ASSUME NEW b \in Batches, Publish(b)
      PROVE  OwedOK' /\ (ChancesOK => ChancesOK')
  BY <1>2, PublishChances
<1>3. ASSUME NEW w \in Workers,
             \/ StartRefresh(w) \/ FinishRefresh(w) \/ PickPrioritized(w) \/ PickPostponed(w)
             \/ FindNothing(w) \/ Complete(w) \/ Postpone(w)
      PROVE  OwedOK' /\ (ChancesOK => ChancesOK')
  BY <1>3, StartRefreshChances, FinishRefreshChances, PickChances, FindNothingChances, EndRunChances
<1>4. CASE /\ ~ \E b \in Batches : Publish(b)
           /\ ~ \E w \in Workers : \/ StartRefresh(w) \/ FinishRefresh(w)
                                   \/ PickPrioritized(w) \/ PickPostponed(w) \/ FindNothing(w)
                                   \/ Complete(w) \/ Postpone(w)
  <2>1. /\ OwedOK' /\ Chances' \in Nat /\ HasReady' = HasReady
        /\ UNCHANGED <<tasks, spinning_tasks, serial_running>>
        /\ Chances' >= Chances \/ Idle \/ Dead
    BY <1>4, OtherChances
  <2>2. CASE Chances' >= Chances
    BY <1>1, <2>1, <2>2, MoreChances
  <2>3. CASE Idle
    <3>1. tasks' = {} /\ FreeWork' = {} /\ ~HasReady'
      BY <2>1, <2>3 DEF Idle, FreeWork, HasReady, ToSet
    <3>2. Cardinality(FreeWork') = 0 /\ Due' = 0
      BY <3>1, FS_EmptySet DEF Due
    <3>3. tasks' \cap Serial = {}
      BY <3>1
    <3>4. Chances' >= Due' /\ Chances' >= Cardinality(FreeWork') + Due'
      BY <2>1, <3>2
    <3> QED
      BY <2>1, <3>3, <3>4 DEF ChancesOK
  <2> QED
    BY <2>1, <2>2, <2>3
<1> QED
  BY <1>2, <1>3, <1>4

\* The chances are counted right in every reachable state.
THEOREM WakeupsCounted == Spec => []WakeInv
<1>1. Init /\ AInv => WakeInv
  <2> SUFFICES ASSUME Init, AInv PROVE WakeInv
    OBVIOUS
  <2>1. /\ incoming = <<>> /\ tasks = {} /\ spinning_tasks = <<>> /\ ~stopping
        /\ owner = "free" /\ op = "none"
        /\ \A b \in Batches : token[b] = 0
        /\ \A w \in Workers : posts[w] = 0
    BY DEF Init
  <2>2. Owed(Batches, token) = {} /\ Owed(Workers, posts) = {}
    BY <2>1 DEF Owed
  <2>3. OwedOK
    BY <2>1, <2>2, FS_EmptySet DEF OwedOK
  <2>4. ChancesOK
    BY <2>1, <2>3, NothingWaits DEF AInv, IInv
  <2>5. StopsOK
    BY <2>1 DEF StopsOK
  <2>6. ToSet(spinning_tasks) \subseteq Postponing
    BY <2>1 DEF ToSet
  <2> QED
    BY <2>3, <2>4, <2>5, <2>6 DEF WakeInv
<1>2. WakeInv /\ [Next]_vars /\ AInv' => WakeInv'
  <2> SUFFICES ASSUME WakeInv, [Next]_vars, AInv' PROVE WakeInv'
    OBVIOUS
  <2>1. AInv /\ OwedOK /\ StopsOK
    BY DEF WakeInv
  <2>2. StopsOK'
    <3>1. CASE UNCHANGED vars
      <4>1. UNCHANGED <<incoming, tasks, spinning_tasks, held, pc, stopping, owner, op>>
        BY <3>1 DEF vars, ingressVars, queueVars, workerVars, ownerVars
      <4>2. Threads' = Threads /\ Idle' = Idle
        BY <4>1 DEF Threads, Idle, Hands
      <4> QED
        BY <2>1, <4>1, <4>2 DEF StopsOK, Dead
    <3>2. CASE Next
      BY <2>1, <3>2, WorkerStops, ProducerStops, OwnerStops DEF Next
    <3> QED
      BY <3>1, <3>2
  <2>3. ToSet(spinning_tasks') \subseteq Postponing
    BY <2>1, PostponedStep DEF WakeInv
  <2>4. OwedOK' /\ (Dead' \/ ChancesOK')
    BY <2>1, ChancesStep, DropsForGood DEF WakeInv
  <2> QED
    BY <2>2, <2>3, <2>4 DEF WakeInv
<1> QED
  BY <1>1, <1>2, Accounts, PTL DEF Spec

\* Of what waits, only a postponed task of the serial lane can be stranded.
OnlyPostponedSerialStrands ==
    /\ ~stopping
    /\ HasReady \/ tasks # {} \/ ToSet(spinning_tasks) \ Serial # {}
    => WakeOwed

\* Where no chance is left nothing waits but postponed serial tasks.
LEMMA ChancesWake ==
    ASSUME WakeInv
    PROVE  OnlyPostponedSerialStrands
<1> SUFFICES ASSUME ~stopping, ~WakeOwed
             PROVE  ~HasReady /\ tasks = {} /\ ToSet(spinning_tasks) \ Serial = {}
  BY DEF OnlyPostponedSerialStrands
<1>1. TypeOK /\ SerialLane /\ OwedOK /\ ChancesOK
  BY DEF WakeInv, AInv, IInv, Dead
<1>2. Chances = 0 /\ ~serial_running
  BY <1>1, SpentAll DEF WakeOwed, SerialLane
<1>3. ~HasReady /\ Cardinality(FreeWork) = 0
  BY <1>1, <1>2, WorkType DEF ChancesOK
<1>4. FreeWork = {}
  BY <1>1, <1>3, WorkType, Fewer, FS_EmptySet
<1>5. tasks \cap Serial = {}
  BY <1>1, <1>2, <1>3 DEF ChancesOK
<1> QED
  BY <1>3, <1>4, <1>5 DEF FreeWork

\* No interleaving strands a ready batch, a queued task or a postponed task that
\* needs no lane: a permit is there or will be posted.
THEOREM NothingElseStrands == Spec => []OnlyPostponedSerialStrands
BY WakeupsCounted, ChancesWake, PTL

\* Where no serial task postpones itself, no wake-up is lost.
THEOREM WakeupsKeptUnpostponed ==
    ASSUME Serial \cap Postponing = {}
    PROVE  Spec => []NoLostWakeup
<1>1. WakeInv => NoLostWakeup
  <2> SUFFICES ASSUME WakeInv, Waiting, ~stopping PROVE WakeOwed
    BY DEF NoLostWakeup
  <2>1. OnlyPostponedSerialStrands /\ ToSet(spinning_tasks) \subseteq Postponing
    BY ChancesWake DEF WakeInv
  <2>2. PickableTasks # {} => tasks # {}
    BY DEF PickableTasks
  <2>3. PickablePostponed # {} => ToSet(spinning_tasks) \ Serial # {}
    BY <2>1 DEF PickablePostponed, ToSet
  <2> QED
    BY <2>1, <2>2, <2>3 DEF Waiting, OnlyPostponedSerialStrands
<1> QED
  BY <1>1, WakeupsCounted, PTL
-----------------------------------------------------------------------------
(* A pool whose refreshes discard nothing *)

\* what is queued, postponed or being refreshed
Waits == tasks \cup ToSet(spinning_tasks) \cup Refreshed

\* The chances W needs: one per task outside the lane, and one for the lane
\* when it is free.
Load(W, laneTaken) ==
    Cardinality(W \ Serial) + (IF ~laneTaken /\ W \cap Serial # {} THEN 1 ELSE 0)

\* A refresh under way will bring a chance per task.
LoadOK == Chances + refreshing_count >= Load(Waits, serial_running) + Due

\* What the load is at most, and how it grows with the tasks and with the lane.
LEMMA LoadBounds ==
    ASSUME NEW W \in SUBSET Tasks, NEW N \in SUBSET Tasks, NEW r \in BOOLEAN
    PROVE  /\ Load(W, r) \in Nat /\ Cardinality(W) \in Nat /\ Load(W, r) <= Cardinality(W)
           /\ Load(W \cup N, r) <= Load(W, r) + Cardinality(N)
           /\ Load(W, FALSE) <= Load(W, TRUE) + 1 /\ Load(W, TRUE) <= Load(W, r)
           /\ N \subseteq Serial => Load(W \cup N, TRUE) = Load(W, TRUE)
<1>1. /\ W \ Serial \in SUBSET W /\ N \ Serial \in SUBSET N
      /\ W \ Serial \in SUBSET Tasks /\ N \ Serial \in SUBSET Tasks
      /\ (W \cup N) \ Serial = (W \ Serial) \cup (N \ Serial)
  OBVIOUS
<1>2. PICK a \in Nat, b \in Nat, c \in Nat, d \in Nat, e \in Nat :
        /\ a = Cardinality(W) /\ b = Cardinality(W \ Serial)
        /\ c = Cardinality(N) /\ d = Cardinality(N \ Serial)
        /\ e = Cardinality((W \cup N) \ Serial)
        /\ b <= a /\ d <= c /\ e <= b + d
  <2>1. /\ Cardinality(W) \in Nat /\ Cardinality(W \ Serial) \in Nat
        /\ Cardinality(W \ Serial) <= Cardinality(W)
    BY <1>1, Fewer
  <2>2. /\ Cardinality(N) \in Nat /\ Cardinality(N \ Serial) \in Nat
        /\ Cardinality(N \ Serial) <= Cardinality(N)
    BY <1>1, Fewer
  <2>3. /\ Cardinality((W \ Serial) \cup (N \ Serial)) \in Nat
        /\ Cardinality((W \ Serial) \cup (N \ Serial))
             <= Cardinality(W \ Serial) + Cardinality(N \ Serial)
    BY <1>1, Joined
  <2> QED
    BY <1>1, <2>1, <2>2, <2>3
<1>3. /\ W \cap Serial # {} => b + 1 <= a
      /\ N \cap Serial # {} => d + 1 <= c
  <2>1. /\ \A t \in W \cap Serial : t \in W \ (W \ Serial)
        /\ \A t \in N \cap Serial : t \in N \ (N \ Serial)
    OBVIOUS
  <2> QED
    BY <1>1, <1>2, <2>1, Fewer
<1>4. (W \cup N) \cap Serial # {} => W \cap Serial # {} \/ N \cap Serial # {}
  OBVIOUS
<1>5. /\ Load(W, r) = b + (IF ~r /\ W \cap Serial # {} THEN 1 ELSE 0)
      /\ Load(W, TRUE) = b /\ Load(W, FALSE) = b + (IF W \cap Serial # {} THEN 1 ELSE 0)
      /\ Load(W \cup N, r) = e + (IF ~r /\ (W \cup N) \cap Serial # {} THEN 1 ELSE 0)
      /\ Load(W \cup N, TRUE) = e
  BY <1>2 DEF Load
<1>6. N \subseteq Serial => e = b
  <2>1. N \subseteq Serial => (W \cup N) \ Serial = W \ Serial
    OBVIOUS
  <2> QED
    BY <1>2, <2>1
<1>7. Load(W, r) \in Nat /\ Load(W, r) <= a
  BY <1>2, <1>3, <1>5
<1>8. Load(W \cup N, r) <= Load(W, r) + c
  <2>1. CASE ~r /\ (W \cup N) \cap Serial # {}
    BY <1>2, <1>3, <1>4, <1>5, <2>1
  <2>2. CASE ~(~r /\ (W \cup N) \cap Serial # {})
    BY <1>2, <1>5, <2>2
  <2> QED
    BY <2>1, <2>2
<1>9. Load(W, FALSE) <= Load(W, TRUE) + 1 /\ Load(W, TRUE) <= Load(W, r)
  <2>1. \A P \in BOOLEAN : (IF P THEN 1 ELSE 0) \in {0, 1}
    OBVIOUS
  <2>2. PICK i \in {0, 1}, j \in {0, 1} : Load(W, r) = b + i /\ Load(W, FALSE) = b + j
    BY <1>5, <2>1
  <2>3. Load(W, TRUE) = b
    BY <1>5
  <2>4. b + j <= b + 1 /\ b <= b + i
    OBVIOUS
  <2> QED
    BY <2>2, <2>3, <2>4, Zenon
<1> QED
  BY <1>2, <1>5, <1>6, <1>7, <1>8, <1>9

\* A task that is picked takes its chance with it, and the lane with it if it
\* is serial.
LEMMA PickedLoad ==
    ASSUME NEW W \in SUBSET Tasks, NEW t \in W, NEW r \in BOOLEAN, r => t \notin Serial
    PROVE  Load(W \ {t}, r \/ t \in Serial) + 1 <= Load(W, r)
<1>1. PICK V : V = W \ {t}
  OBVIOUS
<1>2. /\ V \ Serial \in SUBSET (W \ Serial) /\ W \ Serial \in SUBSET Tasks
      /\ t \notin Serial => t \in (W \ Serial) \ (V \ Serial)
  BY <1>1
<1>3. PICK a \in Nat, b \in Nat :
        /\ a = Cardinality(W \ Serial) /\ b = Cardinality(V \ Serial) /\ b <= a
        /\ t \notin Serial => b + 1 <= a
  BY <1>2, Fewer
<1>4. CASE t \in Serial
  <2>1. ~r /\ W \cap Serial # {}
    BY <1>4
  <2>2. Load(V, r \/ t \in Serial) = b /\ Load(W, r) = a + 1
    BY <1>3, <1>4, <2>1 DEF Load
  <2> QED
    BY <1>1, <1>3, <2>2
<1>5. CASE t \notin Serial
  <2>1. V \cap Serial = W \cap Serial /\ (r \/ t \in Serial) = r
    BY <1>1, <1>5
  <2>2. /\ Load(V, r \/ t \in Serial) = b + (IF ~r /\ W \cap Serial # {} THEN 1 ELSE 0)
        /\ Load(W, r) = a + (IF ~r /\ W \cap Serial # {} THEN 1 ELSE 0)
    BY <1>3, <2>1 DEF Load
  <2> QED
    BY <1>1, <1>3, <1>5, <2>2
<1> QED
  BY <1>4, <1>5

\* The work, and what is known of its count.
LEMMA WaitsType ==
    ASSUME AInv, OwedOK
    PROVE  /\ TypeOK /\ Waits \in SUBSET Tasks /\ Refreshed \in SUBSET Tasks
           /\ Refreshed \subseteq Hands /\ serial_running \in BOOLEAN
           /\ refreshing_count \in Nat /\ refreshing_count = Cardinality(Refreshed)
           /\ Chances \in Nat /\ Due \in {0, 1} /\ (HasReady <=> Due = 1)
           /\ Load(Waits, serial_running) \in Nat
<1>1. TypeOK /\ refreshing_count = Cardinality(Refreshed)
  BY DEF AInv, IInv, RefreshingExact, Refreshed
<1>2. Refreshed \subseteq Hands /\ Refreshed \in SUBSET Tasks
  BY <1>1 DEF Refreshed, Hands, InPhase, TypeOK
<1>3. Waits \in SUBSET Tasks
  BY <1>1, <1>2, WorkType DEF Waits, TypeOK
<1>4. serial_running \in BOOLEAN
  BY <1>1 DEF TypeOK
<1>5. Load(Waits, serial_running) \in Nat
  BY <1>3, <1>4, LoadBounds
<1>6. refreshing_count \in Nat
  BY <1>1, <1>2, Fewer
<1> QED
  BY <1>1, <1>2, <1>3, <1>4, <1>5, <1>6, ChancesType, WorkType

\* A refresh takes as many chances in hand as tasks, and spends one.
LEMMA StartRefreshLoad ==
    ASSUME AInv, OwedOK, LoadOK, NEW w \in Workers, StartRefresh(w)
    PROVE  LoadOK'
<1>1. TypeOK /\ HandsApart /\ PlacesOK
  BY DEF AInv, IInv
<1>2. Chances' = Chances - 1 /\ Due' = 0
  BY LookSpends
<1>3. PICK n \in 0..Len(incoming) :
        /\ IsReadyPrefix(n)
        /\ held' = [held EXCEPT ![w] = tasks \cup ToSet(SubSeq(incoming, 1, n))]
        /\ refreshing_count' = refreshing_count + Cardinality(tasks \cup ToSet(SubSeq(incoming, 1, n)))
  BY DEF StartRefresh
<1>4. PICK staged \in SUBSET Tasks :
        /\ staged = ToSet(SubSeq(incoming, 1, n))
        /\ ~HasReady => staged = {}
  <2>1. incoming \in Seq(Tasks) /\ Len(incoming) \in Nat
    BY <1>1, LenProperties DEF TypeOK
  <2>2. SubSeq(incoming, 1, n) \in Seq(Tasks)
    BY <2>1, SplitType
  <2>3. ToSet(SubSeq(incoming, 1, n)) \in SUBSET Tasks
    BY <2>2, ToSetType
  <2>4. ASSUME ~HasReady PROVE ToSet(SubSeq(incoming, 1, n)) = {}
    <3>1. n = 0
      <4>1. SUFFICES ASSUME n > 0 PROVE FALSE
        BY <2>1
      <4>2. 1 \in 1..n /\ incoming # <<>> /\ Head(incoming) = incoming[1]
        BY <2>1, <4>1, EmptySeq, LenProperties, HeadTailProperties
      <4> QED
        BY <1>3, <2>4, <4>2 DEF IsReadyPrefix, HasReady
    <3>2. SubSeq(incoming, 1, n) = <<>>
      BY <2>1, <3>1, SubSeqEmpty
    <3> QED
      BY <3>2 DEF ToSet
  <2> QED
    BY <2>3, <2>4
<1>5. /\ pc[w] = "awake" /\ pc' = [pc EXCEPT ![w] = "refresh"] /\ tasks' = {}
      /\ tasks # {} \/ HasReady
      /\ UNCHANGED <<spinning_tasks, serial_running>>
  BY DEF StartRefresh, MustRefresh, MayRefresh
<1>6. Waits' = Waits \cup staged
  <2>1. held'[w] = tasks \cup staged /\ \A v \in Workers \ {w} : held'[v] = held[v]
    BY <1>1, <1>3, <1>4 DEF TypeOK
  <2>2. InPhase("refresh")' = InPhase("refresh") \cup {w} /\ w \notin InPhase("refresh")
    BY <1>1, <1>5 DEF InPhase, TypeOK
  <2>3. Refreshed' = Refreshed \cup tasks \cup staged
    BY <2>1, <2>2 DEF Refreshed, InPhase
  <2> QED
    BY <1>5, <2>3 DEF Waits
<1>7. PICK q \in Nat, m \in Nat :
        /\ q = Cardinality(tasks \cup staged) /\ m = Cardinality(staged) /\ m <= q
        /\ ~HasReady => q >= 1
  <2>1. tasks \cup staged \in SUBSET Tasks /\ staged \in SUBSET (tasks \cup staged)
    BY <1>1 DEF TypeOK
  <2>2. ASSUME ~HasReady PROVE Cardinality(tasks \cup staged) >= 1
    <3>1. PICK t \in tasks : TRUE
      BY <1>5, <2>2
    <3>2. t \in (tasks \cup staged) \ {} /\ {} \in SUBSET (tasks \cup staged)
      BY <3>1
    <3>3. Cardinality({}) + 1 <= Cardinality(tasks \cup staged)
      BY <2>1, <3>2, Fewer
    <3> QED
      BY <3>3, FS_EmptySet
  <2> QED
    BY <2>1, <2>2, Fewer
<1>8. refreshing_count' = refreshing_count + q /\ serial_running' = serial_running
  BY <1>3, <1>4, <1>5, <1>7
<1>9. /\ Load(Waits', serial_running) \in Nat
      /\ Load(Waits', serial_running) <= Load(Waits, serial_running) + m
  <2>1. Waits' \in SUBSET Tasks
    BY <1>6, WaitsType
  <2> QED
    BY <1>6, <1>7, <2>1, WaitsType, LoadBounds
<1>10. CASE HasReady
  <2>1. Load(Waits', serial_running') = Load(Waits', serial_running) /\ Due = 1
    BY <1>8, <1>10, WaitsType
  <2>2. PICK c \in Nat, f \in Nat, l \in Nat, k \in Nat :
          /\ c = Chances /\ f = refreshing_count
          /\ l = Load(Waits, serial_running) /\ k = Load(Waits', serial_running)
    BY <1>9, WaitsType
  <2>3. c + f >= l + 1 /\ k <= l + m /\ m <= q
    BY <1>7, <1>9, <2>1, <2>2 DEF LoadOK
  <2>4. (c - 1) + (f + q) >= k
    BY <2>3
  <2> QED
    BY <1>2, <1>8, <2>1, <2>2, <2>4 DEF LoadOK
<1>11. CASE ~HasReady
  <2>1. Waits' = Waits
    BY <1>4, <1>6, <1>11
  <2>2. Load(Waits', serial_running') = Load(Waits, serial_running)
    BY <1>8, <2>1
  <2>3. q >= 1 /\ Due = 0
    BY <1>7, <1>11, WaitsType
  <2> QED
    BY <1>2, <1>8, <2>2, <2>3, WaitsType DEF LoadOK
<1> QED
  BY <1>10, <1>11

\* A refresh that discards nothing gives all of them back.
LEMMA FinishRefreshLoad ==
    ASSUME AInv, OwedOK, LoadOK, Cancellable \cup Panicking = {}, NEW w \in Workers, FinishRefresh(w)
    PROVE  LoadOK'
<1>1. TypeOK /\ HandsApart
  BY DEF AInv, IInv
<1>2. tasks' = tasks \cup held[w] /\ AfterUnlock(w, Cardinality(held[w]))
  <2>1. PICK gone \in SUBSET (held[w] \cap (Cancellable \cup Panicking)) :
          tasks' = tasks \cup (held[w] \ gone) /\ AfterUnlock(w, Cardinality(held[w] \ gone))
    BY DEF FinishRefresh
  <2>2. held[w] \ gone = held[w]
    BY <2>1
  <2> QED
    BY <2>1, <2>2
<1>3. /\ pc[w] = "refresh" /\ held' = [held EXCEPT ![w] = {}]
      /\ refreshing_count' = refreshing_count - Cardinality(held[w])
      /\ UNCHANGED <<incoming, ready, token, permits, spinning_tasks, serial_running>>
  BY DEF FinishRefresh, ingressVars
<1>4. PICK n \in Nat : n = Cardinality(held[w])
  BY <1>1, Fewer DEF TypeOK
<1>5. Chances' = Chances + n
  BY <1>1, <1>2, <1>3, <1>4, OwedChances
<1>6. Due' = Due
  BY <1>3 DEF Due, HasReady
<1>7. Waits' = Waits
  <2>1. /\ pc'[w] # "refresh" /\ \A v \in Workers \ {w} : pc'[v] = pc[v]
    BY <1>1, <1>2 DEF AfterUnlock, TypeOK
  <2>2. /\ InPhase("refresh")' = InPhase("refresh") \ {w} /\ w \in InPhase("refresh")
        /\ \A v \in Workers \ {w} : held'[v] = held[v] /\ held[v] \cap held[w] = {}
    BY <1>1, <1>3, <2>1 DEF InPhase, HandsApart, TypeOK
  <2>3. Refreshed' \cup held[w] = Refreshed
    BY <2>2 DEF Refreshed, InPhase
  <2> QED
    BY <1>2, <1>3, <2>3 DEF Waits
<1> QED
  BY <1>3, <1>4, <1>5, <1>6, <1>7, WaitsType DEF LoadOK

\* A pick takes one task and one chance.
LEMMA PickLoad ==
    ASSUME AInv, OwedOK, LoadOK, NEW w \in Workers, PickPrioritized(w) \/ PickPostponed(w)
    PROVE  LoadOK'
<1>1. TypeOK /\ PlacesOK
  BY DEF AInv, IInv
<1>2. PICK t \in Tasks :
        /\ StartTask(w, t)
        /\ serial_running => t \notin Serial
        /\ t \in tasks \cup ToSet(spinning_tasks)
        /\ tasks' \cup ToSet(spinning_tasks') = (tasks \cup ToSet(spinning_tasks)) \ {t}
  BY PickPlaces
<1>3. /\ pc[w] = "awake" /\ pc' = [pc EXCEPT ![w] = "run"] /\ held' = [held EXCEPT ![w] = {t}]
      /\ serial_running' = (serial_running \/ t \in Serial) /\ refreshing_count' = refreshing_count
  BY <1>2 DEF StartTask, PickPrioritized, PickPostponed
<1>4. Chances' = Chances - 1 /\ Due' = 0
  BY LookSpends
<1>5. Waits' = Waits \ {t} /\ t \in Waits
  <2>1. Refreshed' = Refreshed
    BY <1>1, <1>3 DEF Refreshed, InPhase, TypeOK
  <2>2. t \notin Refreshed
    BY <1>1, <1>2, WaitsType DEF PlacesOK, Apart
  <2> QED
    BY <1>2, <2>1, <2>2 DEF Waits
<1>6. /\ Load(Waits', serial_running') \in Nat
      /\ Load(Waits', serial_running') + 1 <= Load(Waits, serial_running)
  <2>1. Waits' \in SUBSET Tasks /\ serial_running' \in BOOLEAN
    BY <1>3, <1>5, WaitsType
  <2> QED
    BY <1>2, <1>3, <1>5, <2>1, WaitsType, LoadBounds, PickedLoad
<1> QED
  BY <1>3, <1>4, <1>6, WaitsType DEF LoadOK

\* A worker that finds nothing to pick leaves tasks being refreshed, or the lane
\* taken.
LEMMA FindNothingLoad ==
    ASSUME AInv, OwedOK, LoadOK, NEW w \in Workers, FindNothing(w)
    PROVE  LoadOK'
<1>1. TypeOK
  BY DEF AInv, IInv
<1>2. /\ PickableTasks = {} /\ PickablePostponed = {}
      /\ pc[w] = "awake" /\ pc' = [pc EXCEPT ![w] = "sleep"]
      /\ UNCHANGED <<tasks, spinning_tasks, serial_running, held, refreshing_count>>
  BY DEF FindNothing, queueVars
<1>3. Chances' = Chances - 1 /\ Chances >= 1 /\ Due' = 0
  BY LookSpends
<1>4. Waits' = Waits
  BY <1>1, <1>2 DEF Waits, Refreshed, InPhase, TypeOK
<1>5. PICK N \in SUBSET Tasks :
        /\ N \subseteq Serial /\ (~serial_running => N = {})
        /\ Waits = Refreshed \cup N
  <2>1. tasks \subseteq Serial /\ (~serial_running => tasks = {})
    BY <1>1, <1>2 DEF PickableTasks, TypeOK
  <2>2. ToSet(spinning_tasks) \subseteq Serial /\ (~serial_running => ToSet(spinning_tasks) = {})
    BY <1>2 DEF PickablePostponed, ToSet
  <2>3. tasks \cup ToSet(spinning_tasks) \in SUBSET Tasks
    BY <1>1, WorkType DEF TypeOK
  <2> QED
    BY <2>1, <2>2, <2>3 DEF Waits
<1>6. Load(Waits, serial_running) <= refreshing_count
  <2>1. CASE serial_running
    <3>1. serial_running = TRUE
      BY <2>1, WaitsType
    <3>2. Load(Refreshed \cup N, TRUE) = Load(Refreshed, TRUE)
      BY <1>5, WaitsType, LoadBounds
    <3>3. Load(Refreshed, TRUE) <= Cardinality(Refreshed)
      BY WaitsType, LoadBounds
    <3> QED
      BY <1>5, <3>1, <3>2, <3>3, WaitsType
  <2>2. CASE ~serial_running
    <3>1. Waits = Refreshed
      BY <1>5, <2>2
    <3>2. Load(Refreshed, serial_running) <= Cardinality(Refreshed)
      BY WaitsType, LoadBounds
    <3> QED
      BY <3>1, <3>2, WaitsType
  <2> QED
    BY <2>1, <2>2
<1> QED
  BY <1>2, <1>3, <1>4, <1>6, WaitsType DEF LoadOK

\* The end of a run owes a chance for the task that comes back, or for the lane.
LEMMA EndRunLoad ==
    ASSUME AInv, OwedOK, LoadOK, ChancesOK, NEW w \in Workers, Complete(w) \/ Postpone(w)
    PROVE  LoadOK'
<1>1. TypeOK
  BY DEF AInv, IInv
<1>2. PICK t \in Tasks, p \in BOOLEAN, n \in {0, 1} :
        /\ EndRun(w, t, p) /\ (t \in Serial => serial_running)
        /\ n = PermitsAfterRun(t, p) /\ Chances' = Chances + n
        /\ ToSet(spinning_tasks') = ToSet(spinning_tasks) \cup (IF p THEN {t} ELSE {})
  BY EndRunOwes
<1>3. /\ pc[w] = "run" /\ held' = [held EXCEPT ![w] = {}] /\ tasks' = tasks
      /\ serial_running' = (serial_running /\ t \notin Serial)
      /\ refreshing_count' = refreshing_count
  BY <1>2 DEF EndRun, Complete, Postpone
<1>4. Due' = Due
  BY EndRunOwes DEF Due
<1>5. PICK N \in SUBSET Tasks : N = IF p THEN {t} ELSE {}
  OBVIOUS
<1>6. Waits' = Waits \cup N
  <2>1. pc'[w] \in {"sleep", "post"} /\ \A v \in Workers \ {w} : pc'[v] = pc[v] /\ held'[v] = held[v]
    BY <1>1, <1>2, <1>3 DEF EndRun, AfterUnlock, TypeOK
  <2>2. Refreshed' = Refreshed
    BY <1>3, <2>1 DEF Refreshed, InPhase
  <2> QED
    BY <1>2, <1>3, <1>5, <2>2 DEF Waits
<1>7. PICK c \in Nat, f \in Nat, l \in Nat, d \in Nat :
        /\ c = Chances /\ f = refreshing_count /\ d = Due /\ l = Load(Waits, serial_running)
        /\ c + f >= l + d /\ c >= d
  BY WaitsType DEF LoadOK, ChancesOK
<1>8. c + f >= l + d /\ c >= d
  BY <1>7
<1>9. CASE t \notin Serial
  <2>1. serial_running' = serial_running
    BY <1>3, <1>9, WaitsType
  <2>2. Cardinality(N) = IF p THEN 1 ELSE 0
    BY <1>5, FS_Singleton, FS_EmptySet
  <2>3. n = IF p THEN 1 ELSE 0
    BY <1>2, <1>9 DEF PermitsAfterRun
  <2>4. PICK k \in Nat : k = Load(Waits', serial_running) /\ k <= l + n
    <3>1. Load(Waits \cup N, serial_running) <= Load(Waits, serial_running) + Cardinality(N)
      BY WaitsType, LoadBounds
    <3>2. Waits \cup N \in SUBSET Tasks
      BY WaitsType
    <3>3. Load(Waits \cup N, serial_running) \in Nat
      BY <3>2, WaitsType, LoadBounds
    <3>4. Cardinality(N) = n
      BY <2>2, <2>3
    <3> QED
      BY <1>6, <1>7, <3>1, <3>3, <3>4
  <2>5. (c + n) + f >= k + d
    BY <1>8, <2>4
  <2> QED
    BY <1>2, <1>3, <1>4, <1>7, <2>1, <2>4, <2>5 DEF LoadOK
<1>10. CASE t \in Serial
  <2>1. serial_running = TRUE /\ serial_running' = FALSE
    BY <1>2, <1>3, <1>10, WaitsType
  <2>2. N \subseteq Serial /\ Waits \cup N \in SUBSET Tasks
    BY <1>5, <1>10, WaitsType
  <2>3. PICK k \in Nat : k = Load(Waits', FALSE) /\ k <= l + 1
    <3>1. Load(Waits \cup N, TRUE) = Load(Waits, TRUE)
      BY <2>2, WaitsType, LoadBounds
    <3>2. Load(Waits \cup N, FALSE) <= Load(Waits \cup N, TRUE) + 1
      BY <2>2, LoadBounds
    <3>3. Load(Waits \cup N, FALSE) \in Nat
      BY <2>2, LoadBounds
    <3> QED
      BY <1>6, <1>7, <2>1, <3>1, <3>2, <3>3
  <2>4. CASE n = 1
    <3>1. (c + 1) + f >= k + d
      <4>1. k <= l + 1
        BY <2>3, Zenon
      <4> QED
        BY <1>8, <4>1
    <3>2. Chances' + refreshing_count' = (c + 1) + f /\ Due' = d
      BY <1>2, <1>3, <1>4, <1>7, <2>4
    <3>3. Load(Waits', serial_running') = k
      BY <2>1, <2>3
    <3> QED
      BY <3>1, <3>2, <3>3 DEF LoadOK
  <2>5. CASE n = 0
    <3>1. ~p /\ ~HasQueued
      BY <1>2, <1>10, <2>5 DEF PermitsAfterRun
    <3>2. Waits' = Refreshed
      BY <1>5, <1>6, <3>1 DEF HasQueued, Waits, ToSet
    <3>3. k <= f
      BY <1>7, <2>3, <3>2, WaitsType, LoadBounds
    <3>4. c + f >= k + d
      BY <1>8, <3>3
    <3>5. Chances' + refreshing_count' = c + f /\ Due' = d
      BY <1>2, <1>3, <1>4, <1>7, <2>5
    <3>6. Load(Waits', serial_running') = k
      BY <2>1, <2>3
    <3> QED
      BY <3>4, <3>5, <3>6 DEF LoadOK
  <2> QED
    BY <2>4, <2>5
<1> QED
  BY <1>9, <1>10

\* Every step of a pool that is not dropped keeps its chances, where a refresh
\* discards nothing.
LEMMA LoadStep ==
    ASSUME AInv, OwedOK, StopsOK, LoadOK, ChancesOK, ~Dead, Cancellable \cup Panicking = {},
           [Next]_vars
    PROVE  LoadOK'
<1>1. ASSUME NEW w \in Workers,
             \/ StartRefresh(w) \/ FinishRefresh(w) \/ PickPrioritized(w) \/ PickPostponed(w)
             \/ FindNothing(w) \/ Complete(w) \/ Postpone(w)
      PROVE  LoadOK'
  BY <1>1, StartRefreshLoad, FinishRefreshLoad, PickLoad, FindNothingLoad, EndRunLoad
<1>2. ASSUME NEW b \in Batches, Publish(b)
      PROVE  LoadOK'
  <2>1. UNCHANGED <<tasks, spinning_tasks, serial_running, refreshing_count, pc, held>>
    BY <1>2 DEF Publish, queueVars, workerVars
  <2>2. Waits' = Waits /\ Due' \in {0, 1}
    BY <2>1 DEF Waits, Refreshed, InPhase, Due
  <2>3. Chances' \in Nat /\ Chances' >= Chances + 1
    BY <1>2, PublishOwes
  <2> QED
    BY <2>1, <2>2, <2>3, WaitsType DEF LoadOK
<1>3. CASE /\ ~ \E b \in Batches : Publish(b)
           /\ ~ \E w \in Workers : \/ StartRefresh(w) \/ FinishRefresh(w)
                                   \/ PickPrioritized(w) \/ PickPostponed(w) \/ FindNothing(w)
                                   \/ Complete(w) \/ Postpone(w)
  <2>1. /\ Chances' \in Nat /\ HasReady' = HasReady
        /\ UNCHANGED <<tasks, spinning_tasks, serial_running, refreshing_count>>
        /\ Refreshed' = Refreshed
        /\ Chances' >= Chances \/ Idle
    BY <1>3, OtherChances
  <2>2. Waits' = Waits /\ Due' = Due
    BY <2>1 DEF Waits, Due
  <2>3. CASE Chances' >= Chances
    BY <2>1, <2>2, <2>3, WaitsType DEF LoadOK
  <2>4. CASE Idle
    <3>1. Waits = {} /\ ~HasReady
      BY <2>4, WaitsType DEF Idle, Waits, HasReady, ToSet
    <3>2. Load(Waits, serial_running) = 0 /\ Due = 0
      <4>1. Waits \ Serial = {} /\ Waits \cap Serial = {}
        BY <3>1
      <4> QED
        BY <3>1, <4>1, FS_EmptySet DEF Load, Due
    <3> QED
      BY <2>1, <2>2, <3>2, WaitsType DEF LoadOK
  <2> QED
    BY <2>1, <2>3, <2>4
<1> QED
  BY <1>1, <1>2, <1>3

\* Where no task is cancelled or panics while the queue is refreshed, no wake-up
\* is lost: a refresh gives back at least the chance it was spent on.
THEOREM WakeupsKeptUndiscarded ==
    ASSUME Cancellable \cup Panicking = {}
    PROVE  Spec => []NoLostWakeup
<1>1. Init /\ WakeInv => Dead \/ LoadOK
  <2> SUFFICES ASSUME Init, WakeInv PROVE LoadOK
    OBVIOUS
  <2>1. AInv /\ OwedOK
    BY DEF WakeInv
  <2>2. /\ incoming = <<>> /\ tasks = {} /\ spinning_tasks = <<>> /\ \A w \in Workers : held[w] = {}
    BY DEF Init
  <2>3. Waits = {} /\ ~HasReady
    <3>1. Refreshed = {}
      BY <2>2 DEF Refreshed, InPhase
    <3> QED
      BY <2>2, <3>1 DEF Waits, HasReady, ToSet
  <2>4. Load(Waits, serial_running) = 0 /\ Due = 0
    <3>1. Waits \ Serial = {} /\ Waits \cap Serial = {}
      BY <2>3
    <3> QED
      BY <2>3, <3>1, FS_EmptySet DEF Load, Due
  <2> QED
    BY <2>1, <2>4, WaitsType DEF LoadOK
<1>2. WakeInv /\ (Dead \/ LoadOK) /\ [Next]_vars => (Dead \/ LoadOK)'
  BY LoadStep, DropsForGood DEF WakeInv
<1>3. WakeInv /\ (Dead \/ LoadOK) => NoLostWakeup
  <2> SUFFICES ASSUME WakeInv, Dead \/ LoadOK, ~WakeOwed, ~stopping
               PROVE  ~Waiting
    BY DEF NoLostWakeup
  <2>1. AInv /\ OwedOK /\ TypeOK /\ SerialLane /\ LoadOK
    BY DEF WakeInv, AInv, IInv, Dead
  <2>2. Chances = 0 /\ ~serial_running
    BY <2>1, SpentAll DEF WakeOwed, SerialLane
  <2>3. Refreshed = {}
    BY DEF WakeOwed, Refreshed, InPhase
  <2>4. Load(Waits, serial_running) = 0 /\ ~HasReady
    <3>1. refreshing_count = 0
      BY <2>1, <2>3, WaitsType, FS_EmptySet
    <3> QED
      BY <2>1, <2>2, <3>1, WaitsType DEF LoadOK
  <2>5. Waits = {}
    <3>1. Waits \ Serial \in SUBSET Tasks /\ Cardinality(Waits \ Serial) \in Nat
      BY <2>1, WaitsType, Fewer
    <3>2. Cardinality(Waits \ Serial) = 0 /\ Waits \cap Serial = {}
      BY <2>2, <2>4, <3>1 DEF Load
    <3>3. Waits \ Serial = {}
      BY <3>1, <3>2, Fewer, FS_EmptySet
    <3> QED
      BY <3>2, <3>3
  <2>6. tasks = {} /\ ToSet(spinning_tasks) = {}
    BY <2>5 DEF Waits
  <2> QED
    BY <2>4, <2>6 DEF Waiting, PickableTasks, PickablePostponed, ToSet
<1> QED
  BY <1>1, <1>2, <1>3, WakeupsCounted, PTL DEF Spec

\* A wake-up can be lost only in a pool whose serial tasks postpone themselves
\* and whose refreshes discard tasks; in every other no task that could run is
\* left without a permit.
THEOREM WakeupsKept ==
    ASSUME Serial \cap Postponing = {} \/ Cancellable \cup Panicking = {}
    PROVE  Spec => []NoLostWakeup
BY WakeupsKeptUnpostponed, WakeupsKeptUndiscarded
-----------------------------------------------------------------------------
(* The owner is served *)

\* the workers that have to wake once more before they can exit
Unwoken == {w \in Workers : pc[w] \in {"sleep", "refresh", "run", "post"}}

\* A parked owner waits for something, and stop_threads owes or has posted a
\* permit for every worker that is not up already.
ServedOK ==
    /\ owner = "parked" => HasPendingOrRunning \/ incoming # <<>>
    /\ owner \in {"check", "parked"} => op # "drop"
    /\ owner # "posting" => ownerPosts = 0
    /\ owner = "posting" => stopping
    /\ owner = "join" => stopping \/ Threads = {}
    /\ stopping => Cardinality(Unwoken) <= permits + ownerPosts

\* somebody has a step to take that the owner is waiting for
ServedNext ==
    \/ permits > 0
    \/ \E w \in Workers : pc[w] \in {"awake", "refresh", "run", "post"}
    \/ \E b \in linked : b \notin ready \/ token[b] > 0

\* An owner parked on the condition variable is served: a worker is at work, a
\* permit is there for one, or a producer has yet to publish or to post.
ParkedIsServed == owner = "parked" /\ Threads # {} => ServedNext

\* When stop_threads joins, there is a permit for each worker that sleeps or
\* will sleep again, whatever the others have spent: none is left asleep.
JoinIsServed == owner = "join" => Cardinality(Unwoken) <= permits

\* The workers still to be woken are finitely many.
LEMMA UnwokenType ==
    Unwoken \in SUBSET Workers /\ IsFiniteSet(Unwoken) /\ Cardinality(Unwoken) \in Nat
BY FS_Subset, FS_CardinalityType, SetsAssumption DEF Unwoken

\* Whatever a worker detaches for a refresh counts as pending until it is back.
LEMMA RefreshIsPending ==
    ASSUME AInv, AInv', NEW w \in Workers, StartRefresh(w)
    PROVE  HasPendingOrRunning'
<1>1. TypeOK /\ RefreshingExact'
  BY DEF AInv, IInv
<1>2. PICK n \in 0..Len(incoming) :
         /\ IsReadyPrefix(n)
         /\ held' = [held EXCEPT ![w] = tasks \cup ToSet(SubSeq(incoming, 1, n))]
  BY DEF StartRefresh
<1>3. tasks # {} \/ HasReady
  BY DEF StartRefresh, MustRefresh, MayRefresh
<1>4. tasks \cup ToSet(SubSeq(incoming, 1, n)) # {}
  <2>1. CASE HasReady
    <3>1. incoming \in Seq(Tasks) /\ Len(incoming) \in Nat /\ Len(incoming) > 0 /\ Head(incoming) = incoming[1]
      BY <1>1, <2>1, LenProperties, EmptySeq DEF HasReady, TypeOK
    <3>2. n >= 1
      BY <1>2, <2>1, <3>1 DEF IsReadyPrefix, HasReady
    <3>3. SubSeq(incoming, 1, n) \in Seq(Tasks) /\ Len(SubSeq(incoming, 1, n)) = n
      BY <1>2, <3>1, <3>2, SplitType, SubSeqProperties
    <3>4. 1 \in DOMAIN SubSeq(incoming, 1, n)
      BY <1>2, <3>1, <3>2, <3>3, LenProperties
    <3> QED
      BY <3>4 DEF ToSet
  <2> QED
    BY <1>3, <2>1
<1>5. held'[w] # {} /\ w \in InPhase("refresh")'
  BY <1>1, <1>2, <1>4 DEF StartRefresh, InPhase, TypeOK
<1>6. Refreshed' # {} /\ IsFiniteSet(Refreshed')
  <2>1. Refreshed' # {}
    BY <1>5 DEF Refreshed
  <2>2. Refreshed' \subseteq Tasks
    BY DEF Refreshed, InPhase, AInv, IInv, TypeOK
  <2> QED
    BY <2>1, <2>2, FS_Subset, SetsAssumption
<1>7. refreshing_count' # 0
  BY <1>1, <1>6, FS_EmptySet DEF RefreshingExact, Refreshed
<1> QED
  BY <1>7 DEF HasPendingOrRunning

\* A worker's step keeps the owner served.
LEMMA WorkerServes ==
    ASSUME WakeInv, AInv', ServedOK, NEW w \in Workers, WorkerStep(w)
    PROVE  ServedOK'
<1>1. TypeOK /\ TypeOK' /\ RunningExact /\ Cardinality(Unwoken) \in Nat
  BY UnwokenType DEF WakeInv, AInv, IInv
<1>2. /\ UNCHANGED <<op, stopping, ownerPosts>>
      /\ owner' = owner \/ (owner = "parked" /\ owner' = "check")
  BY DEF WorkerStep, Wake, Exit, StartRefresh, FinishRefresh, PickPrioritized, PickPostponed,
         StartTask, FindNothing, Complete, Postpone, EndRun, WorkerPost, NotifyAll, ownerVars
<1>3. Threads' = Threads
  <2>1. pc[w] # "none" /\ pc'[w] # "none" /\ \A v \in Workers \ {w} : pc'[v] = pc[v]
    BY <1>1 DEF WorkerStep, Wake, Exit, StartRefresh, FinishRefresh, PickPrioritized, PickPostponed,
                StartTask, FindNothing, Complete, Postpone, EndRun, AfterUnlock, WorkerPost, TypeOK
  <2> QED
    BY <2>1 DEF Threads
<1>4. owner' = "parked" => HasPendingOrRunning' \/ incoming' # <<>>
  <2> SUFFICES ASSUME owner' = "parked" PROVE HasPendingOrRunning' \/ incoming' # <<>>
    OBVIOUS
  <2>1. owner = "parked" /\ (HasPendingOrRunning \/ incoming # <<>>)
    BY <1>2 DEF ServedOK
  <2>2. CASE FinishRefresh(w) \/ Complete(w) \/ Postpone(w)
    BY <2>1, <2>2 DEF FinishRefresh, Complete, Postpone, EndRun, NotifyAll
  <2>3. CASE StartRefresh(w)
    BY <2>3, RefreshIsPending DEF WakeInv
  <2>4. CASE PickPrioritized(w) \/ PickPostponed(w)
    <3>1. running_count' = running_count + 1
      BY <2>4, <1>1, PickStarts DEF StartTask
    <3>2. running_count \in Nat
      <4>1. InPhase("run") \subseteq Workers
        BY DEF InPhase
      <4> QED
        BY <1>1, <4>1, FS_Subset, FS_CardinalityType, SetsAssumption DEF RunningExact
    <3> QED
      BY <3>1, <3>2 DEF HasPendingOrRunning
  <2>5. CASE Wake(w) \/ Exit(w) \/ FindNothing(w) \/ WorkerPost(w)
    BY <2>1, <2>5 DEF Wake, Exit, FindNothing, WorkerPost, HasPendingOrRunning, HasQueued,
                      ingressVars, queueVars
  <2> QED
    BY <2>2, <2>3, <2>4, <2>5 DEF WorkerStep
<1>5. stopping' => Cardinality(Unwoken') <= permits' + ownerPosts'
  <2> SUFFICES ASSUME stopping PROVE Cardinality(Unwoken') <= permits' + ownerPosts'
    BY <1>2
  <2>1. Cardinality(Unwoken) <= permits + ownerPosts
    BY DEF ServedOK
  <2>2. CASE Wake(w)
    <3>1. permits' = permits - 1 /\ w \in Unwoken /\ Unwoken' = Unwoken \ {w}
      BY <1>1, <2>2 DEF Wake, Unwoken, TypeOK
    <3>2. Cardinality(Unwoken') = Cardinality(Unwoken) - 1
      BY <3>1, UnwokenType, FS_RemoveElement
    <3> QED
      BY <1>1, <1>2, <2>1, <3>1, <3>2 DEF TypeOK
  <2>3. CASE Exit(w)
    <3>1. permits' = permits /\ Unwoken' = Unwoken
      BY <1>1, <2>3 DEF Exit, Unwoken, TypeOK
    <3> QED
      BY <1>2, <2>1, <3>1
  <2>4. CASE FinishRefresh(w) \/ Complete(w) \/ Postpone(w) \/ WorkerPost(w)
    <3>1. pc[w] \in {"refresh", "run", "post"} /\ pc'[w] \in {"sleep", "post"}
          /\ \A v \in Workers \ {w} : pc'[v] = pc[v]
      BY <1>1, <2>4 DEF FinishRefresh, Complete, Postpone, EndRun, AfterUnlock, WorkerPost, TypeOK
    <3>2. Unwoken' = Unwoken
      BY <3>1 DEF Unwoken
    <3>3. permits' = permits \/ permits' = permits + 1
      BY <2>4 DEF FinishRefresh, Complete, Postpone, EndRun, WorkerPost
    <3> QED
      BY <1>1, <1>2, <2>1, <3>2, <3>3 DEF TypeOK
  <2>5. ~ StartRefresh(w) /\ ~ PickPrioritized(w) /\ ~ PickPostponed(w) /\ ~ FindNothing(w)
    BY DEF StartRefresh, PickPrioritized, PickPostponed, FindNothing
  <2> QED
    BY <2>2, <2>3, <2>4, <2>5 DEF WorkerStep
<1> QED
  BY <1>2, <1>3, <1>4, <1>5 DEF ServedOK

\* A producer's step adds to what the owner waits for, and takes no permit.
LEMMA ProducerServes ==
    ASSUME TypeOK, ServedOK, NEW b \in Batches, Link(b) \/ Publish(b) \/ PostPermit(b)
    PROVE  ServedOK'
<1>1. UNCHANGED <<owner, op, ownerPosts, stopping, pc, queueVars>>
  BY DEF Link, Publish, PostPermit, workerVars, ownerVars
<1>2. Unwoken' = Unwoken /\ Threads' = Threads /\ HasPendingOrRunning' = HasPendingOrRunning
  BY <1>1 DEF Unwoken, Threads, HasPendingOrRunning, HasQueued, queueVars
<1>3. permits' = permits \/ permits' = permits + 1
  BY DEF Link, Publish, PostPermit
<1>4. incoming # <<>> => incoming' # <<>>
  <2>1. CASE Link(b)
    <3>1. incoming \in Seq(Tasks) /\ BatchTasks[b] \in Seq(Tasks)
      BY BatchAssumption DEF TypeOK
    <3>2. Len(incoming \o BatchTasks[b]) = Len(incoming) + Len(BatchTasks[b])
      BY <3>1, ConcatProperties
    <3> QED
      BY <2>1, <3>1, <3>2, LenProperties, EmptySeq DEF Link
  <2> QED
    BY <2>1 DEF Publish, PostPermit
<1>5. Cardinality(Unwoken) <= permits + ownerPosts => Cardinality(Unwoken) <= permits' + ownerPosts
  BY <1>3, UnwokenType DEF TypeOK
<1> QED
  BY <1>1, <1>2, <1>4, <1>5 DEF ServedOK

\* The owner parks with something to wait for, and posts a permit per thread.
LEMMA OwnerServes ==
    ASSUME WakeInv, ServedOK,
           OwnerStep \/ DrainCompleted \/ \E name \in OwnerOps \ {"none"} : Call(name)
    PROVE  ServedOK'
<1>1. TypeOK /\ StopsOK /\ Cardinality(Unwoken) \in Nat
  BY UnwokenType DEF WakeInv, AInv, IInv
<1>2. ASSUME pc' = pc PROVE Unwoken' = Unwoken /\ Threads' = Threads
  BY <1>2 DEF Unwoken, Threads
<1>3. ASSUME UNCHANGED <<tasks, spinning_tasks, running_count, refreshing_count>>
      PROVE  HasPendingOrRunning' = HasPendingOrRunning
  BY <1>3 DEF HasPendingOrRunning, HasQueued
<1>4. CASE DrainCompleted
  <2>1. UNCHANGED <<pc, tasks, spinning_tasks, running_count, refreshing_count, incoming,
                    owner, op, ownerPosts, stopping, permits>>
    BY <1>4 DEF DrainCompleted, ingressVars, workerVars, ownerVars
  <2> QED
    BY <1>2, <1>3, <2>1 DEF ServedOK
<1>5. ASSUME NEW name \in OwnerOps \ {"none"}, Call(name)
      PROVE  ServedOK'
  <2>1. /\ UNCHANGED <<pc, tasks, spinning_tasks, running_count, refreshing_count, incoming,
                       ownerPosts, stopping, permits>>
        /\ owner = "free" /\ op' = name
        /\ name = "wait" => owner' = "check"
        /\ name = "drop" => owner' = "stop"
        /\ name \notin {"wait", "drop"} => owner' = IF Threads = {} THEN "join" ELSE "check"
    BY <1>5 DEF Call, ingressVars, queueVars, workerVars
  <2> QED
    BY <1>2, <1>3, <2>1 DEF ServedOK
<1>6. CASE CheckIdle
  <2>1. /\ UNCHANGED <<pc, tasks, spinning_tasks, running_count, refreshing_count, incoming,
                       ownerPosts, stopping, permits>>
        /\ owner = "check"
        /\ \/ owner' = "parked" /\ op' = op /\ (HasPendingOrRunning \/ incoming # <<>>)
           \/ owner' \in {"free", "stop"}
    BY <1>6 DEF CheckIdle, ingressVars, queueVars, workerVars
  <2> QED
    BY <1>2, <1>3, <2>1 DEF ServedOK
<1>7. CASE StopThreads
  <2>1. /\ pc' = pc /\ permits' = permits /\ owner' = "posting" /\ stopping'
        /\ ownerPosts' = Cardinality(Threads)
    BY <1>7 DEF StopThreads, workerVars
  <2>2. Cardinality(Unwoken) <= Cardinality(Threads) /\ Cardinality(Threads) \in Nat
    <3>1. Unwoken \subseteq Threads /\ Threads \subseteq Workers
      BY DEF Unwoken, Threads
    <3> QED
      BY <3>1, FS_Subset, FS_CardinalityType, SetsAssumption
  <2> QED
    BY <1>1, <1>2, <2>1, <2>2 DEF ServedOK, TypeOK
<1>8. CASE PostStop
  <2>1. /\ pc' = pc /\ owner = "posting" /\ stopping' = stopping /\ stopping
        /\ \/ ownerPosts' = ownerPosts - 1 /\ permits' = permits + 1 /\ owner' = "posting"
           \/ ownerPosts' = ownerPosts /\ ownerPosts = 0 /\ permits' = permits /\ owner' = "join"
    BY <1>1, <1>8 DEF PostStop, workerVars, ServedOK, TypeOK
  <2>2. permits' + ownerPosts' = permits + ownerPosts
    BY <1>1, <2>1 DEF TypeOK
  <2> QED
    BY <1>2, <2>1, <2>2 DEF ServedOK
<1>9. CASE Join
  <2>1. /\ owner = "join" /\ owner' \in {"free", "dropped"} /\ op' = "none"
        /\ UNCHANGED <<permits, ownerPosts>>
        /\ op = "resize" => ~stopping'
        /\ op # "resize" => \A w \in Workers : pc'[w] = "none"
    BY <1>9 DEF Join
  <2>2. CASE op # "resize"
    <3>1. Unwoken' = {}
      BY <2>1, <2>2 DEF Unwoken
    <3> QED
      BY <1>1, <2>1, <3>1, FS_EmptySet DEF ServedOK, TypeOK
  <2> QED
    BY <2>1, <2>2 DEF ServedOK
<1> QED
  BY <1>4, <1>5, <1>6, <1>7, <1>8, <1>9 DEF OwnerStep

\* The owner is served in every reachable state.
THEOREM OwnersServed == Spec => []ServedOK
<1>1. Init => ServedOK
  BY DEF Init, ServedOK
<1>2. WakeInv /\ AInv' /\ ServedOK /\ [Next]_vars => ServedOK'
  <2> SUFFICES ASSUME WakeInv, AInv', ServedOK, [Next]_vars PROVE ServedOK'
    OBVIOUS
  <2>1. CASE UNCHANGED vars
    BY <2>1 DEF vars, ServedOK, Unwoken, Threads, HasPendingOrRunning, HasQueued,
                ingressVars, queueVars, workerVars, ownerVars
  <2>2. CASE Next
    BY <2>2, WorkerServes, ProducerServes, OwnerServes DEF Next, WakeInv, AInv, IInv
  <2> QED
    BY <2>1, <2>2
<1> QED
  BY <1>1, <1>2, WakeupsCounted, Accounts, PTL DEF Spec

\* stop_threads posts enough: at the join there is a permit for every worker
\* still to be woken, in any interleaving with the permits workers spend.
THEOREM ThreadsAreWoken == Spec => []JoinIsServed
<1>1. ServedOK /\ TypeOK => JoinIsServed
  <2> SUFFICES ASSUME ServedOK, TypeOK, owner = "join" PROVE Cardinality(Unwoken) <= permits
    BY DEF JoinIsServed
  <2>1. CASE stopping
    BY <2>1 DEF ServedOK, TypeOK
  <2>2. CASE Threads = {}
    <3>1. Unwoken = {}
      BY <2>2 DEF Unwoken, Threads
    <3> QED
      BY <3>1, FS_EmptySet DEF TypeOK
  <2> QED
    BY <2>1, <2>2 DEF ServedOK
<1> QED
  BY <1>1, OwnersServed, TypeCorrect, PTL

\* Where no wake-up is lost, an owner that waits is never left alone: whatever
\* it waits for, a worker or a producer has a step to take towards it.
THEOREM ParkedOwnersAreServed ==
    ASSUME Serial \cap Postponing = {} \/ Cancellable \cup Panicking = {}
    PROVE  Spec => []ParkedIsServed
<1>1. WakeInv /\ ServedOK /\ NoLostWakeup => ParkedIsServed
  <2> SUFFICES ASSUME WakeInv, ServedOK, NoLostWakeup,
                      owner = "parked", Threads # {}, ~ServedNext
               PROVE  FALSE
    BY DEF ParkedIsServed
  <2>1. TypeOK /\ SerialLane /\ RunningExact /\ RefreshingExact /\ PlacesOK /\ StopsOK
    BY DEF WakeInv, AInv, IInv
  <2>2. InPhase("run") = {} /\ InPhase("refresh") = {}
    BY DEF ServedNext, InPhase
  <2>3. running_count = 0 /\ refreshing_count = 0
    <3>1. UNION {held[w] : w \in InPhase("refresh")} = {}
      BY <2>2
    <3> QED
      BY <2>1, <2>2, <3>1, FS_EmptySet DEF RunningExact, RefreshingExact
  <2>4. ~serial_running
    BY <2>1 DEF ServedNext, SerialLane, RunsSerial
  <2>5. ~stopping
    BY <2>1 DEF StopsOK, Dead, ServedOK
  <2>6. ~WakeOwed
    <3>1. \A b \in Batches : ~(token[b] > 0)
      BY <2>1 DEF ServedNext, WakeInv, OwedOK, TypeOK
    <3> QED
      BY <3>1 DEF WakeOwed, ServedNext, RunsSerial
  <2>7. ~Waiting
    BY <2>5, <2>6 DEF NoLostWakeup
  <2>8. ~HasQueued
    <3>1. tasks = {} /\ PickablePostponed = {}
      BY <2>4, <2>7 DEF Waiting, PickableTasks
    <3>2. DOMAIN spinning_tasks = {} /\ spinning_tasks \in Seq(Tasks)
      BY <2>1, <2>4, <3>1 DEF PickablePostponed, TypeOK
    <3>3. spinning_tasks = <<>>
      BY <3>2, LenProperties, EmptySeq
    <3> QED
      BY <3>1, <3>3 DEF HasQueued
  <2>9. incoming # <<>>
    BY <2>3, <2>8 DEF ServedOK, HasPendingOrRunning
  <2>10. BatchOf(Head(incoming)) \in linked
    <3>1. Head(incoming) \in ToSet(incoming)
      <4>1. incoming \in Seq(Tasks) /\ Len(incoming) \in Nat /\ Len(incoming) > 0
        BY <2>1, <2>9, LenProperties, EmptySeq DEF TypeOK
      <4>2. Head(incoming) = incoming[1] /\ 1 \in DOMAIN incoming
        BY <2>9, <4>1, LenProperties
      <4> QED
        BY <4>2 DEF ToSet
    <3>2. PICK b \in linked : Head(incoming) \in ToSet(BatchTasks[b])
      BY <2>1, <3>1 DEF PlacesOK, LinkedTasks
    <3>3. b \in Batches
      BY <2>1 DEF TypeOK
    <3>4. BatchOf(Head(incoming)) = b
      BY <3>2, <3>3, BatchAssumption DEF BatchOf
    <3> QED
      BY <3>2, <3>4
  <2>11. BatchOf(Head(incoming)) \in ready
    BY <2>10 DEF ServedNext
  <2> QED
    BY <2>7, <2>9, <2>11 DEF Waiting, HasReady
<1> QED
  BY <1>1, WakeupsCounted, OwnersServed, WakeupsKept, PTL
-----------------------------------------------------------------------------
(* The pool implements TaskPool *)

phases == [t \in Tasks |-> Phase(t)]

\* A step of TaskPool, seen task by task.
LEMMA Moves ==
    ASSUME NEW M \in SUBSET Tasks, NEW p,
           \A t \in Tasks : Phase(t)' = IF t \in M THEN p ELSE Phase(t)
    PROVE  Pool!Move(M, p)
BY DEF Pool!Move

\* The tasks TaskPool has in a phase.
LEMMA PhasesOf ==
    ASSUME NEW t \in Tasks, NEW p
    PROVE  t \in Pool!In(p) <=> Phase(t) = p
BY DEF Pool!In

\* Where the account puts a task is the phase TaskPool knows it in.
LEMMA AccountedPhase ==
    ASSUME AInv, NEW t \in Tasks
    PROVE  /\ t \in drained => Phase(t) = "returned"
           /\ t \in completed_tasks => Phase(t) = "completed"
           /\ InHand(t, "run") => Phase(t) = "running" /\ t \in Hands
           /\ t \in ToSet(incoming) \cup tasks \cup ToSet(spinning_tasks) => Phase(t) = "pending"
           /\ InHand(t, "refresh") => Phase(t) = "pending" /\ t \in Hands
           /\ t \notin LinkedTasks => Phase(t) = "absent"
           /\ Phase(t) = "running" => InHand(t, "run")
<1>1. HandsApart /\ PlacesOK
  BY DEF AInv
<1>2. \A q \in {"run", "refresh"} : InHand(t, q) => t \in Hands
  BY DEF InHand, Hands
<1>3. InHand(t, "refresh") => ~ InHand(t, "run")
  BY <1>1 DEF InHand, HandsApart
<1>4. CASE t \in drained
  BY <1>1, <1>2, <1>4 DEF Phase, Done, PlacesOK, Apart
<1>5. CASE t \in completed_tasks
  BY <1>1, <1>2, <1>5 DEF Phase, Done, PlacesOK, Apart
<1>6. CASE t \in Hands
  <2>1. t \notin drained /\ t \notin completed_tasks /\ t \in LinkedTasks
        /\ t \notin ToSet(incoming) \cup tasks \cup ToSet(spinning_tasks)
    BY <1>1, <1>6 DEF PlacesOK, Apart
  <2> QED
    BY <1>3, <1>6, <2>1 DEF Phase, Done
<1>7. CASE t \in ToSet(incoming) \cup tasks \cup ToSet(spinning_tasks)
  <2>1. t \notin drained /\ t \notin completed_tasks /\ t \in LinkedTasks /\ t \notin Hands
    BY <1>1, <1>7 DEF PlacesOK, Apart
  <2> QED
    BY <1>2, <2>1 DEF Phase, Done
<1>8. CASE t \notin LinkedTasks
  <2>1. /\ t \notin drained /\ t \notin completed_tasks /\ t \notin Hands
        /\ t \notin ToSet(incoming) \cup tasks \cup ToSet(spinning_tasks)
    BY <1>1, <1>8 DEF PlacesOK
  <2> QED
    BY <1>2, <1>8, <2>1 DEF Phase, Done
<1> QED
  BY <1>1, <1>4, <1>5, <1>6, <1>7, <1>8 DEF PlacesOK

\* A step that moves no task between ingress, completed, returned and running
\* is none for TaskPool.
LEMMA PhasesStay ==
    ASSUME UNCHANGED <<linked, completed_tasks, drained>>,
           \A t \in Tasks : InHand(t, "run")' <=> InHand(t, "run")
    PROVE  phases' = phases
<1>1. LinkedTasks' = LinkedTasks
  BY DEF LinkedTasks
<1>2. ASSUME NEW t \in Tasks
      PROVE  Phase(t)' = Phase(t)
  BY <1>1, <1>2 DEF Phase, Done
<1> QED
  BY <1>2 DEF phases

\* In a quiet step the tasks that run are the same.
LEMMA RunsStay ==
    ASSUME Quiet, NEW t \in Tasks
    PROVE  InHand(t, "run")' <=> InHand(t, "run")
BY DEF Quiet, InHand

\* Linking a batch submits its tasks.
LEMMA LinkSubmits ==
    ASSUME AInv, NEW b \in Batches, Link(b)
    PROVE  \E M \in SUBSET Tasks : Pool!Submit(M)
<1>1. /\ b \notin linked /\ UNCHANGED <<completed_tasks, drained, pc, held>>
  BY DEF Link, queueVars, workerVars
<1>2. PICK M : M = ToSet(BatchTasks[b])
  OBVIOUS
<1>3. M \in SUBSET Tasks
  BY <1>2, BatchAssumption, ToSetType
<1>4. LinkedTasks' = LinkedTasks \cup M
  BY <1>2, LinkPlaces
<1>5. M \cap LinkedTasks = {}
  BY <1>1, <1>2, BatchIsNew DEF AInv, IInv, TypeOK
<1>6. \A t \in Tasks : InHand(t, "run")' <=> InHand(t, "run")
  BY <1>1 DEF InHand
<1>7. ASSUME NEW t \in Tasks
      PROVE  Phase(t)' = IF t \in M THEN "pending" ELSE Phase(t)
  <2>1. CASE t \in M
    <3>1. t \notin drained /\ t \notin completed_tasks /\ ~ InHand(t, "run")
      BY <1>5, <2>1 DEF AInv, PlacesOK, InHand, Hands
    <3> QED
      BY <1>1, <1>4, <1>6, <2>1, <3>1 DEF Phase, Done
  <2>2. CASE t \notin M
    BY <1>1, <1>4, <1>6, <2>2 DEF Phase, Done
  <2> QED
    BY <2>1, <2>2
<1>8. M \subseteq Pool!In("absent")
  BY <1>3, <1>5, AccountedPhase, PhasesOf
<1>9. Pool!Move(M, "pending")
  BY <1>3, <1>7, Moves
<1> QED
  BY <1>3, <1>8, <1>9 DEF Pool!Submit

\* The end of a refresh discards the cancelled tasks.
LEMMA RefreshDiscards ==
    ASSUME AInv, NEW w \in Workers, FinishRefresh(w), \A t \in Tasks : InHand(t, "run")' <=> InHand(t, "run")
    PROVE  \E M \in SUBSET Tasks : Pool!Discard(M)
<1>1. PICK gone \in SUBSET held[w] : completed_tasks' = completed_tasks \cup gone
  BY FinishRefreshPlaces
<1>2. pc[w] = "refresh" /\ UNCHANGED <<linked, drained>>
  BY DEF FinishRefresh, ingressVars
<1>3. gone \in SUBSET Tasks
  BY <1>1 DEF AInv, IInv, TypeOK
<1>4. \A t \in gone : InHand(t, "refresh") /\ t \in Hands /\ Phase(t) = "pending"
  BY <1>1, <1>2, <1>3, AccountedPhase DEF InHand
<1>5. \A t \in gone : t \notin drained
  BY <1>4 DEF AInv, PlacesOK, Apart
<1>6. LinkedTasks' = LinkedTasks
  BY <1>2 DEF LinkedTasks
<1>7. ASSUME NEW t \in Tasks
      PROVE  Phase(t)' = IF t \in gone THEN "completed" ELSE Phase(t)
  <2>1. CASE t \in gone
    <3>1. t \in completed_tasks' /\ t \notin drained'
      BY <1>1, <1>2, <1>5, <2>1
    <3> QED
      BY <2>1, <3>1 DEF Phase, Done
  <2>2. CASE t \notin gone
    <3>1. (t \in completed_tasks' <=> t \in completed_tasks) /\ drained' = drained
      BY <1>1, <1>2, <2>2
    <3> QED
      BY <1>6, <2>2, <3>1 DEF Phase, Done
  <2> QED
    BY <2>1, <2>2
<1>8. gone \subseteq Pool!In("pending")
  BY <1>3, <1>4, PhasesOf
<1>9. Pool!Move(gone, "completed")
  BY <1>3, <1>7, Moves
<1> QED
  BY <1>3, <1>8, <1>9 DEF Pool!Discard

\* A pick starts a waiting task, a serial one only beside no other.
LEMMA PickStartsOne ==
    ASSUME AInv, NEW w \in Workers, PickPrioritized(w) \/ PickPostponed(w)
    PROVE  \E t \in Tasks : Pool!Start(t)
<1>1. PICK t \in Tasks : /\ StartTask(w, t)
                         /\ serial_running => t \notin Serial
                         /\ t \in tasks \cup ToSet(spinning_tasks)
  BY PickPlaces
<1>2. /\ held' = [held EXCEPT ![w] = {t}] /\ pc' = [pc EXCEPT ![w] = "run"]
      /\ UNCHANGED <<linked, completed_tasks, drained>>
  BY <1>1 DEF StartTask, ingressVars
<1>3. TypeOK /\ pc[w] = "awake" /\ SerialLane
  BY PickStarts DEF AInv, IInv
<1>4. Phase(t) = "pending" /\ t \notin drained /\ t \notin completed_tasks
  BY <1>1, AccountedPhase DEF AInv, PlacesOK, Apart
<1>5. ASSUME NEW u \in Tasks
      PROVE  InHand(u, "run")' <=> (u = t \/ InHand(u, "run"))
  <2>1. \A v \in Workers \ {w} : pc'[v] = pc[v] /\ held'[v] = held[v]
    BY <1>2, <1>3 DEF TypeOK
  <2>2. pc'[w] = "run" /\ held'[w] = {t}
    BY <1>2, <1>3 DEF TypeOK
  <2> QED
    BY <1>3, <2>1, <2>2 DEF InHand
<1>6. LinkedTasks' = LinkedTasks
  BY <1>2 DEF LinkedTasks
<1>7. ASSUME NEW u \in Tasks
      PROVE  Phase(u)' = IF u \in {t} THEN "running" ELSE Phase(u)
  <2>1. CASE u = t
    <3>1. u \notin drained' /\ u \notin completed_tasks' /\ InHand(u, "run")'
      BY <1>2, <1>4, <1>5, <2>1
    <3> QED
      BY <2>1, <3>1 DEF Phase, Done
  <2>2. CASE u # t
    BY <1>2, <1>5, <1>6, <2>2 DEF Phase, Done
  <2> QED
    BY <2>1, <2>2
<1>8. t \in Serial => Pool!In("running") \cap Serial = {}
  <2>1. ASSUME NEW u \in Pool!In("running") \cap Serial
        PROVE  serial_running
    <3>1. u \in Tasks /\ Phase(u) = "running"
      <4>1. u \in Tasks
        BY <2>1 DEF Pool!In
      <4> QED
        BY <2>1, <4>1, PhasesOf
    <3>2. InHand(u, "run")
      BY <3>1, AccountedPhase
    <3> QED
      BY <1>3, <2>1, <3>2 DEF InHand, RunsSerial, SerialLane
  <2> QED
    BY <1>1, <2>1
<1>9. t \in Pool!In("pending")
  BY <1>4, PhasesOf
<1>10. Pool!Move({t}, "running")
  BY <1>7, Moves
<1> QED
  BY <1>8, <1>9, <1>10 DEF Pool!Start

\* The end of a run completes the task or makes it wait again.
LEMMA EndRunFinishes ==
    ASSUME AInv, NEW w \in Workers, Complete(w) \/ Postpone(w)
    PROVE  \E t \in Tasks : Pool!Finish(t) \/ Pool!Requeue(t)
<1>1. TypeOK /\ HandsOK /\ HandsApart /\ PlacesOK
  BY DEF AInv, IInv
<1>2. PICK t \in Tasks, p \in BOOLEAN : held[w] = {t} /\ EndRun(w, t, p)
  BY <1>1, RunEnds
<1>3. pc[w] = "run"
  BY <1>1, RunEnds
<1>4. /\ held' = [held EXCEPT ![w] = {}] /\ pc'[w] # "run"
      /\ \A v \in Workers \ {w} : pc'[v] = pc[v] /\ held'[v] = held[v]
      /\ UNCHANGED <<linked, drained>>
  BY <1>1, <1>2 DEF EndRun, AfterUnlock, PermitsAfterRun, ingressVars, TypeOK
<1>5. InHand(t, "run") /\ Phase(t) = "running" /\ t \in Hands
  BY <1>2, <1>3, AccountedPhase DEF InHand
<1>6. ASSUME NEW u \in Tasks
      PROVE  InHand(u, "run")' <=> (u # t /\ InHand(u, "run"))
  BY <1>1, <1>2, <1>3, <1>4 DEF InHand, HandsApart
<1>7. LinkedTasks' = LinkedTasks /\ t \in LinkedTasks /\ t \notin drained /\ t \notin completed_tasks
  BY <1>1, <1>4, <1>5 DEF LinkedTasks, PlacesOK, Apart
<1>8. t \in Pool!In("running")
  BY <1>5, PhasesOf
<1>9. CASE Complete(w)
  <2>1. completed_tasks' = completed_tasks \cup {t}
    BY <1>2, <1>9 DEF Complete
  <2>2. ASSUME NEW u \in Tasks
        PROVE  Phase(u)' = IF u \in {t} THEN "completed" ELSE Phase(u)
    <3>1. CASE u = t
      <4>1. u \in completed_tasks' /\ u \notin drained'
        BY <1>4, <1>7, <2>1, <3>1
      <4> QED
        BY <3>1, <4>1 DEF Phase, Done
    <3>2. CASE u # t
      <4>1. (u \in completed_tasks' <=> u \in completed_tasks) /\ drained' = drained
        BY <1>4, <2>1, <3>2
      <4> QED
        BY <1>6, <1>7, <3>2, <4>1 DEF Phase, Done
    <3> QED
      BY <3>1, <3>2
  <2>3. Pool!Move({t}, "completed")
    BY <2>2, Moves
  <2> QED
    BY <1>8, <2>3 DEF Pool!Finish
<1>10. CASE Postpone(w)
  <2>1. completed_tasks' = completed_tasks /\ t \in Postponing
    BY <1>2, <1>10 DEF Postpone
  <2>2. ASSUME NEW u \in Tasks
        PROVE  Phase(u)' = IF u \in {t} THEN "pending" ELSE Phase(u)
    <3>1. CASE u = t
      BY <1>4, <1>6, <1>7, <2>1, <3>1 DEF Phase, Done
    <3>2. CASE u # t
      BY <1>4, <1>6, <1>7, <2>1, <3>2 DEF Phase, Done
    <3> QED
      BY <3>1, <3>2
  <2>3. Pool!Move({t}, "pending")
    BY <2>2, Moves
  <2> QED
    BY <1>8, <2>1, <2>3 DEF Pool!Requeue
<1> QED
  BY <1>9, <1>10

\* Draining returns the completed tasks.
LEMMA DrainReturns ==
    ASSUME AInv, DrainCompleted
    PROVE  \E M \in SUBSET Tasks : Pool!Return(M)
<1>1. /\ drained' = drained \cup completed_tasks /\ completed_tasks' = {}
      /\ UNCHANGED <<linked, pc, held>>
  BY DEF DrainCompleted, ingressVars, workerVars
<1>2. completed_tasks \in SUBSET Tasks
  BY DEF AInv, IInv, TypeOK
<1>3. LinkedTasks' = LinkedTasks
  BY <1>1 DEF LinkedTasks
<1>4. \A t \in Tasks : InHand(t, "run")' <=> InHand(t, "run")
  BY <1>1 DEF InHand
<1>5. ASSUME NEW t \in Tasks
      PROVE  Phase(t)' = IF t \in completed_tasks THEN "returned" ELSE Phase(t)
  <2>1. CASE t \in completed_tasks
    <3>1. t \in drained'
      BY <1>1, <2>1
    <3> QED
      BY <2>1, <3>1 DEF Phase, Done
  <2>2. CASE t \notin completed_tasks
    <3>1. (t \in drained' <=> t \in drained) /\ t \notin completed_tasks'
      BY <1>1, <2>2
    <3> QED
      BY <1>3, <1>4, <2>2, <3>1 DEF Phase, Done
  <2> QED
    BY <2>1, <2>2
<1>6. completed_tasks \subseteq Pool!In("completed")
  BY <1>2, AccountedPhase, PhasesOf
<1>7. Pool!Move(completed_tasks, "returned")
  BY <1>2, <1>5, Moves
<1> QED
  BY <1>2, <1>6, <1>7 DEF Pool!Return

\* The pool keeps its promise, TaskPool: each task is run by one worker at a
\* time, a serial one beside no other, ends once and is handed back once.
THEOREM RunnerIsPool == Spec => ImplementsPool
<1>1. Init => Pool!Init
  <2> SUFFICES ASSUME Init PROVE Pool!Init
    OBVIOUS
  <2>1. ASSUME NEW t \in Tasks
        PROVE  Phase(t) = "absent"
    <3>1. drained = {} /\ completed_tasks = {} /\ LinkedTasks = {} /\ ~ InHand(t, "run")
      BY DEF Init, LinkedTasks, InHand
    <3> QED
      BY <3>1 DEF Phase, Done
  <2> QED
    BY <2>1 DEF Pool!Init
<1>2. AInv /\ [Next]_vars => [Pool!Next]_phases
  <2> SUFFICES ASSUME AInv, [Next]_vars
               PROVE  Pool!Next \/ phases' = phases
    OBVIOUS
  <2>1. ASSUME NEW w \in Workers, PickPrioritized(w) \/ PickPostponed(w)
        PROVE  Pool!Next
    BY <2>1, PickStartsOne DEF Pool!Next
  <2>2. ASSUME NEW w \in Workers, Complete(w) \/ Postpone(w)
        PROVE  Pool!Next
    BY <2>2, EndRunFinishes DEF Pool!Next
  <2>3. ASSUME NEW b \in Batches, Link(b)
        PROVE  Pool!Next
    BY <2>3, LinkSubmits DEF Pool!Next
  <2>4. CASE DrainCompleted
    BY <2>4, DrainReturns DEF Pool!Next
  <2>5. CASE Quiet
    <3>1. \A t \in Tasks : InHand(t, "run")' <=> InHand(t, "run")
      BY <2>5, RunsStay
    <3>2. ASSUME NEW w \in Workers, FinishRefresh(w)
          PROVE  Pool!Next
      BY <3>1, <3>2, RefreshDiscards DEF Pool!Next
    <3>3. ASSUME NEW w \in Workers, StartRefresh(w)
          PROVE  phases' = phases
      BY <3>1, <3>3, PhasesStay DEF StartRefresh
    <3>4. CASE TasksStay
      BY <3>1, <3>4, PhasesStay DEF TasksStay
    <3> QED
      BY <2>1, <2>2, <2>3, <2>4, <3>2, <3>3, <3>4, OtherPlaces
  <2> QED
    BY <2>1, <2>2, <2>5, QuietSteps DEF AInv, IInv
<1> QED
  BY <1>1, <1>2, Accounts, PTL DEF Spec, ImplementsPool, Pool!Spec, phases
=============================================================================
