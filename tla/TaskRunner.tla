----------------------------- MODULE TaskRunner -----------------------------
(***************************************************************************)
(* The thread pool of voxel-core (tasks/threaded_task_runner.rs): worker   *)
(* threads blocked on a counting semaphore, an ingress list of task        *)
(* batches linked by producers and published later, a priority queue that  *)
(* is refreshed outside the state lock, a serial lane, postponed tasks and *)
(* an owner that waits, resizes, shuts down or drops the pool.             *)
(*                                                                         *)
(* One action is one critical section of the state mutex (or one operation *)
(* on the semaphore or on the ingress list), so every interleaving of the  *)
(* threads at those points is explored.  A task's callbacks (priority,     *)
(* is_cancelled, run) are nondeterministic choices: the runner calls user  *)
(* code and may assume nothing of the answers.                             *)
(***************************************************************************)
EXTENDS Integers, FiniteSets, Sequences, SequencesExt

CONSTANTS
    Workers,       \* the worker threads the pool may have
    Tasks,         \* the boxed tasks
    Serial,        \* the tasks scheduled on TaskLane::Serial
    Batches,       \* the prepared batches, one per enqueue call
    BatchTasks,    \* BatchTasks[b]: the tasks of batch b in enqueue order
    Priorities,    \* the values priority() may return
    Cancellable,   \* the tasks whose is_cancelled() may answer TRUE
    Panicking,     \* the tasks whose callbacks may panic
    Postponing,    \* the tasks whose run() may return Postponed
    Perpetual,     \* the tasks whose run() always returns Postponed
    PeriodZero,    \* TRUE: priority_update_period is Duration::ZERO
    MaxPermits,    \* bound: no optional refresh beyond this many permits
    MaxOwnerOps    \* bound: owner operations in a behaviour

BatchOf(t) == CHOOSE b \in Batches : t \in ToSet(BatchTasks[b])

ASSUME SetsAssumption ==
    /\ Serial \subseteq Tasks
    /\ Cancellable \subseteq Tasks
    /\ Panicking \subseteq Tasks
    /\ Postponing \subseteq Tasks
    /\ Perpetual \subseteq Postponing
    /\ IsFiniteSet(Workers) /\ IsFiniteSet(Tasks)
    /\ Priorities \subseteq Nat /\ 0 \in Priorities
    /\ PeriodZero \in BOOLEAN

ASSUME BatchAssumption ==
    /\ BatchTasks \in [Batches -> Seq(Tasks)]
    /\ \A b \in Batches : BatchTasks[b] # <<>> /\ IsInjective(BatchTasks[b])
    /\ \A b, c \in Batches :
         b # c => ToSet(BatchTasks[b]) \cap ToSet(BatchTasks[c]) = {}

VARIABLES
    incoming,              \* incoming_batches, flattened oldest first
    linked,                \* the batches link_prepared has pushed
    ready,                 \* the batches whose ready flag is set
    token,                 \* token[b]: permits PreparedTaskWake still has to post
    permits,               \* count of work_semaphore
    tasks,                 \* RunnerState.tasks, ordered by Precedes
    tasks_sorted,
    spinning_tasks,        \* the postponed tasks, a FIFO
    completed_tasks,       \* terminal and not drained
    drained,               \* returned by try_drain_completed_into
    stopping,
    running_count,
    refreshing_count,
    serial_running,
    prefer_postponed_next,
    arrived,               \* tasks in the order next_sequence numbered them
    priority,              \* cached_priority of each task
    pc,                    \* where each worker thread is
    held,                  \* the tasks a worker owns outside the lock
    posts,                 \* permits a worker still has to post
    owner,                 \* where the owner's call is
    op,                    \* which call the owner is in
    ownerPosts,            \* permits stop_threads still has to post
    ownerOps,              \* owner operations so far (bounded)
    awaited                \* history: the tasks linked when a wait began

ingressVars == <<incoming, linked, ready, token>>
queueVars   == <<tasks, tasks_sorted, spinning_tasks, completed_tasks, drained,
                 running_count, refreshing_count, serial_running,
                 prefer_postponed_next, arrived, priority>>
workerVars  == <<pc, held, posts>>
ownerVars   == <<owner, op, ownerPosts, ownerOps, awaited>>
vars == <<ingressVars, permits, queueVars, stopping, workerVars, ownerVars>>

WorkerPCs == {"none", "sleep", "awake", "refresh", "run", "post", "exit"}
OwnerPCs  == {"free", "check", "parked", "stop", "posting", "join", "dropped"}
OwnerOps  == {"none", "wait", "resize", "shutdown", "drop"}

-----------------------------------------------------------------------------
(* Helpers *)

LinkedTasks == UNION {ToSet(BatchTasks[b]) : b \in linked}
Threads     == {w \in Workers : pc[w] # "none"}

\* sequence number given to t when its batch was drained
Sequence(t) == CHOOSE i \in DOMAIN arrived : arrived[i] = t

\* the order of the vector read from its end: higher cached priority first,
\* and among equals the smaller sequence number
Precedes(t, u) ==
    \/ priority[t] > priority[u]
    \/ priority[t] = priority[u] /\ Sequence(t) < Sequence(u)

\* drain_staged_tasks takes n tasks: it stops at the oldest unready batch
IsReadyPrefix(n) ==
    /\ \A i \in 1..n : BatchOf(incoming[i]) \in ready
    /\ n < Len(incoming) => BatchOf(incoming[n + 1]) \notin ready

\* the unready suffix goes back to the ingress
Undrained_DropsTheUnreadyBatch(n) == SubSeq(incoming, n + 2, Len(incoming))
Undrained(n) == SubSeq(incoming, n + 1, Len(incoming))

HasReady == incoming # <<>> /\ BatchOf(Head(incoming)) \in ready
Sorted   == tasks_sorted /\ ~HasReady

\* a worker may not pick: it has to refresh the queue first
MustRefresh == (tasks # {} \/ HasReady) /\ (~Sorted \/ PeriodZero)

\* priority_refresh_due: whether the period has elapsed is up to the clock
MayRefresh ==
    /\ tasks # {} /\ Sorted
    /\ permits + Cardinality(tasks) <= MaxPermits

HasQueued == tasks # {} \/ spinning_tasks # <<>>

HasPendingOrRunning_IgnoresRefresh == HasQueued \/ running_count # 0
HasPendingOrRunning == HasQueued \/ running_count # 0 \/ refreshing_count # 0

\* what pick_prioritized_task and pick_postponed_task may choose from
PickableTasks_IgnoresLane == tasks
PickableTasks == {t \in tasks : serial_running => t \notin Serial}

PickablePostponed ==
    {i \in DOMAIN spinning_tasks : serial_running => spinning_tasks[i] \notin Serial}

\* pick_next_task alternates between queued and postponed tasks
NextPreference_AlwaysPostponed == TRUE
NextPreference == ~prefer_postponed_next

\* run_task_item owes one permit for a postponed task, or for whatever is
\* queued behind a serial task whose permits other workers spent in vain
PermitsAfterRun_NoSerialHandoff(t, postponed) == IF postponed THEN 1 ELSE 0
PermitsAfterRun(t, postponed) ==
    IF postponed \/ (t \in Serial /\ HasQueued) THEN 1 ELSE 0

\* a worker releases the state lock owing n permits
AfterUnlock(w, n) ==
    /\ posts' = [posts EXCEPT ![w] = n]
    /\ pc' = [pc EXCEPT ![w] = IF n = 0 THEN "sleep" ELSE "post"]

\* cvar.notify_all: a parked waiter goes back to testing its condition
NotifyAll_Forgotten == owner' = owner
NotifyAll == owner' = IF owner = "parked" THEN "check" ELSE owner

-----------------------------------------------------------------------------
Init ==
    /\ incoming = <<>> /\ linked = {} /\ ready = {}
    /\ token = [b \in Batches |-> 0]
    /\ permits = 0
    /\ tasks = {} /\ tasks_sorted = FALSE /\ spinning_tasks = <<>>
    /\ completed_tasks = {} /\ drained = {}
    /\ stopping = FALSE
    /\ running_count = 0 /\ refreshing_count = 0
    /\ serial_running = FALSE /\ prefer_postponed_next = FALSE
    /\ arrived = <<>> /\ priority = [t \in Tasks |-> 0]
    /\ \E n \in SUBSET Workers : pc = [w \in Workers |-> IF w \in n THEN "sleep" ELSE "none"]
    /\ held = [w \in Workers |-> {}]
    /\ posts = [w \in Workers |-> 0]
    /\ owner = "free" /\ op = "none" /\ ownerPosts = 0 /\ ownerOps = 0
    /\ awaited = {}

-----------------------------------------------------------------------------
(* Producers: link_prepared, then PreparedTaskWake::publish *)

\* no &mut call is in progress: the pool is borrowed shared
Shared == owner # "dropped" /\ op \in {"none", "wait"}

Link_NewestFirst(b) ==
    /\ Shared
    /\ b \notin linked
    /\ linked' = linked \cup {b}
    /\ incoming' = BatchTasks[b] \o incoming
    /\ UNCHANGED <<ready, token, permits, queueVars, stopping, workerVars, ownerVars>>
Link(b) ==
    /\ Shared
    /\ b \notin linked
    /\ linked' = linked \cup {b}
    /\ incoming' = incoming \o BatchTasks[b]
    /\ UNCHANGED <<ready, token, permits, queueVars, stopping, workerVars, ownerVars>>

Publish(b) ==
    /\ b \in linked \ ready
    /\ ready' = ready \cup {b}
    /\ token' = [token EXCEPT ![b] = Len(BatchTasks[b])]
    /\ UNCHANGED <<incoming, linked, permits, queueVars, stopping, workerVars, ownerVars>>

PostPermit_OneTooMany(b) ==
    /\ b \in ready /\ token[b] >= 0
    /\ token' = [token EXCEPT ![b] = @ - 1]
    /\ permits' = permits + 1
    /\ UNCHANGED <<incoming, linked, ready, queueVars, stopping, workerVars, ownerVars>>
PostPermit(b) ==
    /\ token[b] > 0
    /\ token' = [token EXCEPT ![b] = @ - 1]
    /\ permits' = permits + 1
    /\ UNCHANGED <<incoming, linked, ready, queueVars, stopping, workerVars, ownerVars>>

-----------------------------------------------------------------------------
(* Workers: worker_loop *)

\* work_semaphore.wait() returns
Wake(w) ==
    /\ pc[w] = "sleep"
    /\ permits > 0
    /\ permits' = permits - 1
    /\ pc' = [pc EXCEPT ![w] = "awake"]
    /\ UNCHANGED <<ingressVars, queueVars, stopping, held, posts, ownerVars>>

Exit(w) ==
    /\ pc[w] = "awake"
    /\ stopping
    /\ pc' = [pc EXCEPT ![w] = "exit"]
    /\ UNCHANGED <<ingressVars, permits, queueVars, stopping, held, posts, ownerVars>>

\* drain_staged_tasks, then the whole queue is detached to be refreshed
StartRefresh(w) ==
    /\ pc[w] = "awake"
    /\ ~stopping
    /\ MustRefresh \/ MayRefresh
    /\ \E n \in 0..Len(incoming) :
         LET staged == SubSeq(incoming, 1, n)
             queue  == tasks \cup ToSet(staged)
         IN
         /\ IsReadyPrefix(n)
         /\ incoming' = Undrained(n)
         /\ arrived' = arrived \o staged
         /\ held' = [held EXCEPT ![w] = queue]
         /\ refreshing_count' = refreshing_count + Cardinality(queue)
    /\ tasks_sorted' = Sorted
    /\ tasks' = {}
    /\ pc' = [pc EXCEPT ![w] = "refresh"]
    /\ UNCHANGED <<linked, ready, token, permits, spinning_tasks, completed_tasks,
                   drained, running_count, serial_running, prefer_postponed_next,
                   priority, stopping, posts, ownerVars>>

\* refresh_task_items: priority() and is_cancelled() answered outside the lock,
\* then the survivors are sorted back in and one permit per survivor is owed
FinishRefresh(w) ==
    /\ pc[w] = "refresh"
    /\ \E gone \in SUBSET (held[w] \cap (Cancellable \cup Panicking)),
          fresh \in [held[w] -> Priorities] :
         LET runnable == held[w] \ gone IN
         /\ priority' = [t \in Tasks |-> IF t \in held[w] THEN fresh[t] ELSE priority[t]]
         /\ completed_tasks' = completed_tasks \cup gone
         /\ tasks' = tasks \cup runnable
         /\ AfterUnlock(w, Cardinality(runnable))
    /\ tasks_sorted' = TRUE
    /\ refreshing_count' = refreshing_count - Cardinality(held[w])
    /\ held' = [held EXCEPT ![w] = {}]
    /\ NotifyAll
    /\ UNCHANGED <<ingressVars, permits, spinning_tasks, drained, running_count,
                   serial_running, prefer_postponed_next, arrived, stopping,
                   op, ownerPosts, ownerOps, awaited>>

\* pick_next_task has chosen t
StartTask(w, t) ==
    /\ held' = [held EXCEPT ![w] = {t}]
    /\ pc' = [pc EXCEPT ![w] = "run"]
    /\ running_count' = running_count + 1
    /\ prefer_postponed_next' = NextPreference
    /\ serial_running' = (serial_running \/ t \in Serial)
    /\ UNCHANGED <<ingressVars, permits, tasks_sorted, completed_tasks, drained,
                   refreshing_count, arrived, priority, stopping, posts, ownerVars>>

PickPrioritized(w) ==
    /\ pc[w] = "awake" /\ ~stopping /\ ~MustRefresh
    /\ ~prefer_postponed_next \/ PickablePostponed = {}
    /\ \E t \in PickableTasks :
         /\ \A u \in PickableTasks \ {t} : Precedes(t, u)
         /\ tasks' = tasks \ {t}
         /\ StartTask(w, t)
    /\ UNCHANGED spinning_tasks

PickPostponed(w) ==
    /\ pc[w] = "awake" /\ ~stopping /\ ~MustRefresh
    /\ prefer_postponed_next \/ PickableTasks = {}
    /\ \E i \in PickablePostponed :
         /\ \A j \in PickablePostponed : i <= j
         /\ spinning_tasks' = RemoveAt(spinning_tasks, i)
         /\ StartTask(w, spinning_tasks[i])
    /\ UNCHANGED tasks

\* the permit bought nothing: back to the semaphore
FindNothing(w) ==
    /\ pc[w] = "awake" /\ ~stopping /\ ~MustRefresh
    /\ PickableTasks = {} /\ PickablePostponed = {}
    /\ pc' = [pc EXCEPT ![w] = "sleep"]
    /\ UNCHANGED <<ingressVars, permits, queueVars, stopping, held, posts, ownerVars>>

\* the end of run_task_item's critical section
EndRun(w, t, postponed) ==
    /\ running_count' = running_count - 1
    /\ serial_running' = (serial_running /\ t \notin Serial)
    /\ held' = [held EXCEPT ![w] = {}]
    /\ AfterUnlock(w, PermitsAfterRun(t, postponed))
    /\ NotifyAll
    /\ UNCHANGED <<ingressVars, permits, tasks, tasks_sorted, drained,
                   refreshing_count, prefer_postponed_next, arrived, priority,
                   stopping, op, ownerPosts, ownerOps, awaited>>

Complete(w) ==
    /\ pc[w] = "run"
    /\ \E t \in held[w] :
         /\ t \notin Perpetual
         /\ completed_tasks' = completed_tasks \cup {t}
         /\ EndRun(w, t, FALSE)
    /\ UNCHANGED spinning_tasks

Postpone(w) ==
    /\ pc[w] = "run"
    /\ \E t \in held[w] :
         /\ t \in Postponing
         /\ spinning_tasks' = Append(spinning_tasks, t)
         /\ EndRun(w, t, TRUE)
    /\ UNCHANGED completed_tasks

\* the posts made after the lock is released, one at a time
WorkerPost(w) ==
    /\ pc[w] = "post"
    /\ posts' = [posts EXCEPT ![w] = @ - 1]
    /\ permits' = permits + 1
    /\ pc' = IF posts[w] = 1 THEN [pc EXCEPT ![w] = "sleep"] ELSE pc
    /\ UNCHANGED <<ingressVars, queueVars, stopping, held, ownerVars>>

-----------------------------------------------------------------------------
(* The owner: wait_for_all_tasks, set_thread_count, shutdown, drop *)

\* a &mut call can start only once every wake token, which borrows the pool,
\* has been consumed
Exclusive == \A b \in linked : b \in ready /\ token[b] = 0

\* an owner call begins; without threads shutdown and resize skip the wait
Call(name) ==
    /\ owner = "free"
    /\ ownerOps < MaxOwnerOps
    /\ name # "wait" => Exclusive
    /\ ownerOps' = ownerOps + 1
    /\ op' = name
    /\ awaited' = IF name = "drop" THEN {} ELSE LinkedTasks
    /\ owner' = CASE name = "wait" -> "check"
                  [] name = "drop" -> "stop"
                  [] OTHER -> IF Threads = {} THEN "join" ELSE "check"
    /\ UNCHANGED <<ingressVars, permits, queueVars, stopping, workerVars, ownerPosts>>

\* one evaluation of wait_for_all_tasks' condition under the state lock
CheckIdle ==
    /\ owner = "check"
    /\ IF HasPendingOrRunning \/ incoming # <<>>
       THEN owner' = "parked" /\ UNCHANGED <<op, awaited>>
       ELSE /\ owner' = IF op = "wait" THEN "free" ELSE "stop"
            /\ op' = IF op = "wait" THEN "none" ELSE op
            /\ awaited' = {}
    /\ UNCHANGED <<ingressVars, permits, queueVars, stopping, workerVars,
                   ownerPosts, ownerOps>>

StopThreads ==
    /\ owner = "stop"
    /\ stopping' = TRUE
    /\ ownerPosts' = Cardinality(Threads)
    /\ owner' = "posting"
    /\ UNCHANGED <<ingressVars, permits, queueVars, workerVars, op, ownerOps, awaited>>

PostStop ==
    /\ owner = "posting"
    /\ IF ownerPosts > 0
       THEN /\ ownerPosts' = ownerPosts - 1
            /\ permits' = permits + 1
            /\ UNCHANGED owner
       ELSE /\ owner' = "join"
            /\ UNCHANGED <<ownerPosts, permits>>
    /\ UNCHANGED <<ingressVars, queueVars, stopping, workerVars, op, ownerOps, awaited>>

\* every thread is joined; a resize then spawns the new ones
Join ==
    /\ owner = "join"
    /\ \A w \in Threads : pc[w] = "exit"
    /\ \E n \in SUBSET Workers :
         /\ op # "resize" => n = {}
         /\ pc' = [w \in Workers |-> IF w \in n THEN "sleep" ELSE "none"]
    /\ stopping' = IF op = "resize" THEN FALSE ELSE stopping
    /\ owner' = IF op = "drop" THEN "dropped" ELSE "free"
    /\ op' = "none"
    /\ UNCHANGED <<ingressVars, permits, queueVars, held, posts, ownerPosts,
                   ownerOps, awaited>>

\* try_drain_completed_into
DrainCompleted ==
    /\ owner = "free"
    /\ completed_tasks # {}
    /\ drained' = drained \cup completed_tasks
    /\ completed_tasks' = {}
    /\ UNCHANGED <<ingressVars, permits, tasks, tasks_sorted, spinning_tasks,
                   running_count, refreshing_count, serial_running,
                   prefer_postponed_next, arrived, priority, stopping,
                   workerVars, ownerVars>>

-----------------------------------------------------------------------------
WorkerStep(w) ==
    \/ Wake(w) \/ Exit(w) \/ StartRefresh(w) \/ FinishRefresh(w)
    \/ PickPrioritized(w) \/ PickPostponed(w) \/ FindNothing(w)
    \/ Complete(w) \/ Postpone(w) \/ WorkerPost(w)

OwnerStep == CheckIdle \/ StopThreads \/ PostStop \/ Join

Next ==
    \/ \E b \in Batches : Link(b) \/ Publish(b) \/ PostPermit(b)
    \/ \E w \in Workers : WorkerStep(w)
    \/ \E name \in OwnerOps \ {"none"} : Call(name)
    \/ OwnerStep
    \/ DrainCompleted

Spec == Init /\ [][Next]_vars

(***************************************************************************)
(* Threads keep running, wake tokens are eventually dropped and an owner   *)
(* call proceeds (weak fairness).  A refresh costs less than the update    *)
(* period, so a worker that keeps waking with work to pick picks it at     *)
(* last (strong fairness on the picks), and a task outside Perpetual does  *)
(* not return Postponed for ever (strong fairness on Complete).            *)
(***************************************************************************)
Fairness ==
    /\ \A b \in Batches : WF_vars(Publish(b)) /\ WF_vars(PostPermit(b))
    /\ \A w \in Workers :
         /\ WF_vars(WorkerStep(w))
         /\ SF_vars(PickPrioritized(w)) /\ SF_vars(PickPostponed(w))
         /\ SF_vars(Complete(w))
    /\ WF_vars(OwnerStep)

FairSpec == Spec /\ Fairness
-----------------------------------------------------------------------------
(* Properties *)

\* Type invariant of the runner's state.
TypeOK ==
    /\ incoming \in Seq(Tasks) /\ arrived \in Seq(Tasks)
    /\ linked \subseteq Batches /\ ready \subseteq linked
    /\ token \in [Batches -> Nat] /\ permits \in Nat
    /\ tasks \subseteq Tasks /\ spinning_tasks \in Seq(Tasks)
    /\ completed_tasks \subseteq Tasks /\ drained \subseteq Tasks
    /\ {tasks_sorted, stopping, serial_running, prefer_postponed_next} \subseteq BOOLEAN
    /\ running_count \in Int /\ refreshing_count \in Int
    /\ priority \in [Tasks -> Priorities]
    /\ pc \in [Workers -> WorkerPCs]
    /\ held \in [Workers -> SUBSET Tasks] /\ posts \in [Workers -> Nat]
    /\ owner \in OwnerPCs /\ op \in OwnerOps
    /\ ownerPosts \in Nat /\ ownerOps \in Nat /\ awaited \subseteq Tasks

RunsSerial(w) == pc[w] = "run" /\ held[w] \cap Serial # {}

\* Two serial tasks never run at the same time, whichever workers wake, and
\* the serial_running flag is up exactly while one runs: a flag left up would
\* close the lane for good, a flag taken down early would open it twice.
SerialLane ==
    /\ \A w, v \in Workers : RunsSerial(w) /\ RunsSerial(v) => w = v
    /\ serial_running <=> \E w \in Workers : RunsSerial(w)

Places == <<ToSet(incoming), tasks, ToSet(spinning_tasks), completed_tasks, drained,
            UNION {held[w] : w \in Workers}>>

\* Every linked task is in exactly one place (ingress, queue, postponed, a
\* worker's hands, completed, returned) and appears there once: no race of
\* draining, refreshing, running and resizing loses or duplicates a task.
TasksConserved ==
    /\ LinkedTasks = UNION {Places[i] : i \in DOMAIN Places}
    /\ \A i, j \in DOMAIN Places : i # j => Places[i] \cap Places[j] = {}
    /\ \A w, v \in Workers : w # v => held[w] \cap held[v] = {}
    /\ IsInjective(incoming) /\ IsInjective(spinning_tasks)

InPhase(p) == {w \in Workers : pc[w] = p}

RunningExact    == running_count = Cardinality(InPhase("run"))
RefreshingExact ==
    refreshing_count = Cardinality(UNION {held[w] : w \in InPhase("refresh")})

\* running_count and refreshing_count are what wait_for_all_tasks relies on:
\* they equal the tasks that are running and detached for a refresh, so the
\* checked subtractions never underflow.
CountersExact == RunningExact /\ RefreshingExact

\* Every task is accounted for: it is in one place, and the counters agree.
TasksAccounted == TasksConserved /\ CountersExact

WakeOwed ==
    \/ permits > 0
    \/ \E w \in Workers : pc[w] \in {"awake", "refresh", "post"} \/ RunsSerial(w)
    \/ \E b \in Batches : token[b] > 0

Waiting ==
    \/ HasReady
    \/ PickableTasks # {} \/ PickablePostponed # {}

\* No lost wake-up: while some task could be run, a permit is there or will
\* be posted, so the workers cannot all sleep beside runnable work.
NoLostWakeup == Waiting /\ ~stopping => WakeOwed

\* wait_for_all_tasks (and the waits inside set_thread_count and shutdown)
\* returns only when every task linked before the call has completed, though
\* the ingress list and the queue are read under different locks.
WaitSound ==
    [][owner = "check" /\ owner' \in {"free", "stop"}
         => awaited \subseteq completed_tasks \cup drained]_vars

\* The ingress is one FIFO across producers: tasks are numbered in the order
\* their batches were linked, also when a later batch is published first.
IngressFifo ==
    [][IsPrefix(arrived \o incoming, arrived' \o incoming')]_vars

Done(t) == t \in completed_tasks \cup drained
Abandoned == Threads = {} \/ op = "drop" \/ owner = "dropped"

\* A linked task that does not postpone itself for ever completes, unless the
\* pool is dropped or left without threads; tasks that always postpone
\* themselves do not starve the others.
EveryTaskCompletes ==
    \A t \in Tasks \ Perpetual : t \in LinkedTasks ~> Done(t) \/ Abandoned

\* A task that postponed itself is requeued until it completes.
PostponedRunsAgain ==
    \A t \in Tasks \ Perpetual :
        t \in ToSet(spinning_tasks) ~> Done(t) \/ Abandoned

\* An owner call with threads to do the work returns: no notification is
\* missed, and stop_threads wakes and joins every worker.  Only a call that
\* waits for a task that postpones itself for ever goes on for ever.
OwnerCallReturns ==
    (owner \notin {"free", "dropped"})
      ~> (\/ owner \in {"free", "dropped"} \/ Threads = {}
          \/ op # "drop" /\ LinkedTasks \cap Perpetual # {})
-----------------------------------------------------------------------------
(* The runner implements TaskPool *)

InHand(t, where) == \E w \in Workers : pc[w] = where /\ t \in held[w]

Phase(t) ==
    CASE t \in drained -> "returned"
      [] t \in completed_tasks \ drained -> "completed"
      [] InHand(t, "run") /\ ~Done(t) -> "running"
      [] t \in LinkedTasks /\ ~Done(t) /\ ~InHand(t, "run") -> "pending"
      [] OTHER -> "absent"

Pool == INSTANCE TaskPool WITH phase <- [t \in Tasks |-> Phase(t)]

\* The pool with its workers, locks and refreshes implements TaskPool: no
\* interleaving starts a serial task beside another, completes a task twice,
\* revives one, or hands one back that did not end.
ImplementsPool == Pool!Spec
=============================================================================
