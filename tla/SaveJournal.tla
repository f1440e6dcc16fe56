----------------------------- MODULE SaveJournal ----------------------------
(***************************************************************************)
(* The save journal of VoxelTerrainCore with several LODs (terrain/        *)
(* voxel_terrain_core.rs): an edited block that is unloaded or captured by *)
(* a flush becomes an entry of the journal; a serial task writes it to the *)
(* stream, it is then kept as written but unflushed until a checkpoint, a  *)
(* flush of the whole stream, has made it durable.  Tasks may fail or      *)
(* panic before, inside or after the stream's call, and a call that        *)
(* panicked inside is indeterminate until somebody resolves it.            *)
(*                                                                         *)
(* The owner of the terrain is one thread: process, drain, flush,          *)
(* shutdown and resolve are its calls, and pc is its place in them.  The   *)
(* runner's workers run the tasks meanwhile.  An edit of a block is its    *)
(* revision number; a pending save, an attempt and a checkpoint are named  *)
(* by key and revision, as the code names them by key, revision,           *)
(* generation and attempt.                                                 *)
(***************************************************************************)
EXTENDS Integers, FiniteSets, Sequences

CONSTANTS
    Keys,                    \* the blocks (SaveKey)
    MaxRevision,             \* bound: how often each block is edited
    MaxFaults,               \* bound: stream calls and tasks that fail
    MaxAutomaticAttempts,    \* MAX_AUTOMATIC_SAVE_ATTEMPTS
    MaxExplicitAttempts,     \* MAX_EXPLICIT_SAVE_ATTEMPTS
    MaxAutomaticCheckpoints, \* MAX_AUTOMATIC_CHECKPOINT_ATTEMPTS
    MaxExplicitCheckpoints,  \* MAX_EXPLICIT_CHECKPOINT_ATTEMPTS
    Threshold,               \* AUTOMATIC_SAVE_CHECKPOINT_BLOCK_THRESHOLD
    Calls                    \* the calls the owner makes

ASSUME JournalAssumption ==
    /\ IsFiniteSet(Keys)
    /\ MaxRevision \in [Keys -> Nat] /\ MaxFaults \in Nat
    /\ {MaxAutomaticAttempts, MaxExplicitAttempts, MaxAutomaticCheckpoints,
        MaxExplicitCheckpoints, Threshold} \subseteq Nat \ {0}
    /\ MaxAutomaticCheckpoints <= MaxExplicitCheckpoints
    /\ Calls \subseteq {"process", "drain", "flush", "shutdown", "resolve"}

VARIABLES
    block,       \* block[k]: where its voxels are, the revision they show, edited since captured
    revision,    \* the key's revision: its last edit
    written,     \* written_unflushed: the revision, 0 for none
    active,      \* the active attempt
    queued,      \* queued_newer
    checkpoint,  \* save_checkpoint_in_flight
    last_checkpoint_outcome,
    blocked,     \* automatic_save_checkpoint_blocked
    force_checkpoint_requested,
    satisfied,   \* automatic_checkpoint_satisfied_empty_flush
    deferred,    \* deferred_save_dispatch_keys
    deferred_checkpoint_dispatch,
    tasks,       \* save and flush tasks in the runner
    completed,   \* their completions, oldest first
    inbox,       \* durable_completion_inbox: the completions a pass has taken
    stored,      \* what the stream returns for a block, 0 for nothing
    durable,     \* what would survive a crash
    faults,
    pc, call,    \* the owner: where it is, in which call
    stage,       \* what follows the wait and drain of a flush
    attempts,    \* rounds of flush_save_journal_with_attempts
    flushed,     \* checkpoint_already_flushed
    life,        \* "up", "closing" once a shutdown began, "down"
    promised     \* the revisions a flush that returned Ok vouches for

journal   == <<written, active, queued>>
flags     == <<blocked, force_checkpoint_requested, satisfied>>
deferrals == <<deferred, deferred_checkpoint_dispatch>>
stream    == <<stored, durable, faults>>
owner     == <<pc, call, stage, attempts, flushed, life, promised>>
world     == <<block, revision>>
runner    == <<tasks, completed, inbox>>
vars == <<world, journal, checkpoint, last_checkpoint_outcome, flags, deferrals,
          runner, stream, owner>>

-----------------------------------------------------------------------------
(* The journal *)

NoAttempt     == [state |-> "None", revision |-> 0, retry |-> 0]
Pending(v, r) == [state |-> "Pending", revision |-> v, retry |-> r]

NoCheckpoint ==
    [state |-> "None", saves |-> [k \in Keys |-> 0], retry |-> 0, explicit |-> FALSE]

SaveTask(k) == [kind |-> "save", key |-> k, revision |-> active[k].revision]
FlushTask   == [kind |-> "flush"]

\* an entry whose next save becomes the active one
Idle(k) == active[k] = NoAttempt /\ written[k] = 0

JournalEmpty == \A k \in Keys : Idle(k) /\ queued[k] = <<>>

IsPending(k)  == active[k].state = "Pending"
InFlight(k)   == active[k].state = "WriteInFlight"
InDoubt(k)    == active[k].state = "Indeterminate"
HasFailed(k)  == IsPending(k) /\ active[k].retry > 0

\* the dirty payloads of K enter the journal
Enqueue_DropsWhenBusy(K) ==
    /\ active' = [k \in Keys |-> IF k \in K /\ Idle(k) THEN Pending(revision[k], 0)
                                 ELSE active[k]]
    /\ UNCHANGED queued
Enqueue(K) ==
    /\ active' = [k \in Keys |-> IF k \in K /\ Idle(k) THEN Pending(revision[k], 0)
                                 ELSE active[k]]
    /\ queued' = [k \in Keys |-> IF k \in K /\ ~Idle(k)
                                 THEN Append(queued[k], Pending(revision[k], 0))
                                 ELSE queued[k]]

\* dispatch_queued_save for the keys of K
MayDispatch_BesideCheckpoint == ~blocked
MayDispatch == checkpoint = NoCheckpoint /\ ~blocked
Dispatchable(k, limit) == IsPending(k) /\ written[k] = 0 /\ active[k].retry < limit
Dispatch(K) ==
    /\ active' = [k \in Keys |-> IF k \in K THEN [active[k] EXCEPT !.state = "WriteInFlight"]
                                 ELSE active[k]]
    /\ tasks' = tasks \cup {SaveTask(k) : k \in K}

\* dispatch_pending_checkpoint
CheckpointLimit == IF checkpoint.explicit THEN MaxExplicitCheckpoints ELSE MaxAutomaticCheckpoints
CheckpointDispatchable == checkpoint.state = "Pending" /\ checkpoint.retry < CheckpointLimit
DispatchCheckpoint ==
    IF CheckpointDispatchable
    THEN /\ checkpoint' = [checkpoint EXCEPT !.state = "WriteInFlight"]
         /\ tasks' = tasks \cup {FlushTask}
    ELSE UNCHANGED <<checkpoint, tasks>>

\* begin_checkpoint, when none is in flight
BeginCheckpoint(explicit) ==
    /\ checkpoint' = [state |-> "WriteInFlight", saves |-> written, retry |-> 0,
                      explicit |-> explicit]
    /\ last_checkpoint_outcome' = "none"
    /\ tasks' = tasks \cup {FlushTask}

\* the written saves a checkpoint stands for
Acknowledged_AllWritten == {k \in Keys : written[k] # 0}
Acknowledged == {k \in Keys : checkpoint.saves[k] # 0 /\ written[k] = checkpoint.saves[k]}

\* apply_acknowledged_checkpoint_result with Ok: the saves are durable, their
\* successors become active
SettleCheckpoint ==
    /\ written' = [k \in Keys |-> IF k \in Acknowledged THEN 0 ELSE written[k]]
    /\ LET promoted == {k \in Acknowledged : active[k] = NoAttempt /\ queued[k] # <<>>} IN
       /\ active' = [k \in Keys |-> IF k \in promoted THEN Head(queued[k]) ELSE active[k]]
       /\ queued' = [k \in Keys |-> IF k \in promoted THEN Tail(queued[k]) ELSE queued[k]]
    /\ deferred' = deferred \cup {k \in Acknowledged : active'[k].state = "Pending"}
    /\ blocked' = FALSE
    /\ satisfied' = JournalEmpty'

\* the line of a restored save and its successors
Rejoin_Behind(save, successors) == Append(successors, save)
Rejoin(save, successors) == <<save>> \o successors

\* ... with Err: they are pending again, ahead of their successors
RestoreCheckpoint ==
    LET free(k) == active[k].state \in {"None", "Pending"}
        line(k) == Rejoin(Pending(written[k], IF checkpoint.explicit THEN 1 ELSE 0),
                          IF IsPending(k) THEN <<active[k]>> \o queued[k] ELSE queued[k]) IN
    /\ written' = [k \in Keys |-> IF k \in Acknowledged THEN 0 ELSE written[k]]
    /\ active' = [k \in Keys |-> IF k \in Acknowledged /\ free(k) THEN Head(line(k)) ELSE active[k]]
    /\ queued' = [k \in Keys |-> IF k \notin Acknowledged THEN queued[k]
                                 ELSE IF free(k) THEN Tail(line(k)) ELSE line(k)]
    /\ blocked' = TRUE
    /\ satisfied' = FALSE
    /\ UNCHANGED deferred

-----------------------------------------------------------------------------
Init ==
    /\ block = [k \in Keys |-> [at |-> "resident", shows |-> 0, dirty |-> FALSE]]
    /\ revision = [k \in Keys |-> 0]
    /\ written = [k \in Keys |-> 0]
    /\ active = [k \in Keys |-> NoAttempt]
    /\ queued = [k \in Keys |-> <<>>]
    /\ checkpoint = NoCheckpoint /\ last_checkpoint_outcome = "none"
    /\ blocked = FALSE /\ force_checkpoint_requested = FALSE /\ satisfied = FALSE
    /\ deferred = {} /\ deferred_checkpoint_dispatch = FALSE
    /\ tasks = {} /\ completed = <<>> /\ inbox = <<>>
    /\ stored = [k \in Keys |-> 0] /\ durable = [k \in Keys |-> 0] /\ faults = 0
    /\ pc = "idle" /\ call = "process" /\ stage = "capture"
    /\ attempts = 0 /\ flushed = FALSE /\ life = "up"
    /\ promised = [k \in Keys |-> 0]

(* The runner: the serial lane runs one persistence task at a time. *)

\* how a task may end, and whether its call to the stream took effect
Outcomes == {"ok", "err", "before", "entered"}
MayTakeEffect(outcome) ==
    CASE outcome = "ok" -> {TRUE} [] outcome = "before" -> {FALSE} [] OTHER -> BOOLEAN

Complete(task, outcome) ==
    /\ tasks' = tasks \ {task}
    /\ completed' = Append(completed, [task |-> task, outcome |-> outcome])
    /\ faults' = faults + IF outcome = "ok" THEN 0 ELSE 1
    /\ faults' <= MaxFaults
    /\ UNCHANGED <<world, journal, checkpoint, last_checkpoint_outcome, flags, deferrals, inbox,
                   owner>>

\* SaveBlockDataTask::run
RunSave(task, outcome) ==
    /\ task.kind = "save"
    /\ Complete(task, outcome)
    /\ \E wrote \in MayTakeEffect(outcome) :
         stored' = IF wrote THEN [stored EXCEPT ![task.key] = task.revision] ELSE stored
    /\ UNCHANGED durable

\* FlushVoxelStreamTask::run; a flush that fails may have flushed a part
RunFlush(task, outcome) ==
    /\ task.kind = "flush"
    /\ Complete(task, outcome)
    /\ \E K \in CASE outcome = "ok" -> {Keys} [] outcome = "before" -> {{}} [] OTHER -> SUBSET Keys :
         durable' = [k \in Keys |-> IF k \in K THEN stored[k] ELSE durable[k]]
    /\ UNCHANGED stored

\* LoadBlockForTerrainTask::run, in the parallel lane
RunLoad(k) ==
    /\ block[k].at = "requested"
    /\ block' = [block EXCEPT ![k].at = "read", ![k].shows = stored[k]]
    /\ UNCHANGED <<revision, journal, checkpoint, last_checkpoint_outcome, flags, deferrals,
                   runner, stream, owner>>

RunPersistence ==
    \E task \in tasks, outcome \in Outcomes : RunSave(task, outcome) \/ RunFlush(task, outcome)

(* The owner's calls that edit and page. *)

\* an edit of a resident block
Edit(k) ==
    /\ pc = "idle" /\ life = "up"
    /\ block[k].at = "resident"
    /\ revision[k] < MaxRevision[k]
    /\ revision' = [revision EXCEPT ![k] = @ + 1]
    /\ block' = [block EXCEPT ![k].shows = revision[k] + 1, ![k].dirty = TRUE]
    /\ UNCHANGED <<journal, checkpoint, last_checkpoint_outcome, flags, deferrals, runner,
                   stream, owner>>

TakeCompletions == inbox' = inbox \o completed /\ completed' = <<>>

\* try_process and try_drain_completed_tasks begin with the completions
Call(c) ==
    /\ pc = "idle" /\ life = "up"
    /\ c \in Calls \cap {"process", "drain"}
    /\ pc' = "drain" /\ call' = c
    /\ TakeCompletions
    /\ UNCHANGED <<world, journal, checkpoint, last_checkpoint_outcome, flags, deferrals, tasks,
                   stream, stage, attempts, flushed, life, promised>>

Leaves(place) == pc' = place /\ UNCHANGED <<call, stage, attempts, flushed, life, promised>>

Absent == [at |-> "absent", shows |-> 0, dirty |-> FALSE]

\* try_run_variable_transaction: the viewers moved; a block that leaves goes to
\* the journal when dirty and its load is cancelled, a block that returns is
\* requested from the stream
Plan(K) ==
    /\ pc = "plan"
    /\ block' = [k \in Keys |-> IF k \notin K THEN block[k]
                                ELSE IF block[k] = Absent THEN [Absent EXCEPT !.at = "requested"]
                                ELSE Absent]
    /\ Enqueue({k \in K : block[k].dirty})
    /\ satisfied' = (satisfied /\ \A k \in K : ~block[k].dirty)
    /\ Leaves("dispatch")
    /\ UNCHANGED <<revision, written, checkpoint, last_checkpoint_outcome, blocked,
                   force_checkpoint_requested, deferrals, runner, stream>>

(* legacy_variable_apply_durable_fifo: the completions, oldest first. *)

Flushing == call \in {"flush", "shutdown"}

Applies(outcome) ==
    /\ pc = "drain" /\ inbox # <<>>
    /\ Head(inbox).outcome = outcome
    /\ inbox' = Tail(inbox)
    /\ UNCHANGED <<world, tasks, completed, stream, owner>>

\* save_attempt_matches
Matching(k) ==
    /\ Head(inbox).task.kind = "save"
    /\ Head(inbox).task.key = k
    /\ InFlight(k) /\ active[k].revision = Head(inbox).task.revision

\* apply_save_response_for_attempt with Ok
AcknowledgeSave(k) ==
    /\ Applies("ok") /\ Matching(k) /\ written[k] = 0
    /\ written' = [written EXCEPT ![k] = active[k].revision]
    /\ active' = [active EXCEPT ![k] = NoAttempt]
    /\ UNCHANGED <<queued, checkpoint, last_checkpoint_outcome, flags, deferrals>>

\* apply_save_response_for_attempt with Err, restore_save_before_io
ReturnSave(k) ==
    /\ Applies("err") \/ Applies("before")
    /\ Matching(k)
    /\ active' = [active EXCEPT ![k] = Pending(@.revision, @.retry + 1)]
    /\ deferred' = deferred \cup {k}
    /\ UNCHANGED <<written, queued, checkpoint, last_checkpoint_outcome, flags,
                   deferred_checkpoint_dispatch>>

\* mark_save_indeterminate
MarkSave(k) ==
    /\ Applies("entered") /\ Matching(k)
    /\ active' = [active EXCEPT ![k].state = "Indeterminate"]
    /\ UNCHANGED <<written, queued, checkpoint, last_checkpoint_outcome, flags, deferrals>>

CheckpointMatches == Head(inbox).task.kind = "flush" /\ checkpoint.state = "WriteInFlight"

\* apply_save_checkpoint_response
EndCheckpoint(outcome) ==
    /\ outcome \in {"ok", "err"}
    /\ Applies(outcome) /\ CheckpointMatches
    /\ IF outcome = "ok" THEN SettleCheckpoint ELSE RestoreCheckpoint
    /\ checkpoint' = NoCheckpoint
    /\ last_checkpoint_outcome' = IF checkpoint.explicit THEN outcome ELSE last_checkpoint_outcome
    /\ force_checkpoint_requested' = FALSE
    /\ UNCHANGED deferred_checkpoint_dispatch

\* restore_checkpoint_before_io
ReturnCheckpoint ==
    /\ Applies("before") /\ CheckpointMatches
    /\ checkpoint' = [checkpoint EXCEPT !.state = "Pending", !.retry = @ + 1]
    /\ deferred_checkpoint_dispatch' = TRUE
    /\ UNCHANGED <<journal, last_checkpoint_outcome, flags, deferred>>

\* mark_checkpoint_indeterminate
MarkCheckpoint ==
    /\ Applies("entered") /\ CheckpointMatches
    /\ checkpoint' = [checkpoint EXCEPT !.state = "Indeterminate"]
    /\ UNCHANGED <<journal, last_checkpoint_outcome, flags, deferrals>>

\* try_legacy_variable_apply_load_response
ApplyLoad(k) ==
    /\ pc = "drain"
    /\ block[k].at = "read"
    /\ block' = [block EXCEPT ![k].at = "resident"]
    /\ UNCHANGED <<revision, journal, checkpoint, last_checkpoint_outcome, flags, deferrals,
                   runner, stream, owner>>

ApplyCompletion ==
    \/ \E k \in Keys : AcknowledgeSave(k) \/ ReturnSave(k) \/ MarkSave(k) \/ ApplyLoad(k)
    \/ \E outcome \in Outcomes : EndCheckpoint(outcome)
    \/ ReturnCheckpoint \/ MarkCheckpoint

\* every completion was applied; loads that end meanwhile wait for the next pass
EndPass ==
    /\ pc = "drain" /\ inbox = <<>>
    /\ Flushing => \A k \in Keys : block[k].at # "read"
    /\ Leaves(IF call = "process" THEN "plan" ELSE "dispatch")
    /\ UNCHANGED <<world, journal, checkpoint, last_checkpoint_outcome, flags, deferrals, runner,
                   stream>>

(* The end of a pass: what became dispatchable is dispatched. *)

\* dispatch_queued_saves_except, dispatch_pending_checkpoint
EndDrain ==
    /\ pc = "dispatch"
    /\ LET K == IF Flushing \/ ~MayDispatch THEN {}
                ELSE {k \in Keys : Dispatchable(k, MaxAutomaticAttempts)} \ deferred IN
       IF checkpoint = NoCheckpoint \/ deferred_checkpoint_dispatch
       THEN Dispatch(K) /\ UNCHANGED checkpoint
       ELSE DispatchCheckpoint /\ UNCHANGED active
    /\ deferred' = {} /\ deferred_checkpoint_dispatch' = FALSE
    /\ Leaves(CASE call = "process" -> "checkpoint" [] call = "drain" -> "idle" [] OTHER -> stage)
    /\ UNCHANGED <<world, written, queued, last_checkpoint_outcome, flags, completed, inbox, stream>>

SuccessorBlocked_Forgotten == FALSE
SuccessorBlocked == \E k \in Keys : written[k] # 0 /\ queued[k] # <<>>

CheckpointNeeded ==
    /\ MayDispatch
    /\ \A k \in Keys : ~InFlight(k) /\ ~InDoubt(k)
    /\ \/ force_checkpoint_requested
       \/ SuccessorBlocked
       \/ Cardinality({k \in Keys : written[k] # 0}) >= Threshold

\* checkpoint_acknowledged_saves_if_needed
CheckpointIfNeeded ==
    /\ pc = "checkpoint"
    /\ IF CheckpointNeeded THEN BeginCheckpoint(FALSE)
       ELSE UNCHANGED <<checkpoint, last_checkpoint_outcome, tasks>>
    /\ Leaves("idle")
    /\ UNCHANGED <<world, journal, flags, deferrals, completed, inbox, stream>>

(* flush_pending_saves and shutdown_and_flush. *)

\* begin_shutdown_attempt closes admission and cancels the requests
BeginFlush(c) ==
    /\ pc = "idle" /\ life # "down"
    /\ c \in Calls \cap {"flush", "shutdown"}
    /\ c = "flush" => life = "up"
    /\ pc' = "wait" /\ call' = c /\ stage' = "capture"
    /\ life' = IF c = "shutdown" THEN "closing" ELSE life
    /\ block' = IF c = "flush" THEN block
                ELSE [k \in Keys |-> IF block[k].at = "resident" THEN block[k]
                                     ELSE Absent]
    /\ UNCHANGED <<revision, journal, checkpoint, last_checkpoint_outcome, flags, deferrals, runner,
                   stream, attempts, flushed, promised>>

\* wait_for_all_tasks
Wait ==
    /\ pc = "wait"
    /\ tasks = {} /\ \A k \in Keys : block[k].at # "requested"
    /\ Leaves("drain")
    /\ TakeCompletions
    /\ UNCHANGED <<world, journal, checkpoint, last_checkpoint_outcome, flags, deferrals, tasks,
                   stream>>

\* try_capture_variable_resident_saves
Capture ==
    /\ pc = "capture"
    /\ Enqueue({k \in Keys : block[k].dirty})
    /\ block' = [k \in Keys |-> [block[k] EXCEPT !.dirty = FALSE]]
    /\ flushed' = (satisfied /\ JournalEmpty)
    /\ satisfied' = FALSE
    /\ pc' = "start"
    /\ UNCHANGED <<revision, written, checkpoint, last_checkpoint_outcome, blocked,
                   force_checkpoint_requested, deferrals, runner, stream,
                   call, stage, attempts, life, promised>>

\* the call returns; what Ok vouches for is remembered
Return(ok) ==
    /\ pc' = "idle"
    /\ life' = IF ok /\ call = "shutdown" THEN "down" ELSE life
    /\ promised' = IF ok THEN revision ELSE promised
    /\ UNCHANGED <<call, stage, attempts, flushed>>

NothingToFlush_Trusting == flushed
NothingToFlush == flushed /\ JournalEmpty

AnyInDoubt == checkpoint.state = "Indeterminate" \/ \E k \in Keys : InDoubt(k)

\* flush_save_journal
StartFlush ==
    /\ pc = "start"
    /\ IF AnyInDoubt THEN Return(FALSE) /\ UNCHANGED <<active, blocked>>
       ELSE /\ blocked' = FALSE
            /\ active' = [k \in Keys |-> IF IsPending(k) THEN [active[k] EXCEPT !.retry = 0]
                                         ELSE active[k]]
            /\ IF NothingToFlush THEN Return(TRUE)
               ELSE /\ pc' = "attempt" /\ attempts' = 0
                    /\ UNCHANGED <<call, stage, flushed, life, promised>>
    /\ UNCHANGED <<world, written, queued, checkpoint, last_checkpoint_outcome,
                   force_checkpoint_requested, satisfied, deferrals, runner, stream>>

ThenWait(next) == pc' = "wait" /\ stage' = next /\ UNCHANGED <<call, attempts, flushed, life, promised>>

\* a round of flush_save_journal_with_attempts, at any retry count
Attempt ==
    /\ pc = "attempt" /\ attempts < MaxExplicitAttempts
    /\ Dispatch(IF MayDispatch THEN {k \in Keys : IsPending(k) /\ written[k] = 0} ELSE {})
    /\ ThenWait("judge")
    /\ UNCHANGED <<world, written, queued, checkpoint, last_checkpoint_outcome, flags, deferrals,
                   completed, inbox, stream>>

NextRound == pc' = "attempt" /\ attempts' = attempts + 1 /\ UNCHANGED <<call, stage, flushed, life, promised>>

\* the round's saves have all been answered
Judge ==
    /\ pc = "judge"
    /\ IF \A k \in Keys : active[k] = NoAttempt THEN Leaves("begin") ELSE NextRound
    /\ UNCHANGED <<world, journal, checkpoint, last_checkpoint_outcome, flags, deferrals, runner,
                   stream>>

\* no round is left: what was acknowledged is flushed all the same
LastRound ==
    /\ pc = "attempt" /\ attempts = MaxExplicitAttempts
    /\ Leaves(IF \E k \in Keys : written[k] # 0 THEN "begin" ELSE "finish")
    /\ UNCHANGED <<world, journal, checkpoint, last_checkpoint_outcome, flags, deferrals, runner,
                   stream>>

\* flush_acknowledged_saves: the checkpoint in flight is adopted, or one begins
BeginFlushCheckpoint ==
    /\ pc = "begin"
    /\ IF checkpoint = NoCheckpoint THEN BeginCheckpoint(TRUE)
       ELSE /\ checkpoint' = [checkpoint EXCEPT
                 !.retry = IF checkpoint.state = "Pending" THEN 0 ELSE @, !.explicit = TRUE]
            /\ UNCHANGED <<last_checkpoint_outcome, tasks>>
    /\ Leaves("await")
    /\ UNCHANGED <<world, journal, flags, deferrals, completed, inbox, stream>>

RetriesSpent_OffByOne == checkpoint.retry > CheckpointLimit
RetriesSpent == checkpoint.retry >= CheckpointLimit

\* its loop: the outcome of the checkpoint is taken, or the checkpoint helped on
AwaitOutcome ==
    /\ pc = "await" /\ last_checkpoint_outcome # "none"
    /\ last_checkpoint_outcome' = "none"
    /\ CASE last_checkpoint_outcome = "err" -> Return(FALSE)
         [] last_checkpoint_outcome # "err" /\ attempts = MaxExplicitAttempts -> Leaves("finish")
         [] last_checkpoint_outcome # "err" /\ attempts # MaxExplicitAttempts /\ JournalEmpty ->
              Return(TRUE)
         [] OTHER -> NextRound
    /\ UNCHANGED <<world, journal, checkpoint, flags, deferrals, runner, stream>>

AwaitCheckpoint ==
    /\ pc = "await" /\ last_checkpoint_outcome = "none"
    /\ \/ /\ checkpoint.state = "WriteInFlight" \/ (checkpoint.state = "Pending" /\ ~RetriesSpent)
          /\ DispatchCheckpoint
          /\ ThenWait("await")
       \/ /\ checkpoint.state = "Indeterminate" \/ (checkpoint.state = "Pending" /\ RetriesSpent)
          /\ Return(FALSE)
          /\ UNCHANGED <<checkpoint, tasks>>
    /\ UNCHANGED <<world, journal, last_checkpoint_outcome, flags, deferrals, completed, inbox, stream>>

\* UnsavedBlocks
Finish ==
    /\ pc = "finish"
    /\ Return(FALSE)
    /\ UNCHANGED <<world, journal, checkpoint, last_checkpoint_outcome, flags, deferrals, runner,
                   stream>>


(* try_resolve_indeterminate_persistence: somebody found out what the stream   *)
(* did; a caller who says "written" is believed, so only true answers count.   *)

MayResolve == pc = "idle" /\ "resolve" \in Calls

\* AssumeNotWrittenAndRetry: pending again, and dispatched if that is allowed
RetrySave(k) ==
    /\ MayResolve /\ InDoubt(k)
    /\ LET goes == MayDispatch /\ written[k] = 0 /\ active[k].retry < MaxAutomaticAttempts IN
       /\ active' = [active EXCEPT ![k].state = IF goes THEN "WriteInFlight" ELSE "Pending"]
       /\ tasks' = tasks \cup {SaveTask(j) : j \in {k} \cap (IF goes THEN Keys ELSE {})}
    /\ UNCHANGED <<world, written, queued, checkpoint, last_checkpoint_outcome, flags, deferrals,
                   completed, inbox, stream, owner>>

\* AssumeWrittenAndFlush: acknowledged, and a checkpoint is wanted
AcceptSave(k) ==
    /\ MayResolve /\ InDoubt(k) /\ written[k] = 0
    /\ stored[k] = active[k].revision
    /\ written' = [written EXCEPT ![k] = active[k].revision]
    /\ active' = [active EXCEPT ![k] = NoAttempt]
    /\ force_checkpoint_requested' = TRUE
    /\ pc' = "checkpoint" /\ call' = "resolve"
    /\ UNCHANGED <<world, queued, checkpoint, last_checkpoint_outcome, blocked, satisfied,
                   deferrals, runner, stream, stage, attempts, flushed, life, promised>>

\* the same for a checkpoint
RetryCheckpoint ==
    /\ MayResolve /\ checkpoint.state = "Indeterminate"
    /\ LET goes == checkpoint.retry < CheckpointLimit IN
       /\ checkpoint' = [checkpoint EXCEPT !.state = IF goes THEN "WriteInFlight" ELSE "Pending"]
       /\ tasks' = tasks \cup (IF goes THEN {FlushTask} ELSE {})
    /\ UNCHANGED <<world, journal, last_checkpoint_outcome, flags, deferrals, completed, inbox,
                   stream, owner>>

AcceptCheckpoint ==
    /\ MayResolve /\ checkpoint.state = "Indeterminate"
    /\ \A k \in Keys : durable[k] >= checkpoint.saves[k]
    /\ SettleCheckpoint
    /\ checkpoint' = NoCheckpoint
    /\ last_checkpoint_outcome' = "ok"
    /\ force_checkpoint_requested' = FALSE
    /\ UNCHANGED <<world, deferred_checkpoint_dispatch, runner, stream, owner>>

-----------------------------------------------------------------------------
\* what the owner does inside a call
Proceed ==
    \/ ApplyCompletion \/ EndPass \/ EndDrain \/ CheckpointIfNeeded
    \/ \E K \in SUBSET Keys : Plan(K)
    \/ Wait \/ Capture \/ StartFlush \/ Attempt \/ Judge \/ LastRound
    \/ BeginFlushCheckpoint \/ AwaitOutcome \/ AwaitCheckpoint \/ Finish

Resolve == \/ \E k \in Keys : RetrySave(k) \/ AcceptSave(k)
           \/ RetryCheckpoint \/ AcceptCheckpoint

Next ==
    \/ \E k \in Keys : Edit(k) \/ RunLoad(k)
    \/ \E c \in Calls : Call(c) \/ BeginFlush(c)
    \/ Proceed \/ Resolve
    \/ RunPersistence

Spec == Init /\ [][Next]_vars

\* a call runs to its end, the workers run their tasks, and process is called
\* again and again
FairSpec ==
    /\ Spec
    /\ WF_vars(Proceed) /\ WF_vars(RunPersistence) /\ WF_vars(\E k \in Keys : RunLoad(k))
    /\ SF_vars(Call("process"))

-----------------------------------------------------------------------------
(* The types of the variables; no checkpoint is tried more often than the      *)
(* limit of whoever waits for it allows.                                       *)
Revisions == UNION {0..MaxRevision[k] : k \in Keys}
Retries   == Nat
Saves == [state : {"None", "Pending", "WriteInFlight", "Indeterminate"}, revision : Revisions,
          retry : Retries]
Tasks == [kind : {"save"}, key : Keys, revision : Revisions] \cup {FlushTask}

TypeOK ==
    /\ block \in [Keys -> [at : {"absent", "requested", "read", "resident"}, shows : Revisions,
                           dirty : BOOLEAN]]
    /\ revision \in [Keys -> Revisions] /\ written \in [Keys -> Revisions]
    /\ active \in [Keys -> Saves] /\ queued \in [Keys -> Seq(Saves)]
    /\ checkpoint \in [state : {"None", "Pending", "WriteInFlight", "Indeterminate"},
                       saves : [Keys -> Revisions], retry : 0..CheckpointLimit,
                       explicit : BOOLEAN]
    /\ last_checkpoint_outcome \in {"none", "ok", "err"}
    /\ {blocked, force_checkpoint_requested, satisfied, deferred_checkpoint_dispatch, flushed}
         \subseteq BOOLEAN
    /\ deferred \subseteq Keys
    /\ tasks \subseteq Tasks
    /\ {completed, inbox} \subseteq Seq([task : Tasks, outcome : Outcomes])
    /\ stored \in [Keys -> Revisions] /\ durable \in [Keys -> Revisions]
    /\ promised \in [Keys -> Revisions] /\ faults \in 0..MaxFaults
    /\ pc \in {"idle", "drain", "plan", "dispatch", "checkpoint", "wait", "capture", "start",
               "attempt", "judge", "begin", "await", "finish"}
    /\ call \in {"process", "drain", "flush", "shutdown", "resolve"}
    /\ stage \in {"capture", "judge", "await"} /\ attempts \in 0..MaxExplicitAttempts
    /\ life \in {"up", "closing", "down"}

(* The saves of a block stand in the order of its edits: what is written is    *)
(* older than what is being written, that is older than what is queued, and a  *)
(* newer save never starts before the older one is durable.                    *)
Line(k) == (IF written[k] = 0 THEN <<>> ELSE <<written[k]>>)
           \o (IF active[k] = NoAttempt THEN <<>> ELSE <<active[k].revision>>)
           \o [i \in DOMAIN queued[k] |-> queued[k][i].revision]

JournalOrdered == \A k \in Keys :
    /\ \A i, j \in DOMAIN Line(k) : i < j => Line(k)[i] < Line(k)[j]
    /\ \A i \in DOMAIN Line(k) : Line(k)[i] \in 1..revision[k]
    /\ written[k] # 0 => active[k] = NoAttempt

(* Every attempt in flight has exactly one task or completion on its way, and  *)
(* every task or completion finds its attempt: no answer is lost, none is      *)
(* applied to another attempt.  No save is in flight beside a checkpoint.      *)
Count(task) ==
    Cardinality({i \in DOMAIN completed : completed[i].task = task})
    + Cardinality({i \in DOMAIN inbox : inbox[i].task = task})
    + Cardinality({task} \cap tasks)
OnTheirWay == tasks \cup {completed[i].task : i \in DOMAIN completed}
                    \cup {inbox[i].task : i \in DOMAIN inbox}
AttemptsInFlight == {SaveTask(k) : k \in {j \in Keys : InFlight(j)}}
                    \cup {t \in {FlushTask} : checkpoint.state = "WriteInFlight"}

InFlightExact ==
    /\ OnTheirWay = AttemptsInFlight
    /\ \A task \in AttemptsInFlight : Count(task) = 1
    /\ FlushTask \in AttemptsInFlight => AttemptsInFlight = {FlushTask}

(* The journal and the tasks it has sent tell the same story: no save answers  *)
(* out of its turn, or into an entry that a checkpoint settles or restores.    *)
JournalIntact == TypeOK /\ JournalOrdered /\ InFlightExact

(* The last edit of a block is durable, or in the journal, or still in the     *)
(* resident block and known to be unsaved there.                               *)
Owed(k) == {Line(k)[i] : i \in DOMAIN Line(k)}
NoEditLost == \A k \in Keys :
    \/ durable[k] >= revision[k]
    \/ revision[k] \in Owed(k)
    \/ block[k].at = "resident" /\ block[k].dirty

(* When a flush or a shutdown returned Ok, every edit made before it survives  *)
(* a crash.                                                                    *)
FlushedIsDurable == \A k \in Keys : durable[k] >= promised[k]

(* No write puts an older edit of a block over a newer one, whatever fails and *)
(* is tried again.                                                             *)
StoredNeverRegresses == [][\A k \in Keys : stored'[k] >= stored[k]]_vars

(* The journal keeps its promise: a captured edit is owed until it, or a newer *)
(* one, is durable.                                                            *)
Ledger == INSTANCE SaveLedger WITH owed <- [k \in Keys |-> Owed(k)]
ImplementsLedger == Ledger!Spec

(* Every call of the owner returns: no flush waits for ever for a checkpoint   *)
(* nobody dispatches.                                                          *)
CallsReturn == pc # "idle" ~> pc = "idle"

(* As long as nothing fails and the terrain is not shut down, processing alone *)
(* writes every captured edit to the stream: a save queued behind one that is  *)
(* written but not flushed is not forgotten.                                   *)
Disturbed == faults > 0 \/ life # "up"
EverySaveWritten == \A k \in Keys, v \in Revisions :
    v \in Owed(k) /\ ~Disturbed ~> stored[k] >= v \/ Disturbed

(* voxel_terrain_core.rs:12919: the bounded save loop ends with a failed entry *)
(* or an empty journal.                                                        *)
LoopEndsWithFailures == pc = "finish" => JournalEmpty \/ \E k \in Keys : HasFailed(k)

(* doc/source/streams.md:3, streams persist voxel data: a block that was       *)
(* loaded again shows its last edit.                                           *)
ReloadSeesEdits == \A k \in Keys : block[k].at = "resident" => block[k].shows = revision[k]
=============================================================================
