# A TLA+ model of godot_voxel_rust

This directory is a verification project for the voxel engine core
(`src/rust/voxel-core`): TLA+ modules translated from the source, TLC
configurations that check them on small instances, and TLAPS proofs that hold
for every instance. Paths below are relative to `src/rust/voxel-core/src`.

## 1. The system

A terrain is a sparse set of voxel blocks in several levels of detail. One
owner thread (Godot's main thread, through `voxel-gdext`) calls the terrain: it
moves viewers, edits voxels, processes completions, flushes and shuts down. The
terrain hands work to a pool of worker threads (load a block, mesh a block, save
a block, flush the stream) and takes the completions back in the next call.
Workers and owner share the voxel data under spatial locks.

    owner calls --> VoxelTerrainCore --tasks--> ThreadedTaskRunner --> VoxelStream
                        |    ^                        |                (region files)
                   edits|    +------ completions -----+
                        v                             |
                  SharedVoxelData <--SpatialLock3D----+

### Inventory

Each entry names the state a component keeps, its operations, whom it talks to,
what is hard about it and what makes it correct.

**Threaded task runner** (`tasks/threaded_task_runner.rs`, `threaded_task.rs`).
State: the ingress list of linked batches, the priority queue, the postponed
queue, completed tasks, running and refreshing counters, the serial flag, a
counting semaphore. Operations: link, publish, wake; the worker loop (wait,
drain, refresh priorities outside the lock, pick, run, complete or postpone);
wait, resize, shutdown, drop, drain. Hard: the permits and the queue live under
different locks, the queue is detached while its priorities are evaluated,
serial tasks spend permits in vain. Correct when serial tasks exclude each
other, no task is lost or run twice, no wake-up is lost, waits are sound, and
every task ends.

**Spatial locks** (`thread/mod.rs`, `SpatialLock3D`). State: a slab of entries,
the index of the active ones, a free list, one mutex and one condition
variable. Operations: lock, try-lock and unlock a box for reading or writing, a
batch of boxes for writing. Hard: guards find their entry by value, entries
move, all waiters share one condition variable. Correct when conflicting
regions are never held at once and nobody sleeps beside a free region. The file
also holds a recursive mutex, a spin lock and wrappers of `std::sync`.

**Save journal** (`terrain/voxel_terrain_core.rs` from 904 and 12228 on,
`streams/save_block_data_task.rs`, `flush_voxel_stream_task.rs`,
`persistence_task.rs`). State: for each block the save that is written but not
flushed, the active attempt and the queued newer ones; the checkpoint in flight;
retry counters and flags. Operations: capture on unload and on flush, dispatch,
acknowledgement, restore, checkpoint, flush, shutdown, resolution of
indeterminate operations. Hard: tasks fail or panic before, in or after the
stream's call, answers arrive late, a checkpoint covers a snapshot of the
journal. Correct when no edit is lost, no older edit overwrites a newer one, and
Ok means durable.

**Terrain paging** (`terrain/voxel_terrain_core.rs`,
`streams/load_block_data_task.rs`). State: viewers, data and mesh block maps,
requests with tags, cancellation tokens, event queues. Operations: `try_process`
plans the blocks that enter and leave, dispatches loads and meshes and applies
their answers. Hard: an answer may belong to a request that was cancelled or
made again. Correct when every viewed block is eventually resident and meshed at
its newest revision, and no stale answer is applied.

**Variable-LOD coverage** (`terrain/variable_lod_coverage.rs`,
`coverage_hold_ledger.rs`, `clipbox_coordinator.rs`). State: demand counts of
each node, holds that keep resources during a split or a join, refcounts.
Operations: transactional updates by batches. Hard: two-phase ownership across
batches. Correct when the visible nodes cover the demanded area without holes
or overlaps and no resource is freed while it is held.

**LOD geometry** (`terrain/lod_clipbox.rs`, `lod_octree.rs`). Pure integer
arithmetic on boxes and a sparse octree; correct when boxes nest and subdivide
exactly, also at the ends of the integer range.

**Shared voxel data** (`storage/voxel_data.rs`, `voxel_data_map.rs`,
`voxel_data_block.rs`). State: a block map per LOD with key revisions, settings
with a revision, a mutation gate, one spatial lock per LOD. Operations: prepare
and commit a transaction, edit, view and unview, update LODs, close and reopen
the gate. Hard: what is prepared without locks is committed against concurrent
writers; several locks are taken in one order. Correct when commits are atomic
and see the revisions they were prepared for, and nobody deadlocks.

**Region files** (`streams/region/`). State: a lookup table and a sector map in
memory and on disk, a registry of shared handles. Operations: open, load, save
with compaction, flush, close. Hard: several writes make one save; a crash or a
failing write in the middle. Correct when the table and the sectors agree and
every saved block is read back.

**Replication** (`terrain/replication.rs`, `area_finder.rs`). State: the areas
of the peers, the revisions sent to and applied by each. Operations: set an
area, remove a peer, poll, apply a frame, reset. Hard: lost, duplicated and
reordered frames; areas left and entered again. Correct when a client converges
to the server's edited blocks.

**Engine registry and task dependencies** (`engine/`,
`tasks/async_dependency_tracker.rs`, `cancellation_token.rs`). State:
generational slot maps, viewer priorities, a counter of outstanding tasks with
the tasks that follow. Correct when handles never alias and followers run once,
after the last predecessor.

**Sequential parts**: voxel buffers and the memory pool, stream backends in
memory, codecs (`block_serializer`, `compressed_data`, `variant_wire`,
`instance_data`), meshers, generators, edition, modifiers, instancing, parsing,
I/O helpers, mathematics. Each works on its arguments; the hazards are numeric
or in byte layouts.

**Godot binding** (`rust/voxel-gdext`) and **harnesses** (tsan, fuzz, parity):
glue and tests.

## 2. Modules

| Module | What it is |
|---|---|
| `TaskRunner` | the thread pool, one action per critical section |
| `TaskPool` | what the pool promises: the life of each task |
| `TaskRunnerProofs` | theorems about `TaskRunner` |
| `SpatialLock` | `SpatialLock3D` with its slab and condition variable |
| `RegionLock` | what the lock promises: no conflicting holders |
| `SpatialLockProofs` | theorems about `SpatialLock` |
| `SaveJournal` | owner, journal, persistence tasks and stream |
| `SaveLedger` | what the journal promises: what is owed, until it is durable |
| `SaveJournalProofs` | theorems about `SaveJournal` |
| `RegionFile` | one region file: sectors, tables, every file call of a save |
| `RegionFileProofs` | theorems about `RegionFile` |
| `VoxelData` | `SharedVoxelData`: drafts, commits, the gate and the locks |
| `AtomicStore` | what the store promises: mutations happen at once |
| `VoxelDataProofs` | theorems about `VoxelData` |
| `TerrainPaging` | viewers, load requests and their answers in one LOD |
| `TerrainMeshing` | the meshes of that LOD: demand, requests, tasks and what edits do to them |
| `TerrainProofs` | theorems about `TerrainPaging` and `TerrainMeshing` |
| `Replication` | server, network and client around the two modules above |
| `ReplicationProofs` | theorems about the composition |
| `VariableLodCoverage` | which nodes of the LOD tree are shown: one reconciliation, as operators |
| `VariableTerrain` | the ticks, answers and edits of a terrain with several LODs around it |
| `VariableTerrainProofs` | theorems about `VariableTerrain` |
| `MCTaskRunner`, `MCSpatialLock`, `MCSaveJournal`, `MCRegionFile`, `MCWorld`, `MCVariableTerrain` | the instances for TLC |

What composes what:

    AtomicStore <==implements== VoxelData <--extends-- Replication --INSTANCE--> TerrainMeshing
                                                                              --extends--> TerrainPaging
    RegionLock  <==implements== SpatialLock          (VoxelData takes RegionLock's promise)
    TaskPool    <==implements== TaskRunner           (paging and journal take its promise:
    SaveLedger  <==implements== SaveJournal           a task given to the pool is answered)
    VariableTerrain --extends--> VariableLodCoverage  (its loads and meshes are answered as well)

Definitions written `X_Something` beside a definition `X` are deliberately wrong
variants of it; the properties are tested against them, nothing else uses them.

### TaskRunner

The variables are the fields of `RunnerState` and `Shared` plus the place of
each worker (`pc`), the tasks it holds outside the lock (`held`) and the permits
it still owes (`posts`). `incoming` is `incoming_batches` flattened; `ready` is
the flag of a batch, `token` the permits its `PreparedTaskWake` still has to
post. A producer's `enqueue` is three actions: `Link`, `Publish`, `PostPermit`.
A worker goes `Wake`, then `Exit`, `StartRefresh`/`FinishRefresh`,
`PickPrioritized`, `PickPostponed` or `FindNothing`, then `Complete` or
`Postpone`, then `WorkerPost` for each permit. The owner's calls are `Call` and
the steps that follow (`CheckIdle`, `StopThreads`, `PostStop`, `Join`); a
`&mut` call is possible only while no wake token is alive (`Exclusive`), as the
borrow checker has it. Priorities, cancellation and what a task returns are
nondeterministic, since they are user code. A callback that panics is caught by
the runner and the task completes, which is the same step as a completion or a
cancellation here.

Time is abstracted: a refresh is due whenever the queue is not sorted or the
cadence allows it (`MayRefresh`), at most while `permits < MaxPermits`, because
each refresh may add surplus permits without end. `PeriodZero` is the setting
`Duration::ZERO`.

### SpatialLock

One action is one critical section of the registry's mutex. The slab is modelled
as it is in memory (slots, the active index, the free list threaded through the
vacant slots), since its bookkeeping is what can go wrong; boxes are abstract,
with a symmetric relation `Overlapping`. A single-box guard finds its entry
again by box and mode (`FirstMatch`), a batch guard remembers its slot.
`notify_all` returns every parked thread to its test. `TryAcquire` is the
try-lock family when it succeeds; when it fails nothing changes.

### SaveJournal

The owner is one thread, `pc` its place in the current call: `try_process`
(drain, plan, dispatch, checkpoint), `try_drain_completed_tasks` (drain,
dispatch), `flush_pending_saves` and `shutdown_and_flush` (wait, drain,
dispatch, capture, start, then rounds of attempt, wait, drain, judge and the
loop that awaits the checkpoint), `try_resolve_indeterminate_persistence`. Tasks
run meanwhile on the serial lane and may end four ways: Ok, an error, a panic
before the stream's call and a panic inside it; the last three may leave the
stream changed or not, as far as their kind allows. The stream is two functions:
`stored`, what a load returns, and `durable`, what a completed flush vouches
for. An edit is the next revision of its block. Attempts are named by key and
revision where the code adds ordinals; `InFlightExact`, a part of `JournalIntact`,
checks that this name is
never ambiguous. Nobody may resolve an operation as written when it was not:
the caller of that interface is believed by the code, so only true answers are
inputs of the model.

Viewers are abstracted to `Plan(K)`: any set of blocks may leave or return in
one transaction.

### RegionFile

One handle of one file. The disk is the header's state, the table as it was
written and the cells after the header; memory is the table (`lut`) and the
length of the reverse map. A `save_block` is `BeginSave` and then one action per
file call in the code's order: `Shift` and `Truncate` (remove_sectors_from_block),
`WritePayload` and `Pad` or `Rewrite`, `SaveHeader`. Each call may fail after any
part of it was written (`PartialWrite`, `PartialHeader`, `NoWrite`), with the
handle surviving with its table as it is, or with the process dying; `Open` reads
the table back as `load_header` and `validate_lut` do. What was written stays
written: the code never syncs, and a power loss that reorders writes is outside
the model. A payload is its cells, so a cut or overwritten block is seen when it
is read. `misalign` is `blocks_begin_offset % sector_size` (20 mod 512 in the
format of the code): sectors are counted from the end of the header, padding from
the start of the file. `acked`, `suspect`, `torn`, `gapped` and `stopped` record
what the properties need to say which promise was made; no guard reads them.

### VoxelData

A thread runs the calls of its `todo`. A call that prepares (`Drafting`) reads its
snapshots one map lock at a time (`Peek`), plans (`Prepare`), then takes the gate
(`Enter`, or `Refuse` after the shutdown closed admission), the spatial locks of
each LOD in ascending order (`TakeRegion`), the maps (`TakeMap`), compares
(`Check`), writes block after block (`WriteBlock`) and gives back the maps, then
the regions, then the gate (`Unlock`, `Leave`). Unconditional calls plan under the
locks; a mesh task's `read` takes regions and a map without the gate. A call may
fail wherever the code returns an error or finds no memory (`PrepareFails`,
`ReservationFails`, `CheckFails`). `Operations` are the kinds a prepared
transaction holds; the other kinds are the edit, set, view, unview, insert,
replace, mark, consume and LOD-propagation entry points, the settings change and
the shutdown's close and reopen. Spatial locks are taken at once and only when
free, which is what `RegionLock` says of them. Voxels are the revision that wrote
them. `before` and `touched` are history: the last state readers could see, and
what others wrote since a thread read it.

### TerrainPaging

The fixed-LOD transaction of the core. A tick applies viewer changes, answers and
dispatches together or fails and changes nothing; here each of them is an action,
disabled when the tick would fail (`Mismatch`, the overflow of the generation). A
viewer is counted in `block` (the storage) and `tracked` (the sidecar
`loaded_data_residency`) while its location is resident, in `loading` while it is
not. `Dispatch` hands every queued entry to the pool; an answer is `Stale`,
`Loaded`, `Dropped` (cancelled, failed or died: again under a new generation, up
to `MaxLoadRetries`) or `NotFound`. `views` is what the viewers really ask for.

### TerrainMeshing

`TerrainMeshing` extends `TerrainPaging` and repeats each of its steps together with
what the same handler does to the mesh entries. A mesh has a `Halo` of blocks: its
own and the neighbours the mesher looks at. `Demand` and `Forget` are the viewers of
meshes, `DispatchMeshes` hands the queued entries with a complete halo to the pool,
`Gather` is the task's one look at its halo under a read region, and an answer is
`MeshStale`, `MeshBuilt`, `MeshRefused` (dropped by the task) or `MeshDied`
(cancelled or panicked: again, up to `MaxMeshRetries`). An edit (`EditAndRemesh`)
gives a new revision and a new request to the meshes that look at the edited voxels
(`Reach`), a loaded block to those whose halo it completes and that ask for nothing,
and an installed one (`InstallAndRemesh`) only queues them. The number of viewers of
a mesh matters by the features they need together, so a demand is a set of features.
Revisions and request generations are two counters in the code that are only ever
compared for equality; here they are one, `issued`. `UnviewUnmeshed` says what
`compute_viewer_boxes` ensures: the data box of a viewer is its mesh box and one
block around it, hence the blocks of a halo outlast the mesh.

`shown` and `read` are history: what a mesh shows and a task has read of its halo,
`Fresh` until a block of it changes and `Old` from then on.

### Replication

`Replication` extends `VoxelData` (the server's store, with its threads) and
instantiates `TerrainMeshing` (the client's terrain, its paging included). `SetArea`, `PollScan`,
`PollBlock`, `PollEnds` are the server: the scan reads revisions under one map
lock, and each candidate's voxels under another, later one. `Deliver` and `Lose`
are the game's transport, which may lose, repeat and reorder; `Apply` is the
client's `apply_snapshot`, and `Client!InstallAndRemesh` what it does to the terrain.
`Rejoin` is `remove_peer` with the client's `reset`. `budget` bounds how often the
peer, the network and the client act.

### VariableLodCoverage and VariableTerrain

`VariableLodCoverage` has no state: `Reconcile(c, touched)` is `preview_reconcile`
for the nodes that have changed. `Draft` makes its passes over the paths from these
nodes to their roots in the code's order (`RootStep`, `JoinStep`, `SplitStep`,
`RetireStep`), each step on the frontier the ones before have projected; `Replay` is
`replay_topology_groups`, which sorts the groups and checks each against what is
there by then. The code keeps, for each branch of the tree, counts of the nodes that
are active, demanded and resident in it; here they are derived from the sets.

`VariableTerrain` is the terrain around it. A tick of `try_process` first applies the
answers that have arrived, one action each (`LoadEnds`, `MeshEnds`, `MeshRefused`),
then plans once, with the viewer moved (`Move`) or not (`Stay`). `ticking` keeps the
owner's edits out of a tick that has begun. `Plan` is the whole of
`try_run_variable_transaction`: the acceptances whose root is meshed, the
reconciliation, the physical slice with its comparisons (`SliceIsSound`), the new
entries (`Planned`), the dispatch of what is queued. If a comparison fails the tick
ends with an error and only the answers stay applied: that is `refused`, and it
stays. `Edit` is the owner's write to a voxel, which requests every mesh over it again,
in every LOD.

Revisions and requests are compared with others of the same node for equality only,
so `Fresh` is a number that neither the node's entry, its accepted snapshot nor a task
of it carries; this keeps the state space finite. A mesh reads one block of data, its
own. `current`, of an entry and of a task, is history: whether the voxels are still
those that were read. The model is of one feature, the visuals: with them alone every
join is complete when it is drafted, none is left pending (`FrontierIsIdeal` would see
it), and the groups that hold resources for a pending join do not occur.

## 3. Runs

| Run | Question | Result |
|---|---|---|
| `runner_lanes` | Do lanes, conservation, counters, wake-ups, waits, ingress order and the abstract pool hold in every interleaving? | holds |
| `runner_live` | Under fair threads, does every task complete and every owner call return beside a task that postpones itself for ever? | holds |
| `runner_stranded` | Does a postponed serial task run again? | violated |
| `spatial_lock` | Do exclusion, slab soundness, wake-ups and the abstract lock hold; is a thread starved only by others that keep locking? | holds |
| `journal_one` | With failures, panics, resolutions, flushes and shutdown: are a block's saves ordered, exact, never lost, durable when promised; do calls return; does processing alone write every edit? | holds |
| `journal_two` | Do two blocks under one checkpoint implement the ledger? | holds |
| `journal_reload` | Does a reloaded block show its last edit? | violated |
| `region_file` | Through growing, shrinking and moving saves, failing calls, crashes and reopenings: do the tables stay tight, do saved blocks read back, does the file open again? | holds |
| `world` | Calls racing at a store, a server replicating it over a bad network, a client that pages and meshes: are commits what was previewed, atomic to readers and free of deadlock, is a closed store quiet, is the client in sync, never back in time, with every viewer counted, every load ended and every mesh at rest up to date? | holds |
| `replicated_paging` | Can the client page over a replicated block? | violated |
| `variable_lod` | Under a viewer that approaches, leaves and returns, answers in any order, an edit or a refused mesh: has the frontier no hole and no overlap, is what is shown meshed as accepted, is only a fresh answer let through, does no tick fail, and is all sharp at rest? | holds |
| `variable_edits` | Is an edit always shown in the end? | violated |

### Bounds and why they are enough

`runner_lanes` has two workers, three tasks (a serial pair enqueued as one
batch and a parallel task that may be cancelled or postpone itself), two
producers and one owner call of any kind. The races of the pool are between two
actors at a time (link against drain, refresh against pick, hand-off against
hand-off, wait against everything), and the serial lane needs two serial tasks
and two workers to break. `MaxPermits = 2` admits optional refreshes with one
permit to spare. `runner_live` has one worker, so that one task can starve
another, a task in `Perpetual` and a serial one. Workers are symmetric in the
safety run only.

`spatial_lock` has three threads and three boxes in a row, the middle one
meeting both others; readers, writers, a batch of disjoint boxes, a batch whose
boxes overlap and an empty one. Three entries are the least with which
`swap_remove` moves an entry that is neither the removed one nor the only other,
and with which the free list holds more than one slot while one is active.

`journal_one` has one block and two edits: the second save queues behind the
first, which is written, in flight or in doubt. Two faults make an attempt fail
twice or a save and its checkpoint fail in turn. Limits are as small as they can
be while still differing (automatic 1, explicit 2 for saves; the code has 3 and
8), so that every limit is reached. `journal_two` has two symmetric blocks,
one edit each and two faults, for checkpoints that cover one, both or neither
block; its checkpoint threshold (2, the code has 8 blocks or 4 MiB) is reached.

`region_file` has three slots, sectors of two cells, payloads of two, three
and five cells (one to three sectors, the last beyond `MaxSectorCount = 2`, which
the code has at 255), four saves and two faults, with aligned and misaligned
sectors. Three slots are the least with a block before and a block behind the one
that moves; four saves fill the three slots and then grow, shrink, move or
overflow any of them, or save once more after a fault. Two faults are the least that
tear the header and then fail on what the torn table led to.

`variable_lod` has a tree of five nodes in three LODs: a root with two children, one
of which has two of its own. A viewer asks for nothing, the root, two levels or all of
them (`Views`), and leaves at once what it no longer asks for or keeps it all
(`Retains`); two moves (`Moves`) make it come and go, or sharpen and coarsen before
the meshes of the first move are there. `Others = 1` is one edit of the finest blocks
(`Brush`) or one refused mesh. A split below a split and a join across two levels
need three LODs; a sibling that is late needs two children. The run starts at rest
(`Scenes`) with the root shown or with all of the finest nodes shown: these are
states a new terrain reaches by one move and all its answers, and from which each
move has more to change than from the empty one.

`world` has two locations of LOD 0 and the LOD 1 block above the first, three
threads and nineteen scenarios: ten races of two or three calls that share a
location, a LOD, the settings or the admission (every kind of call and every
operation of a transaction occurs), five of a server with a peer whose area
moves, a network and a client, one of the client that pages alone, three of its meshes (an
edit while its tasks are under way, a viewer's coming and going, a block from the
server). `MaxLoadRetries = 1` (10 in
the code) reaches both ends of a retry, `MaxGeneration = 3` lets a location be asked for,
abandoned, asked for again and retried. The one mesh is built from both blocks, so
that an edit of a neighbour, a halo that is half there and a task that read before
or after an edit all occur; `MaxMeshRetries = 1` (10 in the code) reaches the end of
a retry, and `MaxIssued = 3` bounds refused tasks only, which the code asks for again
without a limit. The generation is checked for overflow in
the code, and the bound takes the place of that check. A client that edits its own
blocks while the server's arrive is left out of the scenarios: the code says
nothing of whose voxels win. Deadlock is unchecked in this run because its
threads finish their calls; `NoDeadlock` is the property instead.

A counter that the code lets grow is bounded by a constant named in its module:
`MaxPermits`, `MaxOwnerOps`, `MaxRevision`, `MaxFaults`, `MaxSaves`,
`MaxGeneration`, `MaxIssued`, `Moves`, `Others`.

Deadlock is checked where the system never stops. `TaskRunner` may stop: after
drop, or when all tasks are drained. `SaveJournal` stops after a shutdown;
`journal_two` makes no shutdown and checks it. `region_file` checks it.

### Fairness

*TaskRunner*: threads and the owner keep running (weak fairness), a wake token
is dropped at last, as a value is. Strong fairness on the two picks says that a
refresh does not come due on each single wake of a worker (it costs less than
the period of the cadence), which the code does not enforce when the period is
zero (section 5). Strong fairness on `Complete` says that a
task outside `Perpetual` does not postpone itself for ever.

*SpatialLock*: a thread inside a call runs on and a guard is dropped at last.
The lock promises no fairness among callers, and the property says no more than
that: a caller waits for ever only if another thread takes and releases guards
for ever.

*SaveJournal*: a call that began runs on, the workers run their tasks, and the
owner calls `try_process` again and again (strong fairness, since it can be
called only between other calls), as a game's main loop does.

*Replication*: weak fairness of `ClientLoads` says that the client's core ticks
and that its task runner answers every task it was given, which is what
`EveryTaskCompletes` shows of the runner. `LoadsEnd` needs no more: retries are
bounded by the code itself. Nothing is assumed of the network, the peer or the
threads at the server.

*VariableTerrain*: while a tick has begun or a mesh is queued for loaded data the
owner ticks on, and every load and every node's mesh is answered, as the pool
promises. A mesh may be refused once, within `Others`; an answer that is built is what
fairness asks for. The three conditions are weak fairness written out
(`[]<><<A>>_vars \/ []<>~Due`), because TLC would evaluate the planner to find
`ENABLED`. The viewer need not move.

## 4. Proofs

`TaskRunnerProofs` proves, for any workers, tasks, batches and calls,
`TypeCorrect`, `SerialExclusion` and `RunningCounted`. The inductive invariant
`IInv` is the type, the exclusion itself, the count of running workers and
`HandsOK`: a running worker holds exactly one task (otherwise ending a run could
lower the flag for a task that was not serial, or leave a second one held) and a
posting worker owes a permit (otherwise its counter would leave the naturals).
Each step is either a pick, the end of a run, or *quiet*: it changes neither the
flag nor the count nor any running worker (`QuietSteps`), so only the first two
need an argument. The assumptions are `SetsAssumption` and `BatchAssumption`.

A second invariant, `AInv`, says where the tasks are: each linked one in exactly one
of ingress, queues, hands, completed and drained (`PlacesOK`), no two workers holding
the same (`HandsApart`), the refresh counter being what refreshing workers hold, and
whatever is awaited linked. From it follow `TasksAreAccounted`, `IngressIsFifo`,
`WaitsForAll` (a wait that returns has seen nothing queued, running, detached for a
refresh or in the ingress: the tasks it awaited can then only be done) and `RunnerIsPool`: every step moves the life of
each task by an allowed step of `TaskPool` or not at all.

A third invariant, `WakeInv`, says what may wake a worker. The *chances* are the permits,
those still owed by a producer (`token`) or a worker (`posts`), and the workers that are
awake (`Chances`). `ChancesOK`: there is one for every task that waits outside the lane and
one for the lane, unless a serial task is running, whose end owes one. `StopsOK` covers the
workers that stop: only a drop stops a pool that has something to do. A refresh spends one
chance and posts one per task it keeps, so a refresh that discards everything may take the
lane's chance with it; that is why `ChancesOK` promises the lane nothing while the
waiting serial tasks are all postponed, and why `NothingElseStrands` excepts those. Where no serial
task postpones itself the exception is empty. Where a refresh discards nothing, `LoadOK`
counts the tasks being refreshed as chances to come and keeps one for the lane too. Together
they are `WakeupsKept`: `NoLostWakeup` whenever `Serial` and `Postponing` are disjoint, as
in `runner_lanes`, or nothing is cancelled or panics; `runner_stranded` shows that the
remaining case does lose one.

The owner's side is `ServedOK`. A parked owner waits for something: each step that
empties the queue or the ingress either notifies it or raises one of the two counters
it looks at, a refresh too, since it detaches at least one task. Once the pool stops,
the permits there and those `stop_threads` still owes are at least as many as the
workers that have to wake once more (`Unwoken`), because the only step a woken worker
then has is to exit. Hence `ThreadsAreWoken`, that the join finds no worker asleep for
want of a permit, and, with `WakeupsKept`, `ParkedOwnersAreServed`: while an owner is
parked on a pool that has threads, a worker is up or has a permit, or a producer has
yet to publish or to post.

`SpatialLockProofs` proves, for any threads, boxes and requests, `Invariance`,
`MutualExclusion`, `SlabIsGuards` and `NoneAsleep`. `Exclusion` speaks of guards
and the code checks entries, so the invariant ties them: `IndexOK` (the index of
active slots and the links of the slots are inverse), `FreeOK` (some walk along the
links starts at the head of the free list, ends at none and meets every vacant slot
once, so an insert never overwrites an entry and no slot is lost), `Apart` (no two
entries conflict), `CountOK` (the counter is the number of boxes held) and `Owned`:
some assignment gives every holder a taken slot of its own that holds its request,
a batch guard the slot it remembers, and leaves no taken slot without a holder. The
walk replaces an induction along the list: a release puts a link before it, an
insert takes its first link away. The assignment is what `unlock` needs: a reader may give
back the slot of another reader of the same box, and the proof of `ReleaseStep`
then lets the other take over the releaser's slot, the two entries being equal.
`InsertSlab` and `RemoveSlab` are the slab's own lemmas; a step that touches
neither the registry nor a holder is quiet (`QuietStep`). The assumptions are
`BoxAssumption` and `RequestAssumption`. `SlabIsGuards` counts: the walk has as many
steps as there are vacant slots, and of every request there are as many entries as
holders, by the bijection that `Owned` is.

`SlabImplementsRegions` maps the lock to `RegionLock`: a thread's regions are those
of its guard, so every step takes regions that conflict with nobody's, gives back
the caller's own or is a stutter.

`SaveJournalProofs` proves `JournalIsIntact`, `EditsAreKept`, `FlushIsDurable`,
`WritesNeverRegress` and `JournalIsLedger`, for any blocks, revisions, limits and
faults, from `JournalAssumption`; it includes
`MaxAutomaticCheckpoints <= MaxExplicitCheckpoints`, the code's 3 and 8
(`voxel_terrain_core.rs:1245`): a flush takes over a
checkpoint with the retries it has behind it, which must be within its own limit. The invariant `IInv`
reads a block's entry as a line of owed revisions, the written save, the active attempt
and the queue, in the order of the edits (`LineOK`); the stream is never ahead of that
line and what it holds is owed or durable (`StreamOK`); an edit not captured is newer
than all of it (`EditOK`). A checkpoint in flight excludes saves in flight, and the
saves it stands for are still the written ones (`CheckpointOK`). Each attempt has one
task or one completion (`TravelOK`), and what a completion says of the stream *stays*
true until it is applied (`AnswersOK`): this is the argument that a checkpoint settles
only what it covered, since no save may start while it is under way. `OwnerOK` is the
control of a flush: after its wait nothing is in flight, after its capture nothing is
dirty, so that Ok means durable. `JournalIsLedger` shows that every step settles,
captures or writes one block of `SaveLedger`, or stutters.

Its last part is the argument why a call of the owner cannot go on for ever
(`CallsAreFinite`), as an action property: while a call is under way, every step of the
owner, of a worker and of a load lowers one of six numbers and leaves those before it
alone, or ends the call. They are, in this order, what a flush has before its first
round (`Prelude`), the rounds it has left, the half of the round it is in, the answers of
the checkpoint it may still wait for (`Answers`: one per try that the limit leaves), its
place in a wait, and the tasks, completions and loads on their way (`Work`). That a wait
brings an answer needs `AwaitOK`: an awaiting flush has the outcome, or a checkpoint that
is marked explicit and so will leave one; and that its drain, which empties the inbox,
leaves no checkpoint in flight (`NothingInFlight`). `CallGoesOn` adds that
no completion arrives without its attempt. What `CallsReturn` asks for besides is the
fairness of the steps.

`NoSaveForgotten` is the same for `EverySaveWritten`: between two calls, with nothing
under way and no failure so far, the save of every edit that the stream has not got is
one that the next pass dispatches, or the pass begins a checkpoint, which is what a
save behind a written one waits for. `FaultlessOK` carries it: without a fault no retry
is counted, nothing is blocked or in doubt, and what a pass defers it defers for
itself alone.

`RegionFileProofs` proves `TablesAreTight`, `FileOpens` and `SavedAreReadBack` for any
slots, sector size, payloads, saves and faults, from `RegionAssumption`. `ShrinkTight` is the shift as
arithmetic: taking n sectors from a block and moving every later entry down by n leaves
a table that again gives each of the n fewer sectors to one block, and `AppendTight`
is its opposite. The invariant says that the save under way frees sectors only of the
entry it found, that this entry stays as it was until the file is cut, and that a
payload is appended only for a slot without one (`OpOK`). For the opening, `OInv` bounds
the file from below: as long as no save was stopped while it moved sectors, the data
reach into the last sector of both tables (`Reaches`). They need not fill it, since
padding counts from another origin, so the shift must be shown to cut no deeper than
that (`ReachesLess`), and the capacity an opening computes to round up
(`ReachesCapacity`). The third invariant, `KInv`, follows the cells of every block that
no stopped save has put in doubt (`Kept`): they stand where the table in memory says,
and, between the shift and the cut, where it will say, below the cut (`KeptOK`); the
table on disk has the same entry, so that a reopening finds them (`SameOK`). A write of a
save goes beside them because the table is tight (`WritesApart`), what is moved is the
whole of what stood behind (`ShiftMoves`), and the cut leaves a block before the one that
shrinks whole because a payload that is `Clear` of the padding ends `misalign` cells before
its last sector does, which is what the file may lack (`ClearFits`, `ShiftLeaves`).

`VoxelDataProofs` proves `StoreTypes`, `CommitsOnWhatWasSeen`,
`ClosedStoreIsQuiet`, `NoCircularWait` and `ReadersSeeAnAtomicStore`, for any
threads, LODs, locations and scenarios (`VoxelDataAssumption`). `TypeOK` does not
keep itself: that `unview` stays within the naturals rests on a comparison made
earlier, and an operation makes sense only on the block it was planned for. The
invariant therefore says of each thread what its place in the call implies: which
kinds of call get there (`KindOK`), that the writer among the threads is the holder
of the gate (`GateOK`), which maps and regions it has (`MapOK`, `RegionOK`), that
its plan fits the blocks it saw and, once it writes, the blocks that are there
(`PlanOK`), that a snapshot somebody wrote over is of a lower revision than the
location (`TouchOK`, which is why comparing revisions is enough), and that it was
admitted (`AdmitOK`). `StoreOK` ties the store to what readers last saw: each
location is `Clean`, or `Dirty`, one revision ahead and written by the holder of
the gate, whose maps hide it. So `Unlock` is the abstract `Commit` of what was
written, and every other step stutters. A circle of waiting threads would have to
contain the holder of the gate, since maps belong to it and readers wait for
nothing else; but it waits only for readers, and those wait for no one while it has
no map.

`TerrainProofs` proves, of paging, `PagingTypes`, `ViewersAreCounted` and
`LoadsAreAnswered` from `PagingAssumption`. `CountOK` counts the viewers of a
location and says that storage and sidecar can disagree only over a block
installed from a server, which has no viewers in storage; `replicated_paging`
shows why that case must be excepted. `LoadOK` with `IssuedBefore` says that entries
and requests carry generations that were issued, so that the next generation is
nobody's and no old answer can become current again.

Of meshing, it proves `MeshingPages` (meshing implements paging: whatever is proved of
the blocks holds here), `MeshTypes` and `MeshesHaveCaughtUp`, from `MeshingAssumption`. `MeshesCatchUp` speaks of meshes at rest; the invariant `MInv`
says what an entry is on the way there (`MeshOK`): a request is younger than none
that was issued, and is queued or has its task (`Pending`); a mesh that has a task or
something to show has a halo that is complete, and viewers that keep it so; a
`Settled` entry (its request answered, nothing queued) has all it asked for and shows
it fresh; and no awaited task has read a block that changed since. The last is the
heart of it, and is why an edit must issue a new request: `MeshRenewed` shows that a
new request makes every task under way unawaited, since ids only grow, while
`MeshQueued` (an entry that keeps its request) must exclude blocks from a server or
show that nobody was to answer. `MeshKept` covers the meshes a step does not touch.

`ReplicationProofs` shows that the composition is a composition: every step of
the server's threads is one of `VoxelData` and all others leave the store alone
(`StoreUndisturbed`), and every step is one of the client's `TerrainMeshing` or
leaves it alone (`ClientMeshesAsAlone`), hence one of its paging
(`ClientPagesAsAlone`). The theorems of these modules therefore hold in it
(`ReplicationTypes`, `ClientViewsCounted`, `ClientLoadsAnswered`,
`ClientMeshesCatchUp`).
`ClientInSync` is about the whole: a frame is no newer than the store and shows the
store's voxels when it is as new (`FrameOK`); what the client applied last bounds
what it shows, and such a block has no viewers in storage, so that paging cannot
evict it (`AppliedOK`); revisions only grow. It assumes `ClientOnlyViews`: no
scenario lets the client edit blocks. With an edit, the client's own block could
take the place of the server's, and the code does not say which should win.
`ClientOnlyAdvances` needs no such assumption: a block that is shown never goes back
to older voxels by a frame, whatever is lost, delayed or overtaken. A location that is
emptied and filled again returns under a later revision, so the newest voxels that ever
stood there (`Top`) never decrease (`StoreGrows`); a frame of a later revision carries no
older voxels, because a poll reads the voxels after the revisions (`FlightOK`); and what
is shown is what a frame brought that the client applied (`ShownOK`).

`VariableTerrainProofs` assumes `TreeAssumption` and `ViewsAssumption`. Its first part
proves `VariableTypes` and `OnlyFreshAnswers`; what the planner decides to show is
opaque to it: only what happens to entries and tasks matters. `CurrentOK` says of a task
whose answer would be let through that it read the voxels as they are, that its
node's data is there, and that the entry is *not queued*. The last is what makes it
inductive: a load and the planner may queue an entry under the request it has, which
would start a second task of one name; `LoadStep` shows that no task is under way
then (the data was not there), `PlannedEntry` that the planner keeps a request only
where the entry was queued before or stays as it was. `FreshIsNew` is the counting
argument behind `Fresh`.

Its second part is about the planner, whose passes are recursive functions over
finite lists of nodes and groups. What they compute is shown by an invariant of
the list's prefix and a least counterexample (`CountUp`; for paths `FromTheRoots`,
for the depth of a tree `FinestNode`), since positions and nodes are natural
numbers. The argument is this:

- `FrontierOK` is what a reconciliation may rely on: what is shown is ready, no node
  is above another, and nothing is missing below a node that has something shown
  there. `SeenAll` says that the reconciliation looks wherever something must change.
- Each pass of `preview_reconcile` gets a lemma that says what it leaves (`RootsPassIs`,
  `JoinsPassIs`, `SplitsPassIs`, `RetirePassIs`). Together (`DraftIs`, `DraftIsIdeal`)
  they show, of every path, the coarsest node that does not split.
- `replay_topology_groups` applies the groups in another order: sorted by kind, and within
  a kind by node (`OrderIs`). `ReplayIs` shows that every group is still possible when
  its turn comes and that they lead to the same frontier. Its invariant `Replayed` says
  what is shown after a prefix; `ReplayRoot`, `ReplaySplit`, `ReplayJoin` and
  `ReplayOff` are its steps.
- `ReconcileIs` combines the two. `CoverageIs` shows that the state which the terrain
  hands to the planner satisfies `FrontierOK` and `SeenAll`, and `SliceHolds` that the
  checks of the physical slice and of the evictions pass.

`PlanOK` is the inductive invariant. `FrontierIsIdeal` alone is not one: the next tick
must find every change that is due, and it looks only at the nodes whose demand,
residence or acceptance has changed. Hence `DemandOK` (what is demanded and what is
kept are closed upwards), `MeshedOK` (a mesh has its revision and its data),
`AcceptedOK` (what the coverage has accepted the terrain still holds, or holds a later
mesh that waits) and `PendingOK` (between ticks only the finer meshes wait, for their
root). It carries `~refused` because a refused tick would leave the frontier behind.
From it follow `FrontierAlwaysIdeal`, `NoTickRefused`, `ShownIsMeshed`, and two
consequences that no run states: `NoTwoLodsShown` (no two shown nodes lie over each
other) and `NoHoleEverOpens` (a place that some LOD shows stays shown by some LOD at
every step, as long as the viewer asks for its root).

Its third part proves `SharpAtRest`: where nothing is queued, under way or waiting to
be accepted, everything the viewer asks for is shown or replaced by finer nodes. The
invariant `WorkOK` says that no request is forgotten: a demanded node has a mesh or is
asked for, every request is queued or has a task whose answer will be let through
(`Served`), and a mesh that is not accepted waits to be. So `EventuallySharp` can fail
only if the terrain never comes to rest, which is for fairness to exclude.

Model-checked only:

- all liveness properties and everything that speaks of fairness: the prover has no
  rule for them, nor for `ENABLED`. What they need besides fairness is proved where it
  is a matter of states and steps: that no wake-up is lost (`NoLostWakeup`, for
  `EveryTaskCompletes`), no owner left alone (`ParkedOwnersAreServed` and
  `ThreadsAreWoken`, for `OwnerCallReturns`), no sleeper missed (`ParkedIsBlocked`, for
  `OnlyStarvedByOthers`),
  no load lost (`NoLoadLost`, for `LoadsEnd`), no request forgotten (`SharpAtRest`, for
  `EventuallySharp`), no save forgotten (`NoSaveForgotten`, for `EverySaveWritten`), and
  that calls shorten (`CallsAreFinite`, for `CallsReturn`);
- `NoLostWakeup` where a serial task may postpone itself and refreshes discard tasks: it
  is false there (`runner_stranded`) and proved everywhere else (`WakeupsKept`).

## 5. What the models found

1. **A postponed serial task can be stranded** (`runner_stranded`,
   `threaded_task_runner.rs:868`). A serial task that ends hands one permit on
   for all that is queued. If the worker that takes it refreshes a queue whose
   only task turns out to be cancelled, the refresh posts no permit and the
   postponed serial task stays where it is, unrun, with every worker asleep.
   Both are needed: `WakeupsKept` proves that no wake-up is lost where no serial task
   postpones itself or no refresh discards a task, and `NothingElseStrands` that nothing
   but such a task can be stranded.
2. **A reload can miss an unsaved edit** (`journal_reload`, `:17055`). A load
   reads the stream while the block's save is still in the journal.
3. **A replicated block stops the client's paging** (`replicated_paging`,
   `voxel_terrain_core.rs:3785`). `try_install_remote_block` replaces the block in
   storage by one without viewers and leaves the sidecar and the load entry as they
   are; the next tick in which a viewer moves over it compares the two and fails.

4. **An edit can be forgotten by the variable-LOD planner** (`variable_edits`,
   `voxel_terrain_core.rs:10943`). An edit gives a shown mesh a new requested revision
   and queues it. If the viewer moves in the next tick so that the node's demand
   changes, `prepare_variable_physical_slice` takes the old upload for accepted,
   whatever revision is requested, clears the queue flag and the request, and nothing
   asks for the new mesh again: the old one stays on screen until the next edit there.

Observed while modelling, and stated in the properties as what does hold:

- The pool (`tasks/threaded_task_runner.rs:593`). With a refresh period of zero a
  refresh is due at every wake and the worker need never pick: `EveryTaskCompletes`
  fails with `PeriodZero = TRUE`, one worker and one task. The runs have it `FALSE`.
- The journal (`terrain/voxel_terrain_core.rs:12919`). A flush has eight rounds, each
  makes at most one revision of a block durable; with more queued revisions of one
  block the loop ends with nothing failed, trips the `debug_assert`, and in release
  reports `UnsavedBlocks { count: 0 }`: `LoopEndsWithFailures` fails with
  `MaxRevision = 3`, `MaxExplicitAttempts = 2` and no faults.
- Region files (`streams/region/region_file.rs`). A save that stops while sectors
  move leaves the last sector short, and the next relocation may cut into the
  block before it; the save under way and those stored behind it are lost to the
  table (`SavedBlocksReadBack` excepts them). Padding rounds the position in the
  file (`:430`) while sectors start behind the header, so even without a failure
  the last cells of a file can be cut off. A payload of more than `MAX_SECTOR_COUNT`
  sectors is refused only after the block's old sectors were removed. A process
  that dies between the creation of a file and its header leaves one that never
  opens again, and a header write that stops between two entries can leave a table
  with a gap. A handle opened on such a table counts only the sectors that are taken
  (`rebuild_sectors`, `:408`), so the next new block is appended over the last one, and a
  save that succeeds destroys another block; two failures are needed, and
  `SavedBlocksReadBack` excepts such a handle (`gapped`). The header is written last, after the sectors moved (`:690`).
- Replication (`terrain/replication.rs`). A snapshot counts as sent when it is
  polled (`:235`), so a lost frame is not sent again at that revision. A block that
  leaves a peer's area and enters it again is sent again at an unchanged revision,
  and the client, which remembers that revision (`:363`), drops it. The voxels of a
  frame may be newer than its revision, never older: the client is then ahead until
  the next poll repeats the block.
- Meshes (`terrain/voxel_terrain_core.rs`). An installed block queues the covering
  meshes under the request they have (`:3812`); a task that read the old block may
  answer first, is accepted, and the task for the new block is then stale, so that the
  mesh shows the old block at rest. `MeshesCatchUp` therefore speaks of halos of this
  terrain's own blocks. A mesh whose tasks died more than the limit is not asked for
  again by a new viewer with the same needs, unlike a load: the next edit does.
- Variable-LOD coverage. The planner re-reads its own decisions in three places (the
  replay, the slice, the evictions) and fails the tick when they differ;
  `TickNeverRefused` shows that they agree for the visuals of one viewer, and
  `NoTickRefused` proves it for any tree. It is not shown for the collision feature, whose demand may change while an upload without
  collisions counts as accepted.

## 6. Not modelled

See `components` in `PROJECT.json` for each part. In the modelled components:
allocation failures (except the batch handed back by `write_prepared_fallible`),
overflow of 64-bit revisions and ordinals, the byte threshold of checkpoints
(folded into the block threshold), dirty blocks without voxels, the single-LOD
commit path, load errors and their retries, non-streaming terrains, the other
locks of `thread/mod.rs`; the byte format of region files, the handles of a
forest of them and its meta file; in the store streaming, blocks without voxels, the
`needs_lodding` flag and revision overflow; in paging and meshing cancellation tokens
(a cancelled task answers late, as any other), request epochs and shutdown; in
replication the frame format, the index over several peers and a restart of the
server, whose revisions begin again. `durable` means handed to the stream's flush with Ok;
whether the operating system keeps it is outside the program.

Of the variable-LOD coverage, the visuals of one viewer are modelled. Left out are the
collision feature, which has a frontier of its own over the same resources, and with
it `coverage_hold_ledger.rs`, whose holds serve joins that wait for their parts; the
transition masks between LODs; the boxes by which `ClipboxCoordinator` finds its nodes
(their result, a set of nodes closed under parents and siblings, is `Views`); several
viewers; mesh tasks that die and their retries, which `TerrainMeshing` has.

The codecs, meshers, generators and the edition work on their arguments
alone: they have byte layouts and floating-point values where a model would have
integers, and their round-trip, parity and fuzz tests suit them better. The
binding is glue on the main thread.

## 7. Plan

Done, in this order: the pool, the locks and the journal, because every other part
runs on, under or towards them; the region file, which is what the journal's
`stored` stands for; the store; the paging of one LOD; replication, which composes
the last two; the meshes of the client's terrain; the variable-LOD planner and its
terrain.

Left:

1. The collision feature of `VariableLodCoverage`: a second `active` set over the same
   entries, pending joins and the hold ledger as an abstract multiset of holds that
   the joins implement; then several viewers and the boxes of `LodClipbox` as pure
   operators against a reference.
2. `DependencyTracker` (a save task whose stream call panics neither posts nor aborts
   its tracker, `streams/save_block_data_task.rs:358`) and `SlotMap`; the recursive
   mutex.
3. Theorems: that the frontier stays ideal when the collision feature and several
   viewers share its resources, which is where holds and pending joins begin to matter.
