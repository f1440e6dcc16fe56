---------------------------- MODULE TerrainMeshing --------------------------
(***************************************************************************)
(* How VoxelTerrainCore keeps the meshes of one LOD up to date with its    *)
(* data blocks (terrain/voxel_terrain_core.rs), on top of TerrainPaging.   *)
(* A mesh is built from its halo, the block under it and the neighbours,   *)
(* by a task of the pool (meshers/mesh_block_task.rs) that reads the halo  *)
(* when it runs.  An entry asks for a content revision by a request; the   *)
(* task carries both, and its answer counts only while the entry has them. *)
(*                                                                         *)
(* What a mesh or a task knows of its halo is Fresh until a block of the   *)
(* halo changes, and Old from then on.  This is history: the code cannot   *)
(* see it, and no guard reads it.                                          *)
(***************************************************************************)
EXTENDS TerrainPaging

CONSTANTS
    Meshes,         \* the locations that can have a mesh
    Halo,           \* Halo[m]: the blocks that mesh m is built from
    MaxMeshRetries, \* MAX_MESH_TERMINAL_RETRIES
    MaxIssued       \* bound: the ids that tasks refused may use up

VARIABLES
    mesh,       \* mesh_maps[0]: None or an entry
    mesh_tasks, \* tasks handed to the pool and not answered
    issued      \* next_mesh_revision and next_request_generation in one

meshing == <<mesh, mesh_tasks, issued>>

Features  == {"visuals", "collisions"}
Knowledge == {"Nothing", "Fresh", "Old"}

MeshEntries ==
    [needs : SUBSET Features,         \* what the viewers require
     requested : {None} \cup Nat,     \* requested_revision
     asked : SUBSET Features,         \* requested_features
     request : {None} \cup Nat,       \* physical_request
     queued : BOOLEAN,                \* is_in_update_list
     retries : Nat,                   \* terminal_retry_count
     applied : {None} \cup Nat,       \* applied_revision
     built : SUBSET Features,         \* applied_features
     shown : Knowledge]               \* accepted_upload

\* The set of tasks stands for a bag: a second task with the id of one that has
\* not read its halo differs from it in nothing that its answer depends on.
MeshTasks == [loc : Meshes, rev : Nat, id : Nat, features : SUBSET Features, read : Knowledge]

MeshingAssumption ==
    /\ PagingAssumption
    /\ Meshes \subseteq Locations /\ Halo \in [Meshes -> SUBSET Locations] /\ MaxMeshRetries \in Nat
    /\ None \notin MeshEntries

MeshInit == mesh = [m \in Meshes |-> None] /\ mesh_tasks = {} /\ issued = 0

MeshingInit == Init /\ MeshInit

Meshed(m)    == mesh[m] # None
HaloReady(m) == \A k \in Halo[m] : Present(k)

\* The meshes that block l is part of.
Sampling(l) == {m \in Meshes : l \in Halo[m]}
Around(l)   == {m \in Sampling(l) : Meshed(m)}

\* An edit may change voxels of l that only some of them look at, its own does.
Reach(l) == {near \in SUBSET Sampling(l) : l \in Sampling(l) => l \in near}

-----------------------------------------------------------------------------
(* What other handlers do to the meshes around a block *)

Aged(known) == IF known = "Fresh" THEN "Old" ELSE known
Outdated(e) == [e EXCEPT !.shown = Aged(e.shown)]

\* Voxels that these meshes look at changed: tasks that have read them are late.
OutdateTasks(near) ==
    mesh_tasks' = {IF t.loc \in near THEN [t EXCEPT !.read = Aged(t.read)] ELSE t : t \in mesh_tasks}

Queued(e)   == [e EXCEPT !.queued = TRUE]
Revised(e)  == [e EXCEPT !.requested = issued, !.request = issued, !.retries = 0, !.queued = TRUE]
Reissued(e) == [e EXCEPT !.request = issued, !.queued = TRUE]

\* The revision is a new one, and asks for all that the viewers require.
Demanded(e) == [Revised(e) EXCEPT !.asked = e.needs]

\* The entries change with the voxels that they look at.
Remesh(near, entries) ==
    /\ mesh' = [m \in Meshes |-> IF m \in near /\ Meshed(m) THEN Outdated(entries[m]) ELSE mesh[m]]
    /\ OutdateTasks(near)

IssueFor(near) == issued' = IF \E m \in near : Meshed(m) THEN issued + 1 ELSE issued

\* A block that enters completes halos: a mesh that is not asked for is now.
Entering(l) ==
    [m \in Around(l) |->
       IF \E k \in Halo[m] \ {l} : Absent(k) THEN mesh[m]
       ELSE IF mesh[m].requested = mesh[m].applied THEN Demanded(mesh[m])
       ELSE Queued(mesh[m])]

LoadedAndMeshed(r) ==
    /\ Loaded(r)
    /\ IF Present(r.loc) THEN UNCHANGED meshing
       ELSE Remesh(Sampling(r.loc), Entering(r.loc)) /\ IssueFor(Sampling(r.loc))

\* An edit changes a block that is there, or puts one there.
Edited(l) == Edit(l) \/ (Present(l) /\ UNCHANGED vars)

EditAndRemesh_KeepsRequests(l) ==
    /\ Edited(l)
    /\ \E near \in Reach(l) : Remesh(near, [m \in Around(l) |-> Queued(mesh[m])])
    /\ UNCHANGED issued
EditAndRemesh(l) ==
    /\ Edited(l)
    /\ \E near \in Reach(l) : Remesh(near, [m \in Around(l) |-> Revised(mesh[m])]) /\ IssueFor(near)

\* try_install_remote_block: the entries keep their revisions and requests.
InstallAndRemesh(l, voxels) ==
    /\ InstallRemote(l, voxels)
    /\ Remesh(Sampling(l), [m \in Around(l) |-> Queued(mesh[m])])
    /\ UNCHANGED issued

\* A viewer's data box is its mesh box and a border of one block: the last
\* viewer does not leave a block before the meshes around it have gone.
UnviewUnmeshed(l) ==
    /\ Unview(l)
    /\ views[l] = 1 => Around(l) = {}
    /\ UNCHANGED meshing

-----------------------------------------------------------------------------
(* Viewers of meshes *)

NewEntry ==
    [needs |-> {}, requested |-> None, asked |-> {}, request |-> None, queued |-> FALSE,
     retries |-> 0, applied |-> None, built |-> {}, shown |-> "Nothing"]

Has(e, features) == e.shown # "Nothing" /\ features \subseteq e.built

\* Viewers of m come or change their demand: together they need these features.
Demand(m, features) ==
    LET e == [(IF Meshed(m) THEN mesh[m] ELSE NewEntry) EXCEPT !.needs = features] IN
    /\ \A k \in Halo[m] : views[k] > 0
    /\ IF Has(e, features) \/ features \subseteq e.asked
       THEN Set(mesh, m, e) /\ UNCHANGED issued
       ELSE Set(mesh, m, Demanded(e)) /\ issued' = issued + 1
    /\ UNCHANGED <<vars, mesh_tasks>>

\* The last viewer leaves; the request is cancelled, its task answers late.
Forget(m) ==
    /\ Meshed(m)
    /\ Set(mesh, m, None)
    /\ UNCHANGED <<vars, mesh_tasks, issued>>

-----------------------------------------------------------------------------
(* Requests and answers *)

Runnable == {m \in Meshes : Meshed(m) /\ mesh[m].queued /\ HaloReady(m)}
Void     == {m \in Meshes : Meshed(m) /\ mesh[m].queued /\ mesh[m].requested = None}

Sent(m) ==
    [mesh[m] EXCEPT !.queued = FALSE,
                    !.request = IF mesh[m].request = None THEN issued ELSE mesh[m].request]

\* Collisions are built if a viewer needs them now, visuals always.
TaskOf(m) ==
    [loc |-> m, rev |-> mesh[m].requested, id |-> Sent(m).request,
     features |-> {"visuals"} \cup (mesh[m].needs \cap {"collisions"}), read |-> "Nothing"]

\* A queued entry whose halo is not there yet stays in the queue.
DispatchMeshes ==
    /\ Runnable \cup Void # {}
    /\ mesh' = [m \in Meshes |->
                  CASE m \in Void -> [mesh[m] EXCEPT !.queued = FALSE]
                    [] m \in Runnable \ Void -> Sent(m)
                    [] OTHER -> mesh[m]]
    /\ mesh_tasks' = mesh_tasks \cup {TaskOf(m) : m \in Runnable \ Void}
    /\ issued' = issued + 1
    /\ UNCHANGED vars

\* The task reads its halo under a read region, at once.
Gather(t) ==
    /\ t \in mesh_tasks
    /\ t.read = "Nothing"
    /\ mesh_tasks' = (mesh_tasks \ {t}) \cup {[t EXCEPT !.read = "Fresh"]}
    /\ UNCHANGED <<vars, mesh, issued>>

Awaited(t) == Meshed(t.loc) /\ mesh[t.loc].requested = t.rev /\ mesh[t.loc].request = t.id

TakeMesh(t) == t \in mesh_tasks /\ mesh_tasks' = mesh_tasks \ {t} /\ UNCHANGED vars

\* An answer to a revision or a request that is not the entry's any more.
MeshStale(t) ==
    /\ TakeMesh(t)
    /\ ~Awaited(t)
    /\ UNCHANGED <<mesh, issued>>

Accepted(e, t) ==
    [e EXCEPT !.request = None, !.retries = 0, !.applied = t.rev,
              !.asked = t.features, !.built = t.features, !.shown = t.read]

\* The mesh is accepted; what is missing of the demand is asked for.
MeshBuilt(t) ==
    LET e == Accepted(mesh[t.loc], t) IN
    /\ TakeMesh(t)
    /\ Awaited(t)
    /\ t.read # "Nothing"
    /\ IF e.needs \subseteq t.features
       THEN Set(mesh, t.loc, e) /\ UNCHANGED issued
       ELSE Set(mesh, t.loc, Demanded(e)) /\ issued' = issued + 1

\* The task ended without a mesh: the same revision is requested again.
MeshRefused(t) ==
    /\ TakeMesh(t)
    /\ Awaited(t)
    /\ issued < MaxIssued
    /\ Set(mesh, t.loc, [Reissued(mesh[t.loc]) EXCEPT !.retries = 0])
    /\ issued' = issued + 1

\* The task died: requested again up to a limit, unless it is queued anyway.
MeshDied(t) ==
    LET e == [mesh[t.loc] EXCEPT !.retries = @ + 1] IN
    /\ TakeMesh(t)
    /\ Awaited(t)
    /\ \/ /\ mesh[t.loc].queued
          /\ UNCHANGED <<mesh, issued>>
       \/ /\ ~mesh[t.loc].queued /\ e.retries <= MaxMeshRetries
          /\ Set(mesh, t.loc, Reissued(e)) /\ issued' = issued + 1
       \/ /\ ~mesh[t.loc].queued /\ e.retries > MaxMeshRetries
          /\ Set(mesh, t.loc, [e EXCEPT !.request = None]) /\ UNCHANGED issued

MeshAnswered(t) == MeshStale(t) \/ MeshBuilt(t) \/ MeshRefused(t) \/ MeshDied(t)

MeshingNext ==
    \/ \E l \in Locations :
         (View(l) /\ UNCHANGED meshing) \/ UnviewUnmeshed(l) \/ EditAndRemesh(l)
    \/ \E l \in Locations, v \in Nat \ {0} : InstallAndRemesh(l, v)
    \/ \E r \in requests :
         LoadedAndMeshed(r) \/ ((Stale(r) \/ Dropped(r) \/ NotFound(r)) /\ UNCHANGED meshing)
    \/ Dispatch /\ UNCHANGED meshing
    \/ \E m \in Meshes : Forget(m) \/ \E features \in SUBSET Features : Demand(m, features)
    \/ DispatchMeshes
    \/ \E t \in mesh_tasks : Gather(t) \/ MeshAnswered(t)

MeshingSpec == MeshingInit /\ [][MeshingNext]_<<vars, meshing>>

-----------------------------------------------------------------------------
(* Properties *)

\* Type invariant.
MeshTypeOK ==
    /\ mesh \in [Meshes -> {None} \cup MeshEntries]
    /\ mesh_tasks \subseteq MeshTasks
    /\ issued \in Nat

\* Nothing more will happen to a mesh on its own account.
AtRest(m) == Meshed(m) /\ ~mesh[m].queued /\ ~\E t \in mesh_tasks : t.loc = m /\ Awaited(t)

OwnHalo(m) == \A k \in Halo[m] : Present(k) /\ Local(k)

\* Whatever edits, loads, demands, retries and late answers come in which order,
\* a mesh that comes to rest shows its blocks as they are, with all that its
\* viewers need, unless its tasks died too often.  Blocks installed from a server
\* are excepted: an entry keeps its request over an installation, so that the
\* answer of a task which read the old block can put an end to the newer one.
MeshesCatchUp ==
    \A m \in Meshes :
        AtRest(m) /\ mesh[m].needs # {} /\ mesh[m].retries <= MaxMeshRetries /\ OwnHalo(m) =>
            mesh[m].shown = "Fresh" /\ mesh[m].needs \subseteq mesh[m].built
=============================================================================
