--------------------------- MODULE VariableTerrain --------------------------
(***************************************************************************)
(* A terrain with several LODs: the viewer's demand, the meshes of the LOD *)
(* tree and the coverage that decides which of them are shown.             *)
(*                                                                         *)
(* A tick of try_process first applies, one by one, the answers that have  *)
(* arrived (LoadEnds, MeshEnds, MeshRefused) and then plans (Move, Stay):  *)
(* it reconciles demand and acceptances, and dispatches the queued meshes. *)
(* ticking keeps the owner's edits out of it; the answers that wait for    *)
(* the next tick are those that have not been applied yet.                 *)
(*                                                                         *)
(* One feature, the visuals, and one viewer; a mesh reads one block of     *)
(* data.  Revisions and requests are compared only with others of the      *)
(* same node, for equality: a new one is any number that nothing refers to.*)
(***************************************************************************)
EXTENDS VariableLodCoverage

CONSTANTS
    Scenes,   \* the load sets the terrain may start from, at rest
    Views,    \* the load sets of the viewer: with ancestors, all siblings or none
    Retains,  \* retain boxes of a move: what may stay of the residents
    Brush,    \* the finest nodes that are edited
    Moves,    \* bound: moves of the viewer
    Others    \* bound: edits and refused meshes together

ASSUME ViewsAssumption ==
    /\ Views \subseteq SUBSET Node /\ Retains \subseteq SUBSET Node /\ Scenes \subseteq Views
    /\ \A S \in Views \cup Retains : \A n \in S : Path[n] \subseteq S
    /\ \A l \in Views : \A n \in Node : Children[n] \cap l \in {{}, Children[n]}
    /\ Brush \subseteq {n \in Node : Children[n] = {}}
    /\ Moves \in Nat /\ Others \in Nat

VARIABLES
    load, resident,  \* the coordinator's demand: shown, and kept
    accepted,        \* the coverage's accepted_snapshot, 0 is none
    active,          \* the coverage's frontier
    mesh,            \* mesh_maps: an entry for each resident node, Vacant for others
    halo,            \* the nodes whose data is loaded
    tasks,           \* mesh tasks in the pool or with an answer on its way
    pending,         \* pending_mesh_acceptances
    ticking,         \* a tick is applying answers, its planner comes next
    refused,         \* history: some tick has ended with an error
    moves, others    \* what is left of the bounds

vars == <<load, resident, accepted, active, mesh, halo, tasks, pending,
          ticking, refused, moves, others>>

\* A new MeshBlockEntry.  requested and applied are revisions, request is the
\* physical request, 0 is none; current tells whether the applied mesh shows
\* the voxels as they are.
Vacant  == [requested |-> 0, applied |-> 0, queued |-> FALSE, request |-> 0, current |-> FALSE]
Settled == [Vacant EXCEPT !.requested = 1, !.applied = 1, !.current = TRUE]

\* A terrain at rest: all that the viewer asks for is loaded, meshed and shown.
Scene(l) ==
    /\ load = l /\ resident = l /\ halo = l /\ tasks = {} /\ pending = {}
    /\ accepted = [n \in Node |-> IF n \in l THEN 1 ELSE 0]
    /\ mesh = [n \in Node |-> IF n \in l THEN Settled ELSE Vacant]
    /\ active = {n \in l : Children[n] \cap l = {}}
    /\ ticking = FALSE /\ refused = FALSE
    /\ moves = Moves /\ others = Others

Init == \E l \in Scenes : Scene(l)

\* The next revision or request of n.
Used(n)  == {accepted[n], mesh[n].requested, mesh[n].applied, mesh[n].request}
              \cup {t.revision : t \in {u \in tasks : u.node = n}}
              \cup {t.request : t \in {u \in tasks : u.node = n}}
Fresh(n) == CHOOSE i \in 1..(Cardinality(Used(n)) + 1) : i \notin Used(n)

----------------------------------------------------------------------------
(***************************************************************************)
(* The answers of a tick, in the order in which they have arrived.         *)
(***************************************************************************)
\* prepare_legacy_mesh_schedule_entry, for a mesh whose data has arrived.
Arrived(e, fresh) ==
    [e EXCEPT !.requested = IF @ = e.applied THEN fresh ELSE @,
              !.request   = IF e.requested = e.applied \/ @ = 0 THEN fresh ELSE @,
              !.queued    = TRUE]

LoadEnds(n) ==
    /\ n \in resident \ halo
    /\ ticking' = TRUE
    /\ halo' = halo \cup {n}
    /\ mesh' = [mesh EXCEPT ![n] = Arrived(@, Fresh(n))]
    /\ UNCHANGED <<load, resident, accepted, active, tasks, pending, refused, moves, others>>

IsCurrent(t) ==
    /\ mesh[t.node].requested = t.revision
    /\ mesh[t.node].request = t.request

\* legacy_variable_apply_mesh_upload of a mesh that its task has built.
MeshEnds_FirstMeshOnly(t) ==
    /\ ticking' = TRUE
    /\ tasks' = tasks \ {t}
    /\ IF IsCurrent(t)
       THEN /\ mesh' = [mesh EXCEPT ![t.node] =
                           [@ EXCEPT !.applied = t.revision, !.request = 0, !.current = t.current]]
            /\ pending' = pending \cup {n \in {t.node} : mesh[n].applied = 0}
       ELSE UNCHANGED <<mesh, pending>>
    /\ UNCHANGED <<load, resident, accepted, active, halo, refused, moves, others>>
MeshEnds(t) ==
    /\ ticking' = TRUE
    /\ tasks' = tasks \ {t}
    /\ IF IsCurrent(t)
       THEN /\ mesh' = [mesh EXCEPT ![t.node] =
                           [@ EXCEPT !.applied = t.revision, !.request = 0, !.current = t.current]]
            /\ pending' = pending \cup {t.node}
       ELSE UNCHANGED <<mesh, pending>>
    /\ UNCHANGED <<load, resident, accepted, active, halo, refused, moves, others>>

\* The same of a task that has found another mesher installed.
MeshRefused_Forgotten(t) ==
    /\ others > 0 /\ others' = others - 1
    /\ ticking' = TRUE
    /\ tasks' = tasks \ {t}
    /\ UNCHANGED <<load, resident, accepted, active, mesh, halo, pending, refused, moves>>
MeshRefused(t) ==
    /\ others > 0 /\ others' = others - 1
    /\ ticking' = TRUE
    /\ tasks' = tasks \ {t}
    /\ mesh' = IF IsCurrent(t) /\ ~mesh[t.node].queued
               THEN [mesh EXCEPT ![t.node] = [@ EXCEPT !.request = Fresh(t.node), !.queued = TRUE]]
               ELSE mesh
    /\ UNCHANGED <<load, resident, accepted, active, halo, pending, refused, moves>>

----------------------------------------------------------------------------
(***************************************************************************)
(* The planner: l and r are the new demand.                                *)
(***************************************************************************)
\* A finer mesh waits for its root; one whose entry has gone is forgotten.
IsDeferred(n) == n \notin Roots /\ mesh[RootOf[n]].applied = 0
IsAccepted(n) == n \in pending \cap resident /\ ~IsDeferred(n)

NextAccepted(n) == IF IsAccepted(n) THEN mesh[n].applied ELSE accepted[n]

Coverage(l, r) ==
    [load |-> l, resident |-> r, active |-> active,
     ready |-> {n \in Node : NextAccepted(n) # 0}]

\* The SetDemand inputs: nodes whose resident, visual or split demand changes.
Changed(l, r) ==
    LET old == [load |-> load]
        new == [load |-> l]
    IN  {n \in Node : \/ (n \in l) # (n \in load)
                      \/ (n \in r) # (n \in resident)
                      \/ IsSplitDemanded(old, n) # IsSplitDemanded(new, n)}

\* The nodes whose entries prepare_variable_physical_slice works on.
Shadows(touched, groups) == touched \cup UNION {Activates(g) \cup Deactivates(g) : g \in groups}

\* What the planner compares before it publishes: every shadow that shall be
\* shown is kept, wanted and meshed as accepted, joins have their data, and no
\* node that leaves is shown.
SliceIsSound(c, d, shadows) ==
    /\ \A n \in shadows \cap d.active :
          /\ n \in c.resident /\ n \in c.load
          /\ mesh[n].applied # 0 /\ mesh[n].applied = NextAccepted(n)
    /\ \A g \in d.groups : g.op = "Join" => {g.anchor} \cup Children[g.anchor] \subseteq halo
    /\ d.active \subseteq c.resident

\* The mesh pass of the slice, for a shadow that stays resident.
Planned(e, wanted, fresh) ==
    CASE ~wanted \/ e.applied # 0 -> [e EXCEPT !.queued = FALSE, !.request = 0]
      [] wanted /\ e.applied = 0 /\ e.requested = 0 ->
            [e EXCEPT !.requested = fresh, !.request = fresh, !.queued = TRUE]
      [] wanted /\ e.applied = 0 /\ e.requested # 0 /\ ~e.queued /\ e.request # 0 -> e
      [] OTHER -> [e EXCEPT !.request = IF @ = 0 THEN fresh ELSE @, !.queued = TRUE]

\* enqueue_ready_mesh_block_tasks: the queued meshes with their data are built.
Goes(e, n, present) == e.queued /\ n \in present

Dispatched(e, n) ==
    [node |-> n, revision |-> e.requested, request |-> e.request, current |-> TRUE]

Publish(m, present) ==
    /\ mesh' = [n \in Node |-> LET e == m[n] IN
                   IF Goes(e, n, present) THEN [e EXCEPT !.queued = FALSE] ELSE e]
    /\ tasks' = tasks \cup {Dispatched(m[n], n) : n \in {k \in Node : Goes(m[k], k, present)}}
    /\ halo' = present

Plan(l, r) ==
    LET c       == Coverage(l, r)
        touched == Changed(l, r) \cup {n \in pending : IsAccepted(n)}
        d       == Reconcile(c, touched)
        shadows == Shadows(touched, d.groups)
        next    == [n \in Node |->
                      IF n \notin r THEN Vacant
                      ELSE IF n \in shadows THEN Planned(mesh[n], n \in l, Fresh(n))
                      ELSE mesh[n]]
    IN  IF d.valid /\ SliceIsSound(c, d, shadows)
        THEN /\ Publish(next, halo \cap r)
             /\ load' = l /\ resident' = r /\ active' = d.active
             /\ accepted' = [n \in Node |-> IF n \in resident \ r THEN 0 ELSE NextAccepted(n)]
             /\ pending' = {n \in pending \cap resident : IsDeferred(n)}
             /\ UNCHANGED refused
        ELSE \* the error of the planner: only the answers stay applied
             /\ refused' = TRUE
             /\ UNCHANGED <<load, resident, accepted, active, mesh, halo, tasks, pending>>

\* A tick without viewer changes and acceptances skips the planner.
SkipPlan ==
    /\ pending = {}
    /\ Publish(mesh, halo)
    /\ UNCHANGED <<load, resident, accepted, active, pending, refused>>

\* The viewer has moved, comes or leaves.
Move(l, R) ==
    /\ moves > 0 /\ moves' = moves - 1
    /\ l # load
    /\ Plan(l, l \cup (resident \cap R))
    /\ ticking' = FALSE
    /\ UNCHANGED others

\* It has stayed where it was.
Stay ==
    /\ SkipPlan \/ (pending # {} /\ Plan(load, resident))
    /\ ticking' = FALSE
    /\ UNCHANGED <<moves, others>>

----------------------------------------------------------------------------
\* finish_prepared_edit_publication: a voxel of a loaded block is written, and
\* every mesh over it, of every LOD, gets a new revision.
Edited_KeepsRequest(e, fresh) ==
    [e EXCEPT !.requested = IF e.request = 0 THEN fresh ELSE @,
              !.request = IF @ = 0 THEN fresh ELSE @, !.queued = TRUE, !.current = FALSE]
Edited(e, fresh) ==
    [e EXCEPT !.requested = fresh, !.request = fresh, !.queued = TRUE, !.current = FALSE]

Edit(n) ==
    /\ ~ticking
    /\ others > 0 /\ others' = others - 1
    /\ n \in halo
    /\ mesh' = [k \in Node |-> IF k \in Path[n] \cap resident THEN Edited(mesh[k], Fresh(k))
                               ELSE mesh[k]]
    /\ tasks' = {[t EXCEPT !.current = @ /\ t.node \notin Path[n]] : t \in tasks}
    /\ UNCHANGED <<load, resident, accepted, active, halo, pending, ticking, refused, moves>>

----------------------------------------------------------------------------
Next ==
    \/ \E n \in Node : LoadEnds(n)
    \/ \E t \in tasks : MeshEnds(t)
    \/ \E t \in tasks : MeshRefused(t)
    \/ \E l \in Views, R \in Retains : Move(l, R)
    \/ Stay
    \/ \E n \in Brush : Edit(n)

Spec == Init /\ [][Next]_vars

\* Weak fairness of the ticks, of every load and of every node's meshes.  The
\* enabling conditions are written out: to find them TLC would evaluate the
\* whole planner.
TickDue    == ticking \/ \E n \in halo : mesh[n].queued
LoadDue(n) == n \in resident \ halo
MeshDue(n) == \E t \in tasks : t.node = n
MeshOf(n)  == \E t \in tasks : t.node = n /\ MeshEnds(t)

Fairness ==
    /\ []<><<Stay>>_vars \/ []<>(~TickDue)
    /\ \A n \in Node : []<><<LoadEnds(n)>>_vars \/ []<>(~LoadDue(n))
    /\ \A n \in Node : []<><<MeshOf(n)>>_vars \/ []<>(~MeshDue(n))

FairSpec == Spec /\ Fairness

----------------------------------------------------------------------------
(* Properties *)

Entry == [requested : Nat, applied : Nat, queued : BOOLEAN, request : Nat, current : BOOLEAN]
Task  == [node : Node, revision : Nat, request : Nat \ {0}, current : BOOLEAN]

\* The shape of the state.  A node that is not resident has no entry, and an
\* entry in blocks_pending_update has a physical request.
TypeOK ==
    /\ load \subseteq Node /\ resident \subseteq Node /\ halo \subseteq Node
    /\ pending \subseteq Node
    /\ accepted \in [Node -> Nat]
    /\ mesh \in [Node -> Entry]
    /\ tasks \subseteq Task /\ IsFiniteSet(tasks)
    /\ \A n \in Node : n \notin resident => mesh[n] = Vacant
    /\ \A n \in Node : mesh[n].queued => mesh[n].request # 0
    /\ {ticking, refused} \subseteq BOOLEAN

\* The answers that legacy_variable_apply_mesh_upload lets through were built
\* from the voxels as they are: whatever was requested again, edited, unloaded
\* or loaded again while a task ran, its answer is recognised as stale.
AnswersAreFresh == \A t \in tasks : IsCurrent(t) => t.current

\* What preview_reconcile shows depends on the demand and on what has been
\* accepted, and not on the order in which demands and meshes came, although
\* it looks only at the paths of the nodes that have changed: the coarsest
\* node that does not split, on every path.  So no hole opens while a root
\* is meshed, no two LODs overlap, and no join is left pending.
Splits(n) == IsSplitDemanded([load |-> load], n) /\ \A k \in Children[n] : accepted[k] # 0

Ideal == {n \in load : /\ accepted[RootOf[n]] # 0
                       /\ \A m \in Path[n] \ {n} : Splits(m)
                       /\ ~Splits(n)}

FrontierIsIdeal == active = Ideal

\* Between two ticks every shown node is resident and carries the mesh that the
\* coverage has accepted: the two records of what is ready do not part.
ActiveIsMeshed ==
    /\ TypeOK
    /\ ~ticking => \A n \in active :
          n \in resident /\ mesh[n].applied # 0 /\ mesh[n].applied = accepted[n]

\* No tick is given up: the checks of replay_topology_groups, of the physical
\* slice and of the evictions find what the preview has decided to be possible.
TickNeverRefused == ~refused

\* When the viewer rests, every node it asks for is shown or replaced by finer ones.
EventuallySharp == []<>(\A n \in load : n \in active \/ Children[n] \cap load # {})

\* "Writes mark the containing block dirty, and the block is re-meshed on the
\* next process tick." (doc/source/editing.md:16-17): when nothing is queued or
\* under way any more, what is shown shows the voxels as they are.
AtRest == ~ticking /\ tasks = {} /\ pending = {} /\ \A n \in Node : ~mesh[n].queued

EditsAreShown == AtRest => \A n \in active : mesh[n].current
=============================================================================
