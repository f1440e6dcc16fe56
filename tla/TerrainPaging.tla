---------------------------- MODULE TerrainPaging ---------------------------
(***************************************************************************)
(* How VoxelTerrainCore pages the data blocks of one LOD                   *)
(* (terrain/voxel_terrain_core.rs, the fixed-LOD transaction).  Viewers    *)
(* count on a block in its storage and in the sidecar                      *)
(* loaded_data_residency while it is resident, on an entry of              *)
(* loading_blocks while it is not; requests carry a generation, and their  *)
(* answers return from worker threads in any order.                        *)
(*                                                                         *)
(* One tick of the core applies viewer changes, answers and dispatches as  *)
(* one transaction, or fails and changes nothing; here each of them is an  *)
(* action of its own, disabled where the tick would fail.  A tick without  *)
(* one of them is a tick of the core too.  Of voxel data only the origin   *)
(* is kept: 0 for the generator, the stream or an edit of this terrain,    *)
(* otherwise the revision of the server that sent it.                      *)
(***************************************************************************)
EXTENDS Integers, FiniteSets

CONSTANTS
    Locations,
    MaxLoadRetries,
    MaxGeneration,  \* bound: the counter the code checks for overflow
    None

VARIABLES
    views,      \* views[l]: how many viewers' boxes hold location l
    block,      \* block[l]: None or the viewers in its storage and its origin
    tracked,    \* loaded_data_residency: None or a count
    loading,    \* loading_blocks: None or an entry
    requests,   \* loads handed to the task runner and not answered
    generation  \* next_request_generation

vars == <<views, block, tracked, loading, requests, generation>>

Absent(l)  == block[l] = None
Present(l) == ~Absent(l)
Stored(viewers, voxels) == [viewers |-> viewers, voxels |-> voxels]
Entry(refs, retries, gen, state) ==
    [refs |-> refs, retries |-> retries, gen |-> gen, state |-> state]

Outstanding == {"Queued", "InFlight"}
Ended       == {"NotFound", "Exhausted"}

Blocks  == [viewers : Nat, voxels : Nat]
Entries == [refs : Nat \ {0}, retries : 0..MaxLoadRetries + 1,
            gen : Nat, state : Outstanding \cup Ended]

PagingAssumption ==
    /\ MaxLoadRetries \in Nat /\ MaxGeneration \in Nat
    /\ None \notin Nat /\ None \notin Blocks /\ None \notin Entries

Refs(l) == IF loading[l] = None THEN 0 ELSE loading[l].refs
OnItsWay(l) == loading[l] # None /\ loading[l].state \in Outstanding

\* DataResidencyMismatch: storage and sidecar disagree, the tick is refused.
Mismatch(l) ==
    IF Absent(l) THEN tracked[l] # None
    ELSE loading[l] # None \/ tracked[l] = None \/ tracked[l] # block[l].viewers

Init ==
    /\ views = [l \in Locations |-> 0]
    /\ block = [l \in Locations |-> None]
    /\ tracked = [l \in Locations |-> None]
    /\ loading = [l \in Locations |-> None]
    /\ requests = {}
    /\ generation = 0

Set(f, l, x) == f' = [f EXCEPT ![l] = x]

-----------------------------------------------------------------------------
(* Viewers *)

SetResident(l, refs) ==
    /\ Set(tracked, l, refs)
    /\ block' = [block EXCEPT ![l].viewers = refs]
    /\ UNCHANGED <<loading, requests, generation>>

\* The last viewer has gone: a dirty block leaves through the save journal.
Remove(l) ==
    /\ Set(tracked, l, None)
    /\ Set(block, l, None)
    /\ UNCHANGED <<loading, requests, generation>>

Request(l, refs) ==
    /\ generation < MaxGeneration
    /\ generation' = generation + 1
    /\ Set(loading, l, Entry(refs, 0, generation, "Queued"))
    /\ UNCHANGED <<block, tracked, requests>>

\* A further viewer of a location on its way joins its entry.
Join(l, refs) ==
    /\ loading' = [loading EXCEPT ![l].refs = refs]
    /\ UNCHANGED <<block, tracked, requests, generation>>

\* Nobody waits any more: the entry goes, its request is left to itself.
Abandon(l) ==
    /\ Set(loading, l, None)
    /\ UNCHANGED <<block, tracked, requests, generation>>

View(l) ==
    /\ ~Mismatch(l)
    /\ Set(views, l, views[l] + 1)
    /\ \/ Present(l) /\ SetResident(l, tracked[l] + 1)
       \/ Absent(l) /\ OnItsWay(l) /\ Join(l, Refs(l) + 1)
       \/ Absent(l) /\ ~OnItsWay(l) /\ Request(l, Refs(l) + 1)

Unview_KeepsTheEntry(l) ==
    /\ views[l] > 0
    /\ ~Mismatch(l)
    /\ Set(views, l, views[l] - 1)
    /\ \/ Present(l) /\ tracked[l] > 1 /\ SetResident(l, tracked[l] - 1)
       \/ Present(l) /\ tracked[l] = 1 /\ Remove(l)
       \/ Absent(l) /\ Refs(l) > 1 /\ Join(l, Refs(l) - 1)
       \/ Absent(l) /\ Refs(l) = 1 /\ UNCHANGED <<block, tracked, loading, requests, generation>>
Unview(l) ==
    /\ views[l] > 0
    /\ ~Mismatch(l)
    /\ Set(views, l, views[l] - 1)
    /\ \/ Present(l) /\ tracked[l] > 1 /\ SetResident(l, tracked[l] - 1)
       \/ Present(l) /\ tracked[l] = 1 /\ Remove(l)
       \/ Absent(l) /\ Refs(l) > 1 /\ Join(l, Refs(l) - 1)
       \/ Absent(l) /\ Refs(l) = 1 /\ Abandon(l)

-----------------------------------------------------------------------------
(* Requests and answers *)

Dispatch_Forgotten ==
    LET queued == {l \in Locations : loading[l] # None /\ loading[l].state = "Queued"} IN
    /\ queued # {}
    /\ loading' = [l \in Locations |->
                     IF l \in queued THEN [loading[l] EXCEPT !.state = "InFlight"] ELSE loading[l]]
    /\ requests' = requests \cup {[loc |-> l, gen |-> loading[l].gen] : l \in {k \in queued : loading[k].retries = 0}}
    /\ UNCHANGED <<views, block, tracked, generation>>

\* Every queued location gets a task.
Dispatch ==
    LET queued == {l \in Locations : loading[l] # None /\ loading[l].state = "Queued"} IN
    /\ queued # {}
    /\ loading' = [l \in Locations |->
                     IF l \in queued THEN [loading[l] EXCEPT !.state = "InFlight"] ELSE loading[l]]
    /\ requests' = requests \cup {[loc |-> l, gen |-> loading[l].gen] : l \in queued}
    /\ UNCHANGED <<views, block, tracked, generation>>

Current_AnyGeneration(r) == loading[r.loc] # None
Current(r) == loading[r.loc] # None /\ loading[r.loc].gen = r.gen

Take(r) == r \in requests /\ requests' = requests \ {r} /\ UNCHANGED views

\* An answer to a request that nobody waits for.
Stale(r) ==
    /\ Take(r)
    /\ ~Current(r)
    /\ UNCHANGED <<block, tracked, loading, generation>>

Loaded(r) ==
    LET l == r.loc IN
    /\ Take(r)
    /\ Current(r)
    /\ Set(loading, l, None)
    /\ IF Present(l) THEN UNCHANGED <<block, tracked>>
       ELSE Set(block, l, Stored(Refs(l), 0)) /\ Set(tracked, l, Refs(l))
    /\ UNCHANGED generation

\* The task was cancelled, failed or died: another request, up to a limit.
Dropped(r) ==
    LET l == r.loc
        e == loading[l]
    IN
    /\ Take(r)
    /\ Current(r)
    /\ \/ /\ e.retries < MaxLoadRetries
          /\ generation < MaxGeneration
          /\ generation' = generation + 1
          /\ Set(loading, l, Entry(e.refs, e.retries + 1, generation, "Queued"))
       \/ /\ e.retries >= MaxLoadRetries
          /\ Set(loading, l, Entry(e.refs, e.retries + 1, e.gen, "Exhausted"))
          /\ UNCHANGED generation
    /\ UNCHANGED <<block, tracked>>

NotFound(r) ==
    /\ Take(r)
    /\ Current(r)
    /\ loading' = [loading EXCEPT ![r.loc].state = "NotFound"]
    /\ UNCHANGED <<block, tracked, generation>>

-----------------------------------------------------------------------------
(* Other writers of the core *)

\* An edit makes an absent block resident, with the viewers that wait for it.
Edit(l) ==
    /\ Absent(l)
    /\ tracked[l] = None
    /\ Set(block, l, Stored(Refs(l), 0))
    /\ Set(tracked, l, Refs(l))
    /\ Set(loading, l, None)
    /\ UNCHANGED <<views, requests, generation>>

\* try_install_remote_block: storage alone is replaced.
InstallRemote(l, voxels) ==
    /\ Set(block, l, Stored(0, voxels))
    /\ UNCHANGED <<views, tracked, loading, requests, generation>>

Next ==
    \/ \E l \in Locations : View(l) \/ Unview(l) \/ Edit(l)
    \/ \E l \in Locations, v \in Nat \ {0} : InstallRemote(l, v)
    \/ \E r \in requests : Stale(r) \/ Loaded(r) \/ Dropped(r) \/ NotFound(r)
    \/ Dispatch

Spec == Init /\ [][Next]_vars

-----------------------------------------------------------------------------
(* Properties *)

\* Type invariant.
TypeOK ==
    /\ views \in [Locations -> Nat]
    /\ block \in [Locations -> {None} \cup Blocks]
    /\ tracked \in [Locations -> {None} \cup Nat]
    /\ loading \in [Locations -> {None} \cup Entries]
    /\ requests \in SUBSET [loc : Locations, gen : Nat]
    /\ generation \in 0..MaxGeneration

\* Every viewer of l is counted exactly once: on the block, in storage and in
\* the sidecar alike, or on the entry of the load.
Counted(l) ==
    /\ ~Mismatch(l)
    /\ views[l] = IF Present(l) THEN tracked[l] ELSE Refs(l)

Local(l) == Absent(l) \/ block[l].voxels = 0

\* Whatever the order of views, unviews, edits and late answers, the viewers of
\* a block that did not come from a server are counted exactly once: it is never
\* unloaded under a viewer, never kept without one, and paging never fails on it.
EveryViewCounted == \A l \in Locations : Local(l) => Counted(l)

Asked(l) == [loc |-> l, gen |-> loading[l].gen] \in requests

\* A location in flight has its own request under way and no other state has:
\* no answer is lost to a retry or an abandoned predecessor, none taken twice.
NoLoadLost ==
    \A l \in Locations : loading[l] # None =>
        (loading[l].state = "InFlight" <=> Asked(l))

\* A load that was asked for comes to an end: whatever is dropped and retried,
\* the location is resident, reported missing or given up, or nobody waits.
LoadsEnd == \A l \in Locations : OnItsWay(l) ~> ~OnItsWay(l)

\* Paging never finds storage and sidecar in disagreement.
PagingNeverRefused == \A l \in Locations : ~Mismatch(l)
=============================================================================
