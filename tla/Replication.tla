----------------------------- MODULE Replication ----------------------------
(***************************************************************************)
(* Replication of edited blocks to a client (terrain/replication.rs): the  *)
(* server keeps the interest area of a peer and the revision last sent of  *)
(* every block, polls its store for blocks whose revision advanced and     *)
(* sends whole snapshots; the client drops what is not newer than the last *)
(* snapshot it applied and installs the rest in its terrain.               *)
(*                                                                         *)
(* The server's store is VoxelData with its threads, the client's terrain  *)
(* is TerrainPaging with TerrainMeshing on top of it.  The transport is    *)
(* the game's: frames may be lost, delivered twice and overtake each       *)
(* other.  There is one peer.                                              *)
(***************************************************************************)
EXTENDS VoxelData

CONSTANTS MaxLoadRetries, MaxGeneration, Meshes, Halo, MaxMeshRetries, MaxIssued

VARIABLES
    area,          \* interests: the peer's area, None when it is not known
    sent,          \* sent: the revision last sent of a location, or None
    poll,          \* the candidates of a running poll and their revisions, or None
    flight,        \* frames on their way
    delivered,     \* frames that have been delivered
    last_applied,  \* the client's revision table
    views, cblock, tracked, loading, requests, generation,  \* the client's terrain
    mesh, mesh_tasks, issued,                               \* and its meshes
    budget         \* bound: how often the peer, the network and the client act

meshes == <<mesh, mesh_tasks, issued>>
paging == <<views, cblock, tracked, loading, requests, generation>>
client == <<paging, meshes>>
link   == <<flight, delivered>>
server == <<area, sent, poll>>
replication == <<server, link, last_applied, client, budget>>

Fine == OnLod(Locations, 0)

Client == INSTANCE TerrainMeshing WITH block <- cblock, Locations <- Fine

ASSUME ReplicationAssumption == Client!MeshingAssumption

Spend(what) == budget[what] > 0 /\ budget' = [budget EXCEPT ![what] = @ - 1]

ReplicationInit ==
    /\ Init
    /\ area = None /\ poll = None
    /\ sent = [l \in Fine |-> None] /\ last_applied = [l \in Fine |-> None]
    /\ flight = {} /\ delivered = {}
    /\ Client!MeshingInit
    /\ \E s \in Scenarios :
         /\ todo = s.todo /\ {l \in Locations : Resident(block[l])} = s.resident
         /\ budget = s.budget

-----------------------------------------------------------------------------
(* Server *)

\* set_peer_area: what enters the area is to be sent again.
SetArea(new) ==
    /\ Spend("areas")
    /\ poll = None
    /\ LET entered == new \ (IF area = None THEN {} ELSE area) IN
         sent' = [l \in Fine |-> IF l \in entered THEN None ELSE sent[l]]
    /\ area' = new
    /\ UNCHANGED <<vars, poll, link, last_applied, client>>

\* The edited blocks of the area and their revisions, under the map lock.
PollScan ==
    /\ Spend("polls")
    /\ area # None /\ poll = None
    /\ map[0] = None
    /\ poll' = [l \in {k \in area : Resident(block[k]) /\ block[k].edited} |-> rev[l]]
    /\ UNCHANGED <<vars, area, sent, link, last_applied, client>>

\* The origin of voxels at the client, where 0 is its own terrain.
Origin(b) == b.voxels + 1

Frame(l) == [loc |-> l, rev |-> poll[l], voxels |-> Origin(block[l])]

ToSend(l) == (sent[l] = None \/ sent[l] < poll[l]) /\ Resident(block[l])

\* Each candidate: a snapshot of its voxels, taken later than its revision.
PollBlock ==
    /\ poll # None /\ poll # Nothing
    /\ LET l == Least(DOMAIN poll) IN
         /\ map[0] = None
         /\ IF ToSend(l)
            THEN sent' = [sent EXCEPT ![l] = poll[l]] /\ flight' = flight \cup {Frame(l)}
            ELSE UNCHANGED <<sent, flight>>
         /\ poll' = [k \in DOMAIN poll \ {l} |-> poll[k]]
    /\ UNCHANGED <<vars, area, delivered, last_applied, client, budget>>

PollEnds ==
    /\ poll = Nothing
    /\ poll' = None
    /\ UNCHANGED <<vars, area, sent, link, last_applied, client, budget>>

\* remove_peer at the server, reset at the client, and a new connection.
Rejoin ==
    /\ Spend("rejoins")
    /\ poll = None
    /\ area' = None
    /\ sent' = [l \in Fine |-> None] /\ last_applied' = [l \in Fine |-> None]
    /\ flight' = {} /\ delivered' = {}
    /\ UNCHANGED <<vars, poll, client>>

-----------------------------------------------------------------------------
(* Transport and client *)

Newer_Always(f) == TRUE
Newer_OrEqual(f) == last_applied[f.loc] = None \/ f.rev >= last_applied[f.loc]
Newer(f) == last_applied[f.loc] = None \/ f.rev > last_applied[f.loc]

\* apply_snapshot
Apply(f) ==
    IF Newer(f)
    THEN /\ last_applied' = [last_applied EXCEPT ![f.loc] = f.rev]
         /\ Client!InstallAndRemesh(f.loc, f.voxels)
    ELSE UNCHANGED <<last_applied, client>>

\* A frame may be delivered and still be on its way a second time.
Deliver(f) ==
    /\ Apply(f)
    /\ flight' \in {flight, flight \ {f}} /\ delivered' = delivered \cup {f}
    /\ UNCHANGED <<vars, server, budget>>

Lose(f) ==
    /\ Spend("losses")
    /\ flight' = flight \ {f}
    /\ UNCHANGED <<vars, server, delivered, last_applied, client>>

ClientViews ==
    /\ Spend("views")
    /\ \E l \in Fine : (Client!View(l) /\ UNCHANGED meshes) \/ Client!UnviewUnmeshed(l)
    /\ UNCHANGED <<vars, server, link, last_applied>>

ClientDemands ==
    /\ Spend("demands")
    /\ \E m \in Meshes : Client!Forget(m) \/ \E features \in SUBSET Client!Features : Client!Demand(m, features)
    /\ UNCHANGED <<vars, server, link, last_applied>>

ClientEdits ==
    /\ Spend("edits")
    /\ \E l \in Fine : Client!EditAndRemesh(l)
    /\ UNCHANGED <<vars, server, link, last_applied>>

ClientLoads ==
    /\ \/ Client!Dispatch /\ UNCHANGED meshes
       \/ \E r \in requests :
            \/ Client!LoadedAndMeshed(r)
            \/ (Client!Stale(r) \/ Client!Dropped(r) \/ Client!NotFound(r)) /\ UNCHANGED meshes
    /\ UNCHANGED <<vars, server, link, last_applied, budget>>

ClientMeshes ==
    /\ Client!DispatchMeshes \/ \E t \in mesh_tasks : Client!Gather(t) \/ Client!MeshAnswered(t)
    /\ UNCHANGED <<vars, server, link, last_applied, budget>>

ReplicationNext ==
    \/ Next /\ UNCHANGED replication
    \/ \E new \in (SUBSET Fine) \ {{}} : SetArea(new)
    \/ PollScan \/ PollBlock \/ PollEnds \/ Rejoin
    \/ \E f \in flight : Deliver(f) \/ Lose(f)
    \/ ClientViews \/ ClientDemands \/ ClientEdits \/ ClientLoads \/ ClientMeshes

\* The core ticks, and its task runner answers every task it was given.
ReplicationSpec ==
    /\ ReplicationInit /\ [][ReplicationNext]_<<vars, replication>>
    /\ WF_<<vars, replication>>(ClientLoads)

-----------------------------------------------------------------------------
(* Properties *)

Frames == [loc : Fine, rev : Nat, voxels : Nat \ {0}]

\* Type invariant of the store, of replication and of the client's terrain.
ReplicationTypeOK ==
    /\ TypeOK
    /\ area = None \/ area \in SUBSET Fine
    /\ poll = None \/ DOMAIN poll \subseteq Fine
    /\ sent \in [Fine -> {None} \cup Nat] /\ last_applied \in [Fine -> {None} \cup Nat]
    /\ flight \subseteq Frames /\ delivered \subseteq Frames
    /\ Client!TypeOK /\ Client!MeshTypeOK

\* Once a frame of the server's current revision of a block has arrived, the
\* client shows the server's voxels, whatever older frame arrived before or
\* arrives after, and although a frame's voxels are read after its revision.
InSync ==
    \A f \in delivered :
        Resident(block[f.loc]) /\ f.rev = rev[f.loc] /\ map[0] = None =>
            /\ cblock[f.loc] # None
            /\ cblock[f.loc].voxels = Origin(block[f.loc])

\* The voxels of a resident block of the client are never replaced by older ones.
ClientNeverGoesBack ==
    [][\A l \in Fine :
         cblock[l] # None /\ cblock'[l] # None => cblock'[l].voxels >= cblock[l].voxels]_client

\* See TerrainPaging: here with the server's blocks among the client's own.
EveryViewCounted == Client!EveryViewCounted
NoLoadLost == Client!NoLoadLost
LoadsEnd == Client!LoadsEnd
PagingNeverRefused == Client!PagingNeverRefused

\* See TerrainMeshing: here with the server's blocks among the client's own.
MeshesCatchUp == Client!MeshesCatchUp
=============================================================================
