-------------------------- MODULE ReplicationProofs -------------------------
(***************************************************************************)
(* Machine-checked proofs about Replication for any threads, scenarios,    *)
(* areas and losses: replication never disturbs the server's store, and a  *)
(* client that does not edit its own blocks shows what it was last sent,   *)
(* however frames overtake each other; no client is ever shown a block     *)
(* older than the one it has.                                              *)
(***************************************************************************)
EXTENDS Replication, VoxelDataProofs

\* What is bounded: the budget of a scenario has a number for each.
Budgets == {"areas", "polls", "rejoins", "losses", "views", "demands", "edits"}

\* The terrain of the client is the server's alone: what it edits itself is
\* evicted by its own paging, and the next frame may come before or after.
ClientOnlyViews ==
    \A s \in Scenarios :
        s.budget \in [Budgets -> Nat]
        /\ s.budget["edits"] = 0

all == <<vars, replication>>

\* A frame is no newer than the store, and shows it when it is as new.
FrameOK(f) ==
    /\ f \in Frames /\ f.rev <= rev[f.loc]
    /\ f.rev = rev[f.loc] /\ Resident(block[f.loc]) => f.voxels = Origin(block[f.loc])

\* What the client remembers of a location, and shows of it.
AppliedOK(l) ==
    /\ last_applied[l] \in {None} \cup Nat
    /\ last_applied[l] # None =>
         /\ last_applied[l] <= rev[l]
         /\ cblock[l] # None /\ cblock[l].viewers = 0
         /\ last_applied[l] = rev[l] /\ Resident(block[l]) => cblock[l].voxels = Origin(block[l])

\* Who counts on a block of the client: somebody, or it is not tracked.
CountedOK(l) ==
    /\ tracked[l] # None => tracked[l] \in Nat \ {0}
    /\ loading[l] # None => "refs" \in DOMAIN loading[l] /\ loading[l].refs \in Nat \ {0}

PollOK ==
    poll # None =>
        \E S \in SUBSET Fine : poll \in [S -> Nat] /\ \A l \in S : poll[l] <= rev[l]

RInv ==
    /\ area = None \/ area \in SUBSET Fine
    /\ PollOK
    /\ \A f \in flight : FrameOK(f)
    /\ \A f \in delivered : FrameOK(f) /\ last_applied[f.loc] # None /\ f.rev <= last_applied[f.loc]
    /\ DOMAIN last_applied = Fine /\ DOMAIN cblock = Fine
    /\ DOMAIN tracked = Fine /\ DOMAIN loading = Fine
    /\ \A l \in Fine : AppliedOK(l) /\ CountedOK(l)
    /\ budget \in [Budgets -> Nat]
    /\ budget["edits"] = 0

-----------------------------------------------------------------------------
(* The server's store *)

\* Replication reads the store and never writes it.
LEMMA StoreStep == [ReplicationNext]_all => [Next]_vars
<1> SUFFICES ASSUME [ReplicationNext]_all PROVE [Next]_vars OBVIOUS
<1>1. CASE UNCHANGED all BY <1>1 DEF all
<1>2. CASE Next /\ UNCHANGED replication BY <1>2
<1>3. ASSUME NEW new, SetArea(new) PROVE UNCHANGED vars BY <1>3 DEF SetArea
<1>4. CASE PollScan \/ PollBlock \/ PollEnds \/ Rejoin
  BY <1>4 DEF PollScan, PollBlock, PollEnds, Rejoin
<1>5. ASSUME NEW f, Deliver(f) \/ Lose(f) PROVE UNCHANGED vars BY <1>5 DEF Deliver, Lose
<1>6. CASE ClientViews \/ ClientDemands \/ ClientEdits \/ ClientLoads \/ ClientMeshes
  BY <1>6 DEF ClientViews, ClientDemands, ClientEdits, ClientLoads, ClientMeshes
<1>7. QED BY <1>1, <1>2, <1>3, <1>4, <1>5, <1>6 DEF ReplicationNext

\* The server's store runs as it does alone, so all that VoxelDataProofs shows
\* of it holds while it is replicated.
THEOREM StoreUndisturbed == ReplicationSpec => Spec
<1>1. ReplicationInit => Init BY DEF ReplicationInit
<1>2. QED BY <1>1, StoreStep, PTL DEF ReplicationSpec, Spec, all

\* A location changes only with its revision, and revisions only grow.
LEMMA RevisionTells ==
    ASSUME IInv, IInv', [Next]_vars, NEW l \in Locations
    PROVE  (rev'[l] = rev[l] /\ block'[l] = block[l]) \/ rev[l] < rev'[l]
<1>1. Shape /\ Shape' BY DEF IInv
<1>2. CASE UNCHANGED vars BY <1>2 DEF vars, store
<1>3. ASSUME NEW t \in Threads, Step(t)
      PROVE  (rev'[l] = rev[l] /\ block'[l] = block[l]) \/ rev[l] < rev'[l]
  <2>1. CASE WriteBlock(t)
    <3>1. /\ pc[t] = "write" /\ todo[t] # <<>> /\ DOMAIN plan[t] # {} /\ DOMAIN plan[t] \subseteq Locations
          /\ DOMAIN plan[t] \subseteq Nat
      BY <1>1, <2>1, VoxelDataAssumption DEF WriteBlock, IInv, ThreadOK, KindOK, Shape, VoxelDataAssumption
    <3>2. PICK k \in DOMAIN plan[t] : k = Least(DOMAIN plan[t]) BY <3>1, LeastIn
    <3>3. NextRevision(t, k) = rev[k] + 1
      BY <3>1, <3>2 DEF NextRevision, IInv, ThreadOK, PlanOK
    <3>4. rev' = [rev EXCEPT ![k] = rev[k] + 1] /\ \E b : block' = [block EXCEPT ![k] = b]
      BY <2>1, <3>2, <3>3 DEF WriteBlock
    <3>5. QED BY <1>1, <3>1, <3>2, <3>4 DEF Shape
  <2>2. CASE ~WriteBlock(t)
    <3>1. UNCHANGED <<rev, block>>
      BY <1>3, <2>2 DEF Step, Begin, Peek, Prepare, PrepareFails, Refuse, Administer, Enter, TakeRegion,
         ReservationFails, TakeMap, Copy, Check, CheckFails, Written, Unlock, Leave, store
    <3>2. QED BY <3>1
  <2>3. QED BY <2>1, <2>2
<1>4. QED BY <1>2, <1>3 DEF Next

-----------------------------------------------------------------------------
(* Steps of the server and of the network *)

\* The server's store moves on.
LEMMA StoreMoves ==
    ASSUME RInv, IInv, IInv', [Next]_vars, UNCHANGED replication PROVE RInv'
<1>1. Fine \subseteq Locations /\ None \notin Nat
  BY ReplicationAssumption DEF Fine, OnLod, Client!MeshingAssumption, Client!PagingAssumption
<1>2. \A l \in Fine : (rev'[l] = rev[l] /\ block'[l] = block[l]) \/ rev[l] < rev'[l]
  BY <1>1, RevisionTells
<1>3. \A l \in Fine : rev[l] \in Nat /\ rev'[l] \in Nat BY <1>1 DEF IInv, Shape
<1>4. UNCHANGED <<area, sent, poll, flight, delivered, last_applied, cblock, tracked, loading, budget>>
  BY DEF replication, server, link, client, paging
<1>5. ASSUME NEW f, FrameOK(f) PROVE FrameOK(f)'
  <2>1. f.loc \in Fine /\ f.rev \in Nat BY <1>5 DEF FrameOK, Frames
  <2>2. CASE rev'[f.loc] = rev[f.loc] /\ block'[f.loc] = block[f.loc]
    <3>1. Origin(block[f.loc])' = Origin(block[f.loc]) BY <2>2 DEF Origin
    <3>2. QED BY <1>5, <2>2 DEF FrameOK, Origin
  <2>3. CASE rev[f.loc] < rev'[f.loc] BY <1>3, <1>5, <2>1, <2>3 DEF FrameOK
  <2>4. QED BY <1>2, <2>1, <2>2, <2>3
<1>6. ASSUME NEW l \in Fine PROVE AppliedOK(l)' /\ CountedOK(l)'
  <2>1. AppliedOK(l) /\ CountedOK(l) BY DEF RInv
  <2>2. CountedOK(l)' BY <1>4, <2>1 DEF CountedOK
  <2>3. CASE rev'[l] = rev[l] /\ block'[l] = block[l] BY <1>4, <2>1, <2>2, <2>3 DEF AppliedOK, Origin
  <2>4. CASE rev[l] < rev'[l] BY <1>1, <1>3, <1>4, <2>1, <2>2, <2>4 DEF AppliedOK
  <2>5. QED BY <1>2, <2>3, <2>4
<1>7. PollOK'
  <2>1. CASE poll = None BY <1>4, <2>1 DEF PollOK
  <2>2. CASE poll # None
    <3>1. PICK S \in SUBSET Fine : poll \in [S -> Nat] /\ \A l \in S : poll[l] <= rev[l]
      BY <2>2 DEF RInv, PollOK
    <3>2. ASSUME NEW l \in S PROVE poll[l] <= rev'[l]
      <4>1. poll[l] \in Nat /\ poll[l] <= rev[l] /\ rev[l] \in Nat /\ rev'[l] \in Nat BY <1>3, <3>1
      <4>2. rev[l] <= rev'[l] BY <1>2, <4>1
      <4>3. QED BY <4>1, <4>2
    <3>3. QED BY <1>4, <3>1, <3>2 DEF PollOK
  <2>3. QED BY <2>1, <2>2
<1>8. QED BY <1>4, <1>5, <1>6, <1>7 DEF RInv

LEMMA SetAreaStep ==
    ASSUME RInv, NEW new \in SUBSET Fine, SetArea(new) PROVE RInv'
<1>1. area' = new /\ UNCHANGED <<vars, poll, link, last_applied, client>> /\ Spend("areas")
  BY DEF SetArea
<1>2. budget' \in [Budgets -> Nat] /\ budget'["edits"] = 0
  BY <1>1 DEF RInv, Spend, Budgets
<1>3. UNCHANGED <<rev, block, poll, flight, delivered, last_applied, cblock, tracked, loading>>
  BY <1>1 DEF vars, store, link, client, paging
<1>4. QED BY <1>1, <1>2, <1>3 DEF RInv, PollOK, FrameOK, AppliedOK, CountedOK, Origin

LEMMA PollScanStep ==
    ASSUME RInv, IInv, PollScan PROVE RInv'
<1> DEFINE S == {k \in area : Resident(block[k]) /\ block[k].edited}
<1>1. /\ poll' = [l \in S |-> rev[l]] /\ area \in SUBSET Fine
      /\ UNCHANGED <<vars, area, sent, link, last_applied, client>> /\ Spend("polls")
  BY DEF PollScan, RInv
<1>2. S \subseteq Fine BY <1>1
<1> HIDE DEF S
<1>3. \A l \in S : rev[l] \in Nat BY <1>2 DEF IInv, Shape, Fine, OnLod
<1>4. budget' \in [Budgets -> Nat] /\ budget'["edits"] = 0
  BY <1>1 DEF RInv, Spend, Budgets
<1>5. UNCHANGED <<rev, block, area, flight, delivered, last_applied, cblock, tracked, loading>>
  BY <1>1 DEF vars, store, link, client, paging
<1>6. PollOK'
  <2>1. poll' \in [S -> Nat] /\ \A l \in S : poll'[l] <= rev'[l] BY <1>1, <1>3, <1>5
  <2>2. QED BY <1>2, <2>1 DEF PollOK
<1>7. QED BY <1>1, <1>4, <1>5, <1>6 DEF RInv, FrameOK, AppliedOK, CountedOK, Origin

LEMMA PollBlockStep ==
    ASSUME RInv, IInv, PollBlock PROVE RInv'
<1>1. /\ poll # None /\ poll # Nothing
      /\ UNCHANGED <<vars, area, delivered, last_applied, client, budget>>
  BY DEF PollBlock
<1>2. PICK S \in SUBSET Fine : poll \in [S -> Nat] /\ \A l \in S : poll[l] <= rev[l]
  BY <1>1 DEF RInv, PollOK
<1>3. S # {} /\ S \subseteq Nat /\ S \subseteq Locations /\ DOMAIN poll = S
  <2>1. S # {}
    <3>1. SUFFICES ASSUME S = {} PROVE FALSE OBVIOUS
    <3>2. poll \in [{} -> Nat] BY <1>2, <3>1
    <3>3. poll = <<>> BY <3>2
    <3>4. QED BY <1>1, <3>3 DEF Nothing
  <2>2. QED BY <1>2, <2>1, VoxelDataAssumption DEF Fine, OnLod, VoxelDataAssumption
<1>4. PICK l \in S : l = Least(DOMAIN poll) BY <1>3, LeastIn
<1>5. /\ (ToSend(l) /\ flight' = flight \cup {Frame(l)}) \/ flight' = flight
      /\ poll' = [k \in S \ {l} |-> poll[k]]
  BY <1>3, <1>4 DEF PollBlock
<1>6. UNCHANGED <<rev, block, area, delivered, last_applied, cblock, tracked, loading, budget>>
  BY <1>1 DEF vars, store, client, paging
<1>7. PollOK'
  <2>1. poll' \in [S \ {l} -> Nat] /\ \A k \in S \ {l} : poll'[k] <= rev'[k]
    BY <1>2, <1>5, <1>6
  <2>2. S \ {l} \in SUBSET Fine BY <1>2
  <2>3. QED BY <2>1, <2>2 DEF PollOK
<1>8. ToSend(l) => FrameOK(Frame(l))
  <2>1. SUFFICES ASSUME ToSend(l) PROVE FrameOK(Frame(l)) OBVIOUS
  <2>2. Resident(block[l]) /\ block[l] \in Blocks BY <1>3, <2>1 DEF ToSend, IInv, Shape
  <2>3. Origin(block[l]) \in Nat \ {0} BY <2>2 DEF Origin, Resident, Blocks
  <2>4. Frame(l) \in Frames /\ Frame(l).loc = l /\ Frame(l).rev = poll[l] /\ Frame(l).voxels = Origin(block[l])
    BY <1>2, <1>4, <2>3 DEF Frame, Frames
  <2>5. QED BY <1>2, <2>4 DEF FrameOK
<1>9. \A f \in flight' : FrameOK(f)
  BY <1>5, <1>8 DEF RInv
<1>10. \A f : FrameOK(f) => FrameOK(f)' BY <1>6 DEF FrameOK, Origin
<1>11. QED BY <1>6, <1>7, <1>9, <1>10 DEF RInv, AppliedOK, CountedOK, Origin

LEMMA RejoinStep ==
    ASSUME RInv, Rejoin PROVE RInv'
<1>1. /\ area' = None /\ last_applied' = [l \in Fine |-> None] /\ flight' = {} /\ delivered' = {}
      /\ UNCHANGED <<vars, poll, client>> /\ Spend("rejoins")
  BY DEF Rejoin
<1>2. budget' \in [Budgets -> Nat] /\ budget'["edits"] = 0
  BY <1>1 DEF RInv, Spend, Budgets
<1>3. UNCHANGED <<rev, block, poll, cblock, tracked, loading>> BY <1>1 DEF vars, store, client, paging
<1>4. QED BY <1>1, <1>2, <1>3 DEF RInv, PollOK, AppliedOK, CountedOK

LEMMA PollEndsStep ==
    ASSUME RInv, PollEnds PROVE RInv'
<1>1. poll' = None /\ UNCHANGED <<vars, area, sent, link, last_applied, client, budget>> BY DEF PollEnds
<1>2. UNCHANGED <<rev, block, area, flight, delivered, last_applied, cblock, tracked, loading, budget>>
  BY <1>1 DEF vars, store, link, client, paging
<1>3. QED BY <1>1, <1>2 DEF RInv, PollOK, FrameOK, AppliedOK, CountedOK, Origin

LEMMA LoseStep ==
    ASSUME RInv, NEW f, Lose(f) PROVE RInv'
<1>1. flight' \subseteq flight /\ Spend("losses") /\ UNCHANGED <<vars, server, delivered, last_applied, client>>
  BY DEF Lose
<1>2. budget' \in [Budgets -> Nat] /\ budget'["edits"] = 0
  BY <1>1 DEF RInv, Spend, Budgets
<1>3. UNCHANGED <<rev, block, area, poll, delivered, last_applied, cblock, tracked, loading>>
  BY <1>1 DEF vars, store, server, client, paging
<1>4. QED BY <1>1, <1>2, <1>3 DEF RInv, PollOK, FrameOK, AppliedOK, CountedOK, Origin

-----------------------------------------------------------------------------
(* Steps of the client *)

LEMMA DeliverStep ==
    ASSUME RInv, IInv, NEW f \in flight, Deliver(f) PROVE RInv'
<1>1. /\ Apply(f) /\ flight' \subseteq flight /\ delivered' = delivered \cup {f}
      /\ UNCHANGED <<vars, server, budget>>
  BY DEF Deliver
<1>2. UNCHANGED <<rev, block, area, poll, budget>> BY <1>1 DEF vars, store, server
<1>3. FrameOK(f) /\ f.loc \in Fine /\ f.rev \in Nat /\ f.voxels \in Nat BY DEF RInv, FrameOK, Frames
<1>4. \A g : FrameOK(g) => FrameOK(g)' BY <1>2 DEF FrameOK, Origin
<1>5. None \notin Nat /\ None \notin Client!Blocks BY ReplicationAssumption DEF Client!MeshingAssumption, Client!PagingAssumption
<1>6. PollOK' BY <1>2 DEF RInv, PollOK
<1>7. \A l \in Fine : last_applied[l] = None \/ last_applied[l] \in Nat BY DEF RInv, AppliedOK
<1>8. CASE Newer(f)
  <2>1. /\ last_applied' = [last_applied EXCEPT ![f.loc] = f.rev]
        /\ cblock' = [cblock EXCEPT ![f.loc] = Client!Stored(0, f.voxels)]
        /\ UNCHANGED <<tracked, loading>>
    BY <1>1, <1>8 DEF Apply, Client!InstallAndRemesh, Client!InstallRemote, Client!Set
  <2>2. /\ last_applied'[f.loc] = f.rev /\ cblock'[f.loc] = [viewers |-> 0, voxels |-> f.voxels]
        /\ \A l \in Fine \ {f.loc} : last_applied'[l] = last_applied[l] /\ cblock'[l] = cblock[l]
        /\ DOMAIN last_applied' = Fine /\ DOMAIN cblock' = Fine
    BY <1>3, <2>1 DEF RInv, Client!Stored
  <2>3. AppliedOK(f.loc)'
    <3>1. cblock'[f.loc] # None BY <1>3, <1>5, <2>2 DEF Client!Blocks
    <3>2. QED BY <1>2, <1>3, <2>2, <3>1 DEF AppliedOK, FrameOK, Origin
  <2>4. ASSUME NEW l \in Fine PROVE AppliedOK(l)' /\ CountedOK(l)'
    <3>1. CountedOK(l)' BY <2>1 DEF RInv, CountedOK
    <3>2. CASE l # f.loc BY <1>2, <2>2, <3>1, <3>2 DEF RInv, AppliedOK, Origin
    <3>3. QED BY <2>3, <3>1, <3>2
  <2>5. ASSUME NEW g \in delivered'
        PROVE  FrameOK(g) /\ last_applied'[g.loc] # None /\ g.rev <= last_applied'[g.loc]
    <3>1. CASE g = f BY <1>3, <1>5, <2>2, <3>1
    <3>2. CASE g # f
      <4>1. /\ g \in delivered /\ FrameOK(g) /\ g.loc \in Fine /\ g.rev \in Nat
            /\ last_applied[g.loc] # None /\ g.rev <= last_applied[g.loc]
        BY <1>1, <2>5, <3>2 DEF RInv, FrameOK, Frames
      <4>2. CASE g.loc = f.loc
        <5>1. last_applied[f.loc] \in Nat /\ f.rev > last_applied[f.loc]
          BY <1>7, <1>8, <4>1, <4>2 DEF Newer
        <5>2. QED BY <1>3, <1>5, <2>2, <4>1, <4>2, <5>1
      <4>3. CASE g.loc # f.loc BY <2>2, <4>1, <4>3
      <4>4. QED BY <4>2, <4>3
    <3>3. QED BY <3>1, <3>2
  <2>6. QED BY <1>1, <1>2, <1>4, <1>6, <2>1, <2>2, <2>4, <2>5 DEF RInv
<1>9. CASE ~Newer(f)
  <2>1. UNCHANGED <<last_applied, cblock, tracked, loading>> BY <1>1, <1>9 DEF Apply, client, paging
  <2>2. last_applied[f.loc] # None /\ f.rev <= last_applied[f.loc]
    BY <1>3, <1>7, <1>9 DEF Newer
  <2>3. \A l \in Fine : AppliedOK(l)' /\ CountedOK(l)'
    BY <1>2, <2>1 DEF RInv, AppliedOK, CountedOK, Origin
  <2>4. QED BY <1>1, <1>2, <1>3, <1>4, <1>6, <2>1, <2>2, <2>3 DEF RInv
<1>10. QED BY <1>8, <1>9

\* A step of the client's terrain at one location, which leaves what came from
\* the server alone.
LEMMA ClientStep ==
    ASSUME RInv, UNCHANGED <<vars, server, link, last_applied>>, NEW l,
           budget' = budget \/ Spend("views") \/ Spend("demands"),
           DOMAIN cblock' = Fine, DOMAIN tracked' = Fine, DOMAIN loading' = Fine,
           \A k \in Fine \ {l} : cblock'[k] = cblock[k] /\ tracked'[k] = tracked[k] /\ loading'[k] = loading[k],
           l \in Fine => CountedOK(l)' /\ (last_applied[l] # None => cblock'[l] = cblock[l])
    PROVE  RInv'
<1>1. UNCHANGED <<rev, block, area, poll, flight, delivered, last_applied>>
  BY DEF vars, store, server, link
<1>2. budget' \in [Budgets -> Nat] /\ budget'["edits"] = 0
  BY DEF RInv, Spend, Budgets
<1>3. ASSUME NEW k \in Fine PROVE AppliedOK(k)' /\ CountedOK(k)'
  <2>1. CASE k = l BY <1>1, <2>1 DEF RInv, AppliedOK, Origin
  <2>2. CASE k # l BY <1>1, <2>2 DEF RInv, AppliedOK, CountedOK, Origin
  <2>3. QED BY <2>1, <2>2
<1>4. PollOK' /\ \A f : FrameOK(f) => FrameOK(f)' BY <1>1 DEF RInv, PollOK, FrameOK, Origin
<1>5. QED BY <1>1, <1>2, <1>3, <1>4 DEF RInv

\* Paging refuses what came from the server: nobody counts on it.
LEMMA ServersBlock ==
    ASSUME RInv, NEW l \in Fine, last_applied[l] # None PROVE Client!Mismatch(l)
<1>1. cblock[l] # None /\ cblock[l].viewers = 0 /\ CountedOK(l) BY DEF RInv, AppliedOK
<1>2. QED BY <1>1 DEF Client!Mismatch, Client!Absent, CountedOK

LEMMA ClientViewsStep ==
    ASSUME RInv, ClientViews PROVE RInv'
<1>1. PICK l \in Fine : Client!View(l) \/ Client!Unview(l) BY DEF ClientViews, Client!UnviewUnmeshed
<1>2. UNCHANGED <<vars, server, link, last_applied>> /\ Spend("views") BY DEF ClientViews
<1>3. /\ DOMAIN cblock = Fine /\ DOMAIN tracked = Fine /\ DOMAIN loading = Fine /\ CountedOK(l)
      /\ None \notin Nat /\ None \notin Client!Entries
  BY ReplicationAssumption DEF RInv, Client!MeshingAssumption, Client!PagingAssumption
<1>4. ~Client!Mismatch(l) BY <1>1 DEF Client!View, Client!Unview
<1>5. last_applied[l] = None BY <1>4, ServersBlock
<1>6. Client!Refs(l) \in Nat BY <1>3 DEF Client!Refs, CountedOK
<1>7. ASSUME NEW n \in Nat \ {0}, tracked' = [tracked EXCEPT ![l] = n],
             \E b : cblock' = [cblock EXCEPT ![l] = b], loading' = loading
      PROVE  RInv'
  <2>1. CountedOK(l)' BY <1>3, <1>7 DEF CountedOK
  <2>2. QED BY <1>2, <1>3, <1>5, <1>7, <2>1, ClientStep
<1>8. ASSUME NEW n \in Nat \ {0}, Client!Join(l, n), loading[l] # None PROVE RInv'
  <2>1. UNCHANGED <<cblock, tracked>> /\ loading' = [loading EXCEPT ![l] = [loading[l] EXCEPT !.refs = n]]
    BY <1>8 DEF Client!Join
  <2>2. loading'[l] = [loading[l] EXCEPT !.refs = n] BY <1>3, <2>1
  <2>3. "refs" \in DOMAIN loading[l] BY <1>3, <1>8 DEF CountedOK
  <2>4. "refs" \in DOMAIN loading'[l] /\ loading'[l].refs = n BY <2>2, <2>3
  <2>5. CountedOK(l)' BY <1>3, <2>1, <2>4 DEF CountedOK
  <2>6. QED BY <1>2, <1>3, <1>5, <2>1, <2>5, ClientStep
<1>9. ASSUME NEW n \in Nat \ {0}, Client!Request(l, n) PROVE RInv'
  <2>1. UNCHANGED <<cblock, tracked>> /\ \E r, g, s : loading' = [loading EXCEPT ![l] = Client!Entry(n, r, g, s)]
    BY <1>9 DEF Client!Request, Client!Set
  <2>2. CountedOK(l)' BY <1>3, <2>1 DEF CountedOK, Client!Entry
  <2>3. QED BY <1>2, <1>3, <1>5, <2>1, <2>2, ClientStep
<1>10. ASSUME Client!Abandon(l) \/ UNCHANGED <<cblock, tracked, loading>> PROVE RInv'
  <2>1. UNCHANGED <<cblock, tracked>> /\ (loading' = [loading EXCEPT ![l] = None] \/ loading' = loading)
    BY <1>10 DEF Client!Abandon, Client!Set
  <2>2. CountedOK(l)' BY <1>3, <2>1 DEF CountedOK
  <2>3. QED BY <1>2, <1>3, <1>5, <2>1, <2>2, ClientStep
<1>11. ASSUME Client!Remove(l) PROVE RInv'
  <2>1. /\ tracked' = [tracked EXCEPT ![l] = None] /\ cblock' = [cblock EXCEPT ![l] = None]
        /\ loading' = loading
    BY <1>11 DEF Client!Remove, Client!Set
  <2>2. CountedOK(l)' BY <1>3, <2>1 DEF CountedOK
  <2>3. QED BY <1>2, <1>3, <1>5, <2>1, <2>2, ClientStep
<1>12. CASE Client!View(l)
  <2>1. CASE Client!Present(l) /\ Client!SetResident(l, tracked[l] + 1)
    <3>1. tracked[l] \in Nat BY <1>3, <1>4, <2>1 DEF Client!Mismatch, Client!Present, Client!Absent, CountedOK
    <3>2. PICK n \in Nat \ {0} : n = tracked[l] + 1 BY <3>1
    <3>3. QED BY <1>7, <2>1, <3>2 DEF Client!SetResident, Client!Set
  <2>2. CASE Client!OnItsWay(l) /\ Client!Join(l, Client!Refs(l) + 1)
    <3>1. Client!Refs(l) + 1 \in Nat \ {0} /\ loading[l] # None BY <1>6, <2>2 DEF Client!OnItsWay
    <3>2. QED BY <1>8, <2>2, <3>1
  <2>3. CASE Client!Request(l, Client!Refs(l) + 1)
    <3>1. Client!Refs(l) + 1 \in Nat \ {0} BY <1>6
    <3>2. QED BY <1>9, <2>3, <3>1
  <2>4. QED BY <1>12, <2>1, <2>2, <2>3 DEF Client!View
<1>13. CASE Client!Unview(l)
  <2>1. CASE Client!Present(l) /\ tracked[l] > 1 /\ Client!SetResident(l, tracked[l] - 1)
    <3>1. tracked[l] \in Nat BY <1>3, <1>4, <2>1 DEF Client!Mismatch, Client!Present, Client!Absent, CountedOK
    <3>2. PICK n \in Nat \ {0} : n = tracked[l] - 1 BY <2>1, <3>1
    <3>3. QED BY <1>7, <2>1, <3>2 DEF Client!SetResident, Client!Set
  <2>2. CASE Client!Refs(l) > 1 /\ Client!Join(l, Client!Refs(l) - 1)
    <3>1. Client!Refs(l) - 1 \in Nat \ {0} /\ loading[l] # None BY <1>6, <2>2 DEF Client!Refs
    <3>2. QED BY <1>8, <2>2, <3>1
  <2>3. QED BY <1>10, <1>11, <1>13, <2>1, <2>2 DEF Client!Unview
<1>14. QED BY <1>1, <1>12, <1>13

LEMMA ClientLoadsStep ==
    ASSUME RInv, ClientLoads PROVE RInv'
<1>1. UNCHANGED <<vars, server, link, last_applied, budget>> BY DEF ClientLoads
<1>2. /\ DOMAIN cblock = Fine /\ DOMAIN tracked = Fine /\ DOMAIN loading = Fine
      /\ None \notin Nat /\ None \notin Client!Entries
      /\ \A l \in Fine : CountedOK(l) /\ (last_applied[l] # None => cblock[l] # None)
  BY ReplicationAssumption DEF RInv, AppliedOK, Client!MeshingAssumption, Client!PagingAssumption
<1>3. CASE Client!Dispatch
  <2>1. /\ UNCHANGED <<cblock, tracked>> /\ DOMAIN loading' = Fine
        /\ \A l \in Fine : loading'[l] = loading[l]
             \/ (loading[l] # None /\ loading'[l] = [loading[l] EXCEPT !.state = "InFlight"])
    BY <1>3 DEF Client!Dispatch
  <2>2. ASSUME NEW l \in Fine PROVE AppliedOK(l)' /\ CountedOK(l)'
    <3>1. CountedOK(l)'
      <4>1. CASE loading'[l] = loading[l] BY <1>2, <2>1, <4>1 DEF CountedOK
      <4>2. CASE loading[l] # None /\ loading'[l] = [loading[l] EXCEPT !.state = "InFlight"]
        <5>1. DOMAIN loading'[l] = DOMAIN loading[l] /\ loading'[l].refs = loading[l].refs BY <4>2
        <5>2. QED BY <1>2, <2>1, <4>2, <5>1 DEF CountedOK
      <4>3. QED BY <2>1, <4>1, <4>2
    <3>2. AppliedOK(l)' BY <1>1, <2>1 DEF RInv, AppliedOK, Origin, vars, store
    <3>3. QED BY <3>1, <3>2
  <2>3. UNCHANGED <<rev, block, area, poll, flight, delivered, last_applied, budget>>
    BY <1>1 DEF vars, store, server, link
  <2>4. PollOK' /\ \A f : FrameOK(f) => FrameOK(f)' BY <2>3 DEF RInv, PollOK, FrameOK, Origin
  <2>5. QED BY <1>2, <2>1, <2>2, <2>3, <2>4 DEF RInv
<1>4. ASSUME NEW r \in requests, Client!Stale(r) PROVE RInv'
  <2>1. UNCHANGED <<cblock, tracked, loading>> BY <1>4 DEF Client!Stale
  <2>2. r.loc \in Fine => CountedOK(r.loc)' BY <1>2, <2>1 DEF CountedOK
  <2>3. QED BY <1>1, <1>2, <2>1, <2>2, ClientStep
<1>5. ASSUME NEW r \in requests, Client!Loaded(r) PROVE RInv'
  <2> DEFINE l == r.loc
  <2>1. /\ loading' = [loading EXCEPT ![l] = None] /\ loading[l] # None
        /\ (cblock[l] # None /\ UNCHANGED <<cblock, tracked>>)
           \/ (cblock[l] = None /\ tracked' = [tracked EXCEPT ![l] = loading[l].refs]
               /\ \E b : cblock' = [cblock EXCEPT ![l] = b])
    BY <1>5 DEF Client!Loaded, Client!Set, Client!Current, Client!Present, Client!Absent, Client!Refs
  <2>2. l \in Fine => CountedOK(l)' BY <1>2, <2>1 DEF CountedOK
  <2>3. l \in Fine => (last_applied[l] # None => cblock'[l] = cblock[l]) BY <1>2, <2>1
  <2>4. DOMAIN cblock' = Fine /\ DOMAIN tracked' = Fine /\ DOMAIN loading' = Fine
        /\ \A k \in Fine \ {l} : cblock'[k] = cblock[k] /\ tracked'[k] = tracked[k] /\ loading'[k] = loading[k]
    BY <1>2, <2>1
  <2>5. QED BY <1>1, <2>2, <2>3, <2>4, ClientStep
<1>6. ASSUME NEW r \in requests, Client!Dropped(r) PROVE RInv'
  <2> DEFINE l == r.loc
  <2>1. /\ UNCHANGED <<cblock, tracked>> /\ loading[l] # None
        /\ \E n, g, s : loading' = [loading EXCEPT ![l] = Client!Entry(loading[l].refs, n, g, s)]
    BY <1>6 DEF Client!Dropped, Client!Set, Client!Current
  <2>2. l \in Fine => CountedOK(l)' BY <1>2, <2>1 DEF CountedOK, Client!Entry
  <2>3. QED BY <1>1, <1>2, <2>1, <2>2, ClientStep
<1>7. ASSUME NEW r \in requests, Client!NotFound(r) PROVE RInv'
  <2> DEFINE l == r.loc
  <2>1. /\ UNCHANGED <<cblock, tracked>> /\ loading[l] # None
        /\ loading' = [loading EXCEPT ![l] = [loading[l] EXCEPT !.state = "NotFound"]]
    BY <1>7 DEF Client!NotFound, Client!Current
  <2>2. ASSUME l \in Fine PROVE CountedOK(l)'
    <3>1. loading'[l] = [loading[l] EXCEPT !.state = "NotFound"] BY <1>2, <2>1, <2>2
    <3>2. DOMAIN loading'[l] = DOMAIN loading[l] /\ loading'[l].refs = loading[l].refs BY <3>1
    <3>3. QED BY <1>2, <2>1, <2>2, <3>2 DEF CountedOK
  <2>3. QED BY <1>1, <1>2, <2>1, <2>2, ClientStep
<1>8. QED BY <1>3, <1>4, <1>5, <1>6, <1>7 DEF ClientLoads, Client!LoadedAndMeshed

\* What the meshes do, the blocks of the client do not notice.
LEMMA ClientMeshesStep ==
    ASSUME RInv, ClientDemands \/ ClientMeshes PROVE RInv'
<1>1. UNCHANGED <<vars, server, link, last_applied>> /\ (budget' = budget \/ Spend("demands"))
  BY DEF ClientDemands, ClientMeshes
<1>2. UNCHANGED Client!vars
  BY DEF ClientDemands, ClientMeshes, Client!Forget, Client!Demand, Client!DispatchMeshes, Client!Gather,
         Client!MeshAnswered, Client!MeshStale, Client!MeshBuilt, Client!MeshRefused, Client!MeshDied,
         Client!TakeMesh
<1>3. UNCHANGED <<cblock, tracked, loading>> BY <1>2 DEF Client!vars
<1>4. /\ DOMAIN cblock = Fine /\ DOMAIN tracked = Fine /\ DOMAIN loading = Fine
      /\ \A l \in Fine : CountedOK(l)
  BY DEF RInv
<1>5. \A l \in Fine : CountedOK(l)' BY <1>3, <1>4 DEF CountedOK
<1>6. QED BY <1>1, <1>3, <1>4, <1>5, ClientStep

-----------------------------------------------------------------------------
(* The theorems *)

LEMMA ReplicationInitHolds == ClientOnlyViews /\ ReplicationInit => RInv
<1> SUFFICES ASSUME ClientOnlyViews, ReplicationInit PROVE RInv OBVIOUS
<1>1. /\ area = None /\ poll = None /\ flight = {} /\ delivered = {}
      /\ last_applied = [l \in Fine |-> None] /\ cblock = [l \in Fine |-> None]
      /\ tracked = [l \in Fine |-> None] /\ loading = [l \in Fine |-> None]
  BY DEF ReplicationInit, Client!MeshingInit, Client!Init
<1>2. budget \in [Budgets -> Nat] /\ budget["edits"] = 0
  BY DEF ReplicationInit, ClientOnlyViews
<1>3. QED BY <1>1, <1>2 DEF RInv, PollOK, AppliedOK, CountedOK

LEMMA ReplicationStepHolds == IInv /\ IInv' /\ RInv /\ [ReplicationNext]_all => RInv'
<1> SUFFICES ASSUME IInv, IInv', RInv, [ReplicationNext]_all PROVE RInv' OBVIOUS
<1>1. CASE UNCHANGED all \/ (Next /\ UNCHANGED replication)
  BY <1>1, StoreMoves DEF all
<1>2. CASE ClientEdits
  <2>1. budget["edits"] > 0 BY <1>2 DEF ClientEdits, Spend
  <2>2. QED BY <2>1 DEF RInv
<1>3. QED
  BY <1>1, <1>2, SetAreaStep, PollScanStep, PollBlockStep, PollEndsStep, RejoinStep, DeliverStep,
     LoseStep, ClientViewsStep, ClientLoadsStep, ClientMeshesStep DEF ReplicationNext

\* The inductive invariant: frames and what the client remembers are no newer
\* than the store, and whatever came from the server is out of paging's reach.
THEOREM ReplicationInvariance == ClientOnlyViews => (ReplicationSpec => []RInv)
<1> SUFFICES ASSUME ClientOnlyViews PROVE ReplicationSpec => []RInv OBVIOUS
<1>1. ReplicationInit => RInv BY ReplicationInitHolds
<1>2. IInv /\ IInv' /\ RInv /\ [ReplicationNext]_all => RInv' BY ReplicationStepHolds
<1>3. QED BY <1>1, <1>2, Invariance, StoreUndisturbed, PTL DEF ReplicationSpec, all

\* Of any frames, lost, repeated or overtaken, the client that has received the
\* one of the server's current revision shows the server's voxels.
THEOREM ClientInSync == ClientOnlyViews => (ReplicationSpec => []InSync)
<1> SUFFICES ASSUME ClientOnlyViews PROVE ReplicationSpec => []InSync OBVIOUS
<1>1. RInv /\ IInv => InSync
  <2> SUFFICES ASSUME RInv, IInv, NEW f \in delivered, Resident(block[f.loc]), f.rev = rev[f.loc]
               PROVE  cblock[f.loc] # None /\ cblock[f.loc].voxels = Origin(block[f.loc])
    BY DEF InSync
  <2>1. /\ f.loc \in Fine /\ f.rev \in Nat /\ last_applied[f.loc] # None
        /\ f.rev <= last_applied[f.loc] /\ AppliedOK(f.loc)
    BY DEF RInv, FrameOK, Frames
  <2>2. last_applied[f.loc] = rev[f.loc] BY <2>1 DEF AppliedOK
  <2>3. QED BY <2>1, <2>2 DEF AppliedOK
<1>2. QED BY <1>1, ReplicationInvariance, Invariance, StoreUndisturbed, PTL

-----------------------------------------------------------------------------
(* The types, and the client's terrain as it is on its own *)

\* The client's terrain with what TerrainProofs shows of it.
Terrain == INSTANCE TerrainProofs WITH block <- cblock, Locations <- Fine

\* What ReplicationTypeOK says of the server and of the network.
LinkTypes ==
    /\ area = None \/ area \in SUBSET Fine
    /\ poll # None => \E S \in SUBSET Fine : poll \in [S -> Nat]
    /\ sent \in [Fine -> {None} \cup Nat] /\ last_applied \in [Fine -> {None} \cup Nat]
    /\ flight \subseteq Frames /\ delivered \subseteq Frames

LEMMA FrameTyped ==
    ASSUME Shape, poll # None, poll # Nothing, LinkTypes
    PROVE  LET l == Least(DOMAIN poll) IN
             /\ l \in DOMAIN poll /\ l \in Fine /\ poll[l] \in Nat
             /\ \E S \in SUBSET Fine : [k \in DOMAIN poll \ {l} |-> poll[k]] \in [S -> Nat]
             /\ Resident(block[l]) => Frame(l) \in Frames
<1>1. PICK S \in SUBSET Fine : poll \in [S -> Nat] BY DEF LinkTypes
<1>2. S # {}
  <2>1. SUFFICES ASSUME S = {} PROVE FALSE OBVIOUS
  <2>2. poll \in [{} -> Nat] BY <1>1, <2>1
  <2>3. poll = <<>> BY <2>2
  <2>4. QED BY <2>3 DEF Nothing
<1>3. S \subseteq Nat /\ S \subseteq Locations /\ DOMAIN poll = S
  BY <1>1, VoxelDataAssumption DEF Fine, OnLod, VoxelDataAssumption
<1>4. PICK l \in S : l = Least(DOMAIN poll) BY <1>2, <1>3, LeastIn
<1>5. S \ {l} \in SUBSET Fine /\ [k \in DOMAIN poll \ {l} |-> poll[k]] \in [S \ {l} -> Nat]
  BY <1>1, <1>3
<1>6. Resident(block[l]) => Frame(l) \in Frames
  <2>1. SUFFICES ASSUME Resident(block[l]) PROVE Frame(l) \in Frames OBVIOUS
  <2>2. block[l] \in Blocks BY <1>3 DEF Shape
  <2>3. Origin(block[l]) \in Nat \ {0} BY <2>1, <2>2 DEF Origin, Resident, Blocks
  <2>4. QED BY <1>1, <2>3 DEF Frame, Frames
<1>7. QED BY <1>1, <1>3, <1>4, <1>5, <1>6

LEMMA LinkTypesStep ==
    ASSUME IInv, LinkTypes, [ReplicationNext]_all PROVE LinkTypes'
<1>1. CASE UNCHANGED replication BY <1>1 DEF LinkTypes, replication, server, link, Frames
<1>2. ASSUME NEW new \in SUBSET Fine, SetArea(new) PROVE LinkTypes'
  <2>1. area' = new /\ sent' \in [Fine -> {None} \cup Nat] /\ UNCHANGED <<poll, last_applied, flight, delivered>>
    BY <1>2 DEF SetArea, link, LinkTypes
  <2>2. QED BY <2>1 DEF LinkTypes, Frames
<1>3. CASE PollScan
  <2> DEFINE S == {k \in area : Resident(block[k]) /\ block[k].edited}
  <2>1. /\ poll' = [l \in S |-> rev[l]] /\ S \subseteq Fine
        /\ UNCHANGED <<area, sent, last_applied, flight, delivered>>
    BY <1>3 DEF PollScan, LinkTypes, link
  <2>2. Fine \subseteq Locations BY DEF Fine, OnLod
  <2> HIDE DEF S
  <2>3. poll' \in [S -> Nat] BY <2>1, <2>2 DEF IInv, Shape
  <2>4. QED BY <2>1, <2>3 DEF LinkTypes, Frames
<1>4. CASE PollBlock
  <2> DEFINE l == Least(DOMAIN poll)
  <2>1. /\ poll # None /\ poll # Nothing
        /\ UNCHANGED <<area, delivered, last_applied>>
        /\ poll' = [k \in DOMAIN poll \ {l} |-> poll[k]]
        /\ \/ sent' = sent /\ flight' = flight
           \/ /\ Resident(block[l])
              /\ sent' = [sent EXCEPT ![l] = poll[l]] /\ flight' = flight \cup {Frame(l)}
    BY <1>4 DEF PollBlock, ToSend
  <2>2. Shape BY DEF IInv
  <2>3. /\ l \in Fine /\ poll[l] \in Nat
        /\ Resident(block[l]) => Frame(l) \in Frames
        /\ \E S \in SUBSET Fine : poll' \in [S -> Nat]
    BY <2>1, <2>2, FrameTyped
  <2> HIDE DEF l
  <2>4. sent \in [Fine -> {None} \cup Nat] /\ flight \subseteq Frames BY DEF LinkTypes
  <2>5. sent' \in [Fine -> {None} \cup Nat] BY <2>1, <2>3, <2>4
  <2>6. flight' \subseteq Frames BY <2>1, <2>3, <2>4
  <2>7. QED BY <2>1, <2>3, <2>5, <2>6 DEF LinkTypes, Frames
<1>5. CASE PollEnds
  BY <1>5 DEF PollEnds, LinkTypes, link, Frames
<1>6. CASE Rejoin
  BY <1>6 DEF Rejoin, LinkTypes, Frames
<1>7. ASSUME NEW f \in flight, Deliver(f) \/ Lose(f) PROVE LinkTypes'
  <2>1. f \in Frames /\ f.loc \in Fine /\ f.rev \in Nat BY DEF LinkTypes, Frames
  <2>2. /\ flight' \subseteq flight /\ delivered' \subseteq delivered \cup {f} /\ UNCHANGED <<area, sent, poll>>
        /\ last_applied' = last_applied \/ last_applied' = [last_applied EXCEPT ![f.loc] = f.rev]
    BY <1>7 DEF Deliver, Lose, Apply, server
  <2>3. QED BY <2>1, <2>2 DEF LinkTypes, Frames
<1>8. CASE ClientViews \/ ClientDemands \/ ClientEdits \/ ClientLoads \/ ClientMeshes
  BY <1>8 DEF ClientViews, ClientDemands, ClientEdits, ClientLoads, ClientMeshes, LinkTypes, server, link, Frames
<1>9. CASE UNCHANGED all BY <1>1, <1>9 DEF all
<1>10. QED BY <1>1, <1>2, <1>3, <1>4, <1>5, <1>6, <1>7, <1>8, <1>9 DEF ReplicationNext

\* Every step of the composition is a step of the client's terrain, or none.
LEMMA ClientTakesItsSteps ==
    ASSUME LinkTypes, [ReplicationNext]_all PROVE [Client!MeshingNext]_client
<1>1. CASE UNCHANGED client BY <1>1
<1>2. ASSUME NEW f \in flight, Deliver(f) PROVE [Client!MeshingNext]_client
  <2>1. f.loc \in Fine /\ f.voxels \in Nat \ {0} BY DEF LinkTypes, Frames
  <2>2. QED BY <1>1, <1>2, <2>1 DEF Deliver, Apply, Client!MeshingNext
<1>3. CASE ClientViews BY <1>3 DEF ClientViews, Client!MeshingNext, meshes, Client!meshing
<1>4. CASE ClientEdits BY <1>4 DEF ClientEdits, Client!MeshingNext
<1>5. CASE ClientLoads BY <1>5 DEF ClientLoads, Client!MeshingNext, meshes, Client!meshing
<1>6. CASE ClientDemands BY <1>6 DEF ClientDemands, Client!MeshingNext
<1>7. CASE ClientMeshes BY <1>7 DEF ClientMeshes, Client!MeshingNext
<1>8. CASE UNCHANGED all \/ (Next /\ UNCHANGED replication) BY <1>1, <1>8 DEF all, replication
<1>9. ASSUME NEW new, SetArea(new) PROVE UNCHANGED client BY <1>9 DEF SetArea
<1>10. CASE PollScan \/ PollBlock \/ PollEnds \/ Rejoin
  BY <1>1, <1>10 DEF PollScan, PollBlock, PollEnds, Rejoin
<1>11. ASSUME NEW f, Lose(f) PROVE UNCHANGED client BY <1>11 DEF Lose
<1>12. QED
  BY <1>1, <1>2, <1>3, <1>4, <1>5, <1>6, <1>7, <1>8, <1>9, <1>10, <1>11 DEF ReplicationNext

LEMMA LinkTypesHold == ReplicationSpec => []LinkTypes
<1>1. ReplicationInit => LinkTypes BY DEF ReplicationInit, LinkTypes
<1>2. IInv /\ LinkTypes /\ [ReplicationNext]_all => LinkTypes' BY LinkTypesStep
<1>3. QED BY <1>1, <1>2, Invariance, StoreUndisturbed, PTL DEF ReplicationSpec, all

\* Client and Terrain are the same instance of TerrainMeshing, by two names: a
\* step of the one is a step of the other, of paging as of the meshes.
LEMMA SamePagingSteps ==
    /\ \A l \in Fine : Client!View(l) => Terrain!View(l)
    /\ \A l \in Fine : Client!Unview(l) => Terrain!Unview(l)
    /\ \A l \in Fine : Client!Edit(l) => Terrain!Edit(l)
    /\ \A l \in Fine, v \in Nat \ {0} : Client!InstallRemote(l, v) => Terrain!InstallRemote(l, v)
    /\ \A r \in requests : Client!Stale(r) => Terrain!Stale(r)
    /\ \A r \in requests : Client!Loaded(r) => Terrain!Loaded(r)
    /\ \A r \in requests : Client!Dropped(r) => Terrain!Dropped(r)
    /\ \A r \in requests : Client!NotFound(r) => Terrain!NotFound(r)
    /\ Client!Dispatch => Terrain!Dispatch
  BY DEF Client!View, Terrain!View, Client!Unview, Terrain!Unview, Client!Edit, Terrain!Edit,
         Client!InstallRemote, Terrain!InstallRemote, Client!Stale, Terrain!Stale, Client!Loaded, Terrain!Loaded,
         Client!Dropped, Terrain!Dropped, Client!NotFound, Terrain!NotFound, Client!Dispatch,
         Terrain!Dispatch, Client!Mismatch, Terrain!Mismatch, Client!Absent, Terrain!Absent,
         Client!Present, Terrain!Present, Client!SetResident, Terrain!SetResident,
         Client!OnItsWay, Terrain!OnItsWay, Client!Join, Terrain!Join, Client!Request,
         Terrain!Request, Client!Remove, Terrain!Remove, Client!Abandon, Terrain!Abandon,
         Client!Refs, Terrain!Refs, Client!Entry, Terrain!Entry, Client!Outstanding,
         Terrain!Outstanding, Client!Take, Terrain!Take, Client!Current, Terrain!Current,
         Client!Stored, Terrain!Stored, Client!Set, Terrain!Set

LEMMA SameMeshingSteps ==
    /\ \A l \in Fine : Client!UnviewUnmeshed(l) => Terrain!UnviewUnmeshed(l)
    /\ \A l \in Fine : Client!EditAndRemesh(l) => Terrain!EditAndRemesh(l)
    /\ \A l \in Fine, v \in Nat \ {0} : Client!InstallAndRemesh(l, v) => Terrain!InstallAndRemesh(l, v)
    /\ \A r \in requests : Client!LoadedAndMeshed(r) => Terrain!LoadedAndMeshed(r)
    /\ \A m \in Meshes : Client!Forget(m) => Terrain!Forget(m)
    /\ \A m \in Meshes, features \in SUBSET Client!Features :
         features \in SUBSET Terrain!Features /\ (Client!Demand(m, features) => Terrain!Demand(m, features))
    /\ Client!DispatchMeshes => Terrain!DispatchMeshes
    /\ \A t \in mesh_tasks : Client!Gather(t) => Terrain!Gather(t)
    /\ \A t \in mesh_tasks : Client!MeshStale(t) => Terrain!MeshStale(t)
    /\ \A t \in mesh_tasks : Client!MeshBuilt(t) => Terrain!MeshBuilt(t)
    /\ \A t \in mesh_tasks : Client!MeshRefused(t) => Terrain!MeshRefused(t)
    /\ \A t \in mesh_tasks : Client!MeshDied(t) => Terrain!MeshDied(t)
<1>1. \A l \in Fine : Client!UnviewUnmeshed(l) => Terrain!UnviewUnmeshed(l)
  BY SamePagingSteps DEF Client!UnviewUnmeshed, Terrain!UnviewUnmeshed, Client!Around, Terrain!Around, Client!Sampling, Terrain!Sampling, Client!Meshed,
      Terrain!Meshed, Client!meshing, Terrain!meshing
<1>2. \A l \in Fine : Client!EditAndRemesh(l) => Terrain!EditAndRemesh(l)
  BY SamePagingSteps DEF Client!EditAndRemesh, Terrain!EditAndRemesh, Client!Reach, Terrain!Reach, Client!Edited, Terrain!Edited, Client!vars,
      Terrain!vars, Client!Present, Terrain!Present, Client!Absent, Terrain!Absent,
      Client!IssueFor, Terrain!IssueFor, Client!Revised, Terrain!Revised, Client!OutdateTasks,
      Terrain!OutdateTasks, Client!Aged, Terrain!Aged, Client!Remesh, Terrain!Remesh,
      Client!Outdated, Terrain!Outdated, Client!Around, Terrain!Around, Client!Sampling, Terrain!Sampling, Client!Meshed, Terrain!Meshed
<1>3. \A l \in Fine, v \in Nat \ {0} : Client!InstallAndRemesh(l, v) => Terrain!InstallAndRemesh(l, v)
  BY SamePagingSteps DEF Client!InstallAndRemesh, Terrain!InstallAndRemesh, Client!Queued, Terrain!Queued,
      Client!OutdateTasks, Terrain!OutdateTasks, Client!Aged, Terrain!Aged, Client!Remesh,
      Terrain!Remesh, Client!Outdated, Terrain!Outdated, Client!Around, Terrain!Around, Client!Sampling, Terrain!Sampling,
      Client!Meshed, Terrain!Meshed
<1>4. \A r \in requests : Client!LoadedAndMeshed(r) => Terrain!LoadedAndMeshed(r)
  BY SamePagingSteps DEF Client!LoadedAndMeshed, Terrain!LoadedAndMeshed, Client!Present, Terrain!Present,
      Client!Absent, Terrain!Absent, Client!IssueFor, Terrain!IssueFor, Client!Entering,
      Terrain!Entering, Client!Demanded, Terrain!Demanded, Client!Revised, Terrain!Revised,
      Client!Queued, Terrain!Queued, Client!meshing, Terrain!meshing, Client!OutdateTasks,
      Terrain!OutdateTasks, Client!Aged, Terrain!Aged, Client!Remesh, Terrain!Remesh,
      Client!Outdated, Terrain!Outdated, Client!Around, Terrain!Around, Client!Sampling, Terrain!Sampling, Client!Meshed, Terrain!Meshed
<1>5. \A m \in Meshes : Client!Forget(m) => Terrain!Forget(m)
  BY DEF Client!Forget, Terrain!Forget, Client!Meshed, Terrain!Meshed, Client!Set, Terrain!Set,
      Client!vars, Terrain!vars
<1>6. \A m \in Meshes, features \in SUBSET Client!Features :
         features \in SUBSET Terrain!Features /\ (Client!Demand(m, features) => Terrain!Demand(m, features))
  BY ZenonT(60) DEF Client!Demand, Terrain!Demand, Client!Features, Terrain!Features, Client!Meshed,
      Terrain!Meshed, Client!NewEntry, Terrain!NewEntry, Client!Has, Terrain!Has, Client!Demanded,
      Terrain!Demanded, Client!Revised, Terrain!Revised, Client!Set, Terrain!Set, Client!vars,
      Terrain!vars
<1>7. Client!DispatchMeshes => Terrain!DispatchMeshes
  BY DEF Client!DispatchMeshes, Terrain!DispatchMeshes, Client!Runnable, Terrain!Runnable, Client!Void,
      Terrain!Void, Client!Sent, Terrain!Sent, Client!TaskOf, Terrain!TaskOf, Client!Meshed,
      Terrain!Meshed, Client!HaloReady, Terrain!HaloReady, Client!Present, Terrain!Present,
      Client!Absent, Terrain!Absent, Client!vars, Terrain!vars
<1>8. \A t \in mesh_tasks : Client!Gather(t) => Terrain!Gather(t)
  BY DEF Client!Gather, Terrain!Gather, Client!vars, Terrain!vars
<1>9. \A t \in mesh_tasks : Client!MeshStale(t) => Terrain!MeshStale(t)
  BY DEF Client!MeshStale, Terrain!MeshStale, Client!TakeMesh, Terrain!TakeMesh, Client!Awaited,
      Terrain!Awaited, Client!Meshed, Terrain!Meshed, Client!Set, Terrain!Set, Client!vars,
      Terrain!vars
<1>10. \A t \in mesh_tasks : Client!MeshBuilt(t) => Terrain!MeshBuilt(t)
  BY DEF Client!MeshBuilt, Terrain!MeshBuilt, Client!Accepted, Terrain!Accepted, Client!Demanded,
      Terrain!Demanded, Client!Revised, Terrain!Revised, Client!TakeMesh, Terrain!TakeMesh,
      Client!Awaited, Terrain!Awaited, Client!Meshed, Terrain!Meshed, Client!Set, Terrain!Set,
      Client!vars, Terrain!vars
<1>11. \A t \in mesh_tasks : Client!MeshRefused(t) => Terrain!MeshRefused(t)
  BY DEF Client!MeshRefused, Terrain!MeshRefused, Client!Reissued, Terrain!Reissued, Client!TakeMesh,
      Terrain!TakeMesh, Client!Awaited, Terrain!Awaited, Client!Meshed, Terrain!Meshed, Client!Set,
      Terrain!Set, Client!vars, Terrain!vars
<1>12. \A t \in mesh_tasks : Client!MeshDied(t) => Terrain!MeshDied(t)
  BY DEF Client!MeshDied, Terrain!MeshDied, Client!Reissued, Terrain!Reissued, Client!TakeMesh,
      Terrain!TakeMesh, Client!Awaited, Terrain!Awaited, Client!Meshed, Terrain!Meshed, Client!Set,
      Terrain!Set, Client!vars, Terrain!vars
<1>13. QED BY <1>1, <1>2, <1>3, <1>4, <1>5, <1>6, <1>7, <1>8, <1>9, <1>10, <1>11, <1>12

LEMMA SameTerrain ==
    /\ Client!MeshingInit => Terrain!MeshingInit
    /\ [Client!MeshingNext]_client => [Terrain!MeshingNext]_(Terrain!allMeshing)
    /\ Terrain!TypeOK => Client!TypeOK
    /\ Terrain!EveryViewCounted => Client!EveryViewCounted
    /\ Terrain!NoLoadLost => Client!NoLoadLost
    /\ Client!PagingAssumption => Terrain!PagingAssumption
    /\ Terrain!MeshTypeOK => Client!MeshTypeOK
    /\ Terrain!MeshesCatchUp => Client!MeshesCatchUp
    /\ Client!MeshingAssumption => Terrain!MeshingAssumption
<1>1. Client!MeshingInit => Terrain!MeshingInit
  BY DEF Client!MeshingInit, Terrain!MeshingInit, Client!Init, Terrain!Init, Client!MeshInit, Terrain!MeshInit
<1>2. [Client!MeshingNext]_client => [Terrain!MeshingNext]_(Terrain!allMeshing)
  <2>1. CASE UNCHANGED client
    BY <2>1 DEF client, paging, meshes, Terrain!allMeshing, Terrain!vars, Terrain!meshing
  <2>2. UNCHANGED Client!meshing <=> UNCHANGED Terrain!meshing BY DEF Client!meshing, Terrain!meshing
  <2>3. CASE Client!MeshingNext
    BY <2>2, <2>3, SamePagingSteps, SameMeshingSteps
       DEF Client!MeshingNext, Terrain!MeshingNext, Client!MeshAnswered, Terrain!MeshAnswered
  <2>4. QED BY <2>1, <2>3
<1>3. Terrain!TypeOK => Client!TypeOK
  BY DEF Client!TypeOK, Terrain!TypeOK, Client!Blocks, Terrain!Blocks, Client!Entries, Terrain!Entries,
         Client!Outstanding, Terrain!Outstanding, Client!Ended, Terrain!Ended
<1>4. Terrain!EveryViewCounted => Client!EveryViewCounted
  BY DEF Client!EveryViewCounted, Terrain!EveryViewCounted, Client!Counted, Terrain!Counted,
         Client!Local, Terrain!Local, Client!Mismatch, Terrain!Mismatch, Client!Absent,
         Terrain!Absent, Client!Present, Terrain!Present, Client!Refs, Terrain!Refs
<1>5. Terrain!NoLoadLost => Client!NoLoadLost
  BY DEF Client!NoLoadLost, Terrain!NoLoadLost, Client!Asked, Terrain!Asked
<1>6. Client!PagingAssumption => Terrain!PagingAssumption
  BY DEF Client!PagingAssumption, Terrain!PagingAssumption, Client!Blocks, Terrain!Blocks,
         Client!Entries, Terrain!Entries, Client!Outstanding, Terrain!Outstanding, Client!Ended, Terrain!Ended
<1>7. Terrain!MeshTypeOK => Client!MeshTypeOK
  BY DEF Client!MeshTypeOK, Terrain!MeshTypeOK, Client!MeshEntries, Terrain!MeshEntries,
      Client!MeshTasks, Terrain!MeshTasks, Client!Features, Terrain!Features, Client!Knowledge,
      Terrain!Knowledge
<1>8. Terrain!MeshesCatchUp => Client!MeshesCatchUp
  BY DEF Client!MeshesCatchUp, Terrain!MeshesCatchUp, Client!AtRest, Terrain!AtRest, Client!OwnHalo,
      Terrain!OwnHalo, Client!Awaited, Terrain!Awaited, Client!Meshed, Terrain!Meshed,
      Client!Present, Terrain!Present, Client!Absent, Terrain!Absent, Client!Local, Terrain!Local
<1>9. Client!MeshingAssumption => Terrain!MeshingAssumption
  BY <1>6 DEF Client!MeshingAssumption, Terrain!MeshingAssumption, Client!MeshEntries, Terrain!MeshEntries,
      Client!Features, Terrain!Features, Client!Knowledge, Terrain!Knowledge
<1>10. QED BY <1>1, <1>2, <1>3, <1>4, <1>5, <1>6, <1>7, <1>8, <1>9

\* The client's terrain runs as it does alone, although frames of the server are
\* installed past its paging: what is proved of it holds in the composition.
THEOREM ClientMeshesAsAlone == ReplicationSpec => Terrain!MeshingSpec
<1>1. ReplicationInit => Terrain!MeshingInit BY SameTerrain DEF ReplicationInit
<1>2. LinkTypes /\ [ReplicationNext]_all => [Terrain!MeshingNext]_(Terrain!allMeshing)
  BY ClientTakesItsSteps, SameTerrain
<1>3. QED BY <1>1, <1>2, LinkTypesHold, PTL DEF ReplicationSpec, Terrain!MeshingSpec, Terrain!allMeshing, all

\* In particular its blocks are paged as by TerrainPaging alone.
THEOREM ClientPagesAsAlone == ReplicationSpec => Terrain!Spec
BY ClientMeshesAsAlone, Terrain!MeshingPages

\* The type invariant of the store, the link, the peers and the client.
THEOREM ReplicationTypes == ReplicationSpec => []ReplicationTypeOK
<1>1. Terrain!PagingAssumption /\ Terrain!MeshingAssumption
  BY ReplicationAssumption, SameTerrain DEF Client!MeshingAssumption
<1>2. Terrain!Spec => []Terrain!TypeOK BY <1>1, Terrain!PagingTypes
<1>3. Terrain!MeshingSpec => []Terrain!MeshTypeOK BY <1>1, Terrain!MeshTypes
<1>4. LinkTypes /\ TypeOK /\ Terrain!TypeOK /\ Terrain!MeshTypeOK => ReplicationTypeOK
  BY SameTerrain DEF LinkTypes, ReplicationTypeOK
<1>5. QED
  BY <1>2, <1>3, <1>4, StoreTypes, StoreUndisturbed, LinkTypesHold, ClientPagesAsAlone, ClientMeshesAsAlone, PTL

\* Beside any server and network, the viewers of a block of the client's own
\* terrain are counted exactly once.
THEOREM ClientViewsCounted == ReplicationSpec => []EveryViewCounted
<1>1. Terrain!PagingAssumption BY ReplicationAssumption, SameTerrain DEF Client!MeshingAssumption
<1>2. Terrain!Spec => []Terrain!EveryViewCounted BY <1>1, Terrain!ViewersAreCounted
<1>3. Terrain!EveryViewCounted => EveryViewCounted BY SameTerrain DEF EveryViewCounted
<1>4. QED BY <1>2, <1>3, ClientPagesAsAlone, PTL

\* Beside any server and network, the client's loads in flight are exactly
\* those with a request of their own under way.
THEOREM ClientLoadsAnswered == ReplicationSpec => []NoLoadLost
<1>1. Terrain!PagingAssumption BY ReplicationAssumption, SameTerrain DEF Client!MeshingAssumption
<1>2. Terrain!Spec => []Terrain!NoLoadLost BY <1>1, Terrain!LoadsAreAnswered
<1>3. Terrain!NoLoadLost => NoLoadLost BY SameTerrain DEF NoLoadLost
<1>4. QED BY <1>2, <1>3, ClientPagesAsAlone, PTL

\* Beside any server and network, a mesh of the client at rest over blocks of its
\* own shows them as they are.
THEOREM ClientMeshesCatchUp == ReplicationSpec => []MeshesCatchUp
<1>1. Terrain!MeshingAssumption BY ReplicationAssumption, SameTerrain
<1>2. Terrain!MeshingSpec => []Terrain!MeshesCatchUp BY <1>1, Terrain!MeshesHaveCaughtUp
<1>3. Terrain!MeshesCatchUp => MeshesCatchUp BY SameTerrain DEF MeshesCatchUp
<1>4. QED BY <1>2, <1>3, ClientMeshesAsAlone, PTL

-----------------------------------------------------------------------------
(* What a client is shown never gets older *)

\* What was read of a location whose revision is the one read is still there.
SeenOK ==
    \A t \in Threads : \A l \in DOMAIN seen[t] :
        seen[t][l].rev = rev[l] => seen[t][l].block = block[l]

\* Voxels are named by a revision, of now or before.
VoxelsOK == \A l \in Locations : Resident(block[l]) => block[l].voxels <= rev[l]

\* The newest voxels of a location that a frame can show.
Top(l) == IF Resident(block[l]) THEN Origin(block[l]) ELSE rev[l] + 1

\* An operation keeps the voxels of a block or names them by its revision.
LEMMA AfterVoxels ==
    ASSUME NEW o, NEW b \in Blocks, NEW n \in Nat, Fits(o, b), Resident(After(o, b, n))
    PROVE  After(o, b, n).voxels = n \/ (Resident(b) /\ After(o, b, n).voxels = b.voxels)
<1>1. o.op \in Ops /\ o.viewers \in Nat BY DEF Fits
<1>2. CASE Resident(b)
  <2>1. b \in [viewers : Nat, modified : BOOLEAN, edited : BOOLEAN, voxels : Nat]
    BY <1>2 DEF Resident, Blocks
  <2>2. CASE o.op \in {"SetViewersExact", "SetViewersExactAndClearModified", "ClearModified", "consume"}
    BY <1>2, <2>1, <2>2 DEF After
  <2>3. CASE o.op \in {"mark", "view", "unview", "source"}
    BY <1>2, <2>1, <2>3 DEF After
  <2>4. CASE o.op \in {"Insert", "Replace", "Remove", "insert", "replace"}
    BY <2>1, <2>4 DEF After, New, Resident
  <2>5. CASE o.op \in {"edit", "set", "lods"}
    BY <1>2, <2>1, <2>5 DEF After, New
  <2>6. QED BY <1>1, <2>2, <2>3, <2>4, <2>5 DEF Ops
<1>3. CASE ~Resident(b)
  <2>1. o.op \notin OnResident BY <1>3 DEF Fits
  <2>2. QED BY <1>1, <1>3, <2>1 DEF After, New, Ops, OnResident, Resident
<1>4. QED BY <1>2, <1>3

\* Threads forget what they read, or read what is there.
LEMMA SeenStep ==
    ASSUME IInv, IInv', SeenOK, [Next]_vars
    PROVE  SeenOK'
<1>1. Shape /\ Shape' /\ \A t \in Threads : TouchOK(t) BY DEF IInv, ThreadOK
<1>2. ASSUME NEW u \in Threads, Step(u), NEW t \in Threads, NEW l \in DOMAIN seen'[t]
      PROVE  \/ l \in DOMAIN seen[t] /\ seen'[t][l] = seen[t][l]
             \/ seen'[t][l] = Snapshot(l) /\ UNCHANGED <<rev, block>>
  <2>1. DOMAIN seen = Threads BY <1>1 DEF Shape
  <2>2. CASE Peek(u)
    <3>1. CASE t = u BY <1>2, <2>1, <2>2, <3>1 DEF Peek, store
    <3>2. CASE t # u BY <1>2, <2>1, <2>2, <3>2 DEF Peek
    <3>3. QED BY <3>1, <3>2
  <2>3. ASSUME Return(u) PROVE l \in DOMAIN seen[t] /\ seen'[t][l] = seen[t][l]
    <3>1. seen' = [seen EXCEPT ![u] = Nothing] BY <2>3 DEF Return
    <3>2. t # u BY <1>2, <2>1, <3>1 DEF Nothing
    <3>3. QED BY <1>2, <2>1, <3>1, <3>2
  <2>4. CASE Prepare(u)
    <3>1. CASE PrepareTransaction(u) BY <1>2, <3>1 DEF PrepareTransaction
    <3>2. CASE PrepareChanges(u)
      <4>1. seen' = [seen EXCEPT ![u] = [k \in DOMAIN Planned(u) |-> seen[u][k]]]
        BY <3>2 DEF PrepareChanges
      <4>3. DOMAIN Planned(u) \subseteq DOMAIN seen[u]
        <5>1. call(u).locs \subseteq DOMAIN seen[u] BY <2>4 DEF Prepare, Unread
        <5>2. Kind(u) \in Drafting \ {"transaction"}
          BY <2>4, <3>2 DEF Prepare, PrepareChanges, IInv, ThreadOK, KindOK
        <5>3. DOMAIN Planned(u) \subseteq call(u).locs BY <5>2 DEF Planned, Drafting, Nothing
        <5>4. QED BY <5>1, <5>3
      <4>2. QED BY <1>2, <2>1, <4>1, <4>3
    <3>3. QED BY <2>4, <3>1, <3>2 DEF Prepare
  <2>5. CASE PrepareFails(u) \/ Refuse(u) \/ Administer(u) \/ Leave(u)
    BY <2>3, <2>5 DEF PrepareFails, Refuse, Administer, Leave
  <2>6. CASE Enter(u) BY <1>2, <2>3, <2>6 DEF Enter
  <2>7. CASE Begin(u) \/ TakeRegion(u) \/ ReservationFails(u) \/ TakeMap(u) \/ Copy(u) \/ Check(u)
              \/ CheckFails(u) \/ WriteBlock(u) \/ Written(u) \/ Unlock(u)
    <3>1. seen' = seen
      BY <2>7 DEF Begin, TakeRegion, ReservationFails, TakeMap, Copy, Check, CheckFails, WriteBlock, Written,
                  Unlock
    <3>2. QED BY <1>2, <3>1
  <2>8. QED BY <1>2, <2>2, <2>4, <2>5, <2>6, <2>7 DEF Step
<1>3. CASE UNCHANGED vars BY <1>3 DEF vars, store, threads, SeenOK
<1>4. ASSUME NEW u \in Threads, Step(u), NEW t \in Threads, NEW l \in DOMAIN seen'[t],
             seen'[t][l].rev = rev'[l]
      PROVE  seen'[t][l].block = block'[l]
  <2>1. CASE l \in DOMAIN seen[t] /\ seen'[t][l] = seen[t][l]
    <3>1. l \in Locations /\ seen[t][l].rev <= rev[l] /\ seen[t][l].rev \in Nat
      BY <1>1, <2>1 DEF Shape, TouchOK, Snap
    <3>2. (rev'[l] = rev[l] /\ block'[l] = block[l]) \/ rev[l] < rev'[l] BY <3>1, RevisionTells
    <3>3. rev[l] \in Nat /\ rev'[l] \in Nat BY <1>1, <3>1 DEF Shape
    <3>4. QED BY <1>4, <2>1, <3>1, <3>2, <3>3 DEF SeenOK
  <2>2. CASE seen'[t][l] = Snapshot(l) /\ UNCHANGED <<rev, block>>
    BY <2>2 DEF Snapshot
  <2>3. QED BY <1>2, <1>4, <2>1, <2>2
<1>5. QED BY <1>3, <1>4 DEF Next, SeenOK

\* A step of the store never takes a newer voxel back: a block that is gone
\* comes back under a later revision.
LEMMA StoreGrows ==
    ASSUME IInv, IInv', SeenOK, VoxelsOK, [Next]_vars
    PROVE  VoxelsOK' /\ \A l \in Locations : Top(l) \in Nat /\ Top(l)' \in Nat /\ Top(l) <= Top(l)'
<1>1. Shape /\ Shape' BY DEF IInv
<1>2. \A l \in Locations : /\ rev[l] \in Nat /\ rev'[l] \in Nat /\ block[l] \in Blocks /\ block'[l] \in Blocks
                           /\ Resident(block[l]) => block[l].voxels \in Nat
                           /\ Resident(block'[l]) => block'[l].voxels \in Nat
  BY <1>1 DEF Shape, Blocks, Resident
<1>3. \A l \in Locations : Top(l) \in Nat /\ Top(l)' \in Nat BY <1>2 DEF Top, Origin
<1>4. CASE UNCHANGED <<rev, block>> BY <1>3, <1>4 DEF VoxelsOK, Top, Origin
<1>5. ASSUME NEW t \in Threads, WriteBlock(t)
      PROVE  VoxelsOK' /\ \A l \in Locations : Top(l) <= Top(l)'
  <2>1. /\ pc[t] = "write" /\ todo[t] # <<>> /\ DOMAIN plan[t] # {} /\ DOMAIN plan[t] \subseteq Locations
        /\ DOMAIN plan[t] \subseteq Nat
    BY <1>1, <1>5, VoxelDataAssumption DEF WriteBlock, IInv, ThreadOK, KindOK, Shape, VoxelDataAssumption
  <2>2. PICK k \in DOMAIN plan[t] : k = Least(DOMAIN plan[t]) BY <2>1, LeastIn
  <2>3. /\ NextRevision(t, k) = rev[k] + 1 /\ Fits(plan[t][k], Base(t, k)) /\ k \in Locations /\ k \in Reach(t)
        /\ Kind(t) \in Drafting => seen[t][k].rev = rev[k]
    BY <2>1, <2>2 DEF NextRevision, IInv, ThreadOK, PlanOK
  <2>4. Base(t, k) = block[k]
    <3>1. CASE Kind(t) = "lods"
      <4>1. k \in DOMAIN seen[t] BY <2>3, <3>1 DEF Reach, Drafting
      <4>2. seen[t][k].rev = rev[k] BY <2>3, <3>1 DEF Drafting
      <4>3. QED BY <3>1, <4>1, <4>2 DEF SeenOK, Base, SeenBlock
    <3>2. CASE Kind(t) # "lods" BY <3>2 DEF Base
    <3>3. QED BY <3>1, <3>2
  <2>5. PICK b : b = After(plan[t][k], block[k], rev[k] + 1) OBVIOUS
  <2>6. rev' = [rev EXCEPT ![k] = rev[k] + 1] /\ block' = [block EXCEPT ![k] = b]
    BY <1>5, <2>2, <2>3, <2>4, <2>5 DEF WriteBlock
  <2>7. /\ rev'[k] = rev[k] + 1 /\ block'[k] = b
        /\ \A l \in Locations \ {k} : rev'[l] = rev[l] /\ block'[l] = block[l]
    BY <1>1, <2>3, <2>6 DEF Shape
  <2>8. Resident(b) => b.voxels = rev[k] + 1 \/ (Resident(block[k]) /\ b.voxels = block[k].voxels)
    <3>1. rev[k] + 1 \in Nat /\ block[k] \in Blocks BY <1>2, <2>3
    <3>2. QED BY <2>3, <2>4, <2>5, <3>1, AfterVoxels
  <2>9. Resident(block[k]) => block[k].voxels <= rev[k] BY <2>3 DEF VoxelsOK
  <2>10. (Resident(b) => b.voxels <= rev'[k]) /\ Top(k) <= Top(k)'
    BY <1>2, <2>3, <2>7, <2>8, <2>9 DEF Top, Origin
  <2>11. ASSUME NEW l \in Locations
         PROVE  (Resident(block'[l]) => block'[l].voxels <= rev'[l]) /\ Top(l) <= Top(l)'
    <3>1. CASE l = k BY <2>7, <2>10, <3>1
    <3>2. CASE l # k BY <1>3, <2>7, <3>2 DEF VoxelsOK, Top, Origin
    <3>3. QED BY <3>1, <3>2
  <2>12. QED BY <2>11 DEF VoxelsOK
<1>6. ASSUME NEW t \in Threads, Step(t), ~WriteBlock(t) PROVE UNCHANGED <<rev, block>>
  BY <1>6 DEF Step, Begin, Peek, Prepare, PrepareFails, Refuse, Administer, Enter, TakeRegion,
     ReservationFails, TakeMap, Copy, Check, CheckFails, Written, Unlock, Leave, store
<1>7. QED BY <1>3, <1>4, <1>5, <1>6 DEF Next, vars, store

\* What the client shows of a location: nothing newer than the store, and
\* nothing newer than what is on its way and will be applied.
ShownOK(l) ==
    cblock[l] # None =>
        /\ cblock[l].voxels <= Top(l)
        /\ \A f \in flight : f.loc = l /\ Newer(f) => cblock[l].voxels <= f.voxels

\* The frames on their way are no newer than the store and than what a running
\* poll still has to send; a frame of a later revision has no older voxels.
FlightOK ==
    /\ poll # None => \A l \in DOMAIN poll : poll[l] <= rev[l]
    /\ \A f \in flight :
         /\ f.rev <= rev[f.loc] /\ f.voxels <= Top(f.loc)
         /\ poll # None /\ f.loc \in DOMAIN poll => f.rev <= poll[f.loc]
         /\ \A g \in flight : g.loc = f.loc /\ f.rev < g.rev => f.voxels <= g.voxels

\* What the steps of the client find.
Typed ==
    /\ LinkTypes /\ cblock \in [Fine -> {None} \cup Client!Blocks]
    /\ \A l \in Fine : rev[l] \in Nat /\ Top(l) \in Nat /\ l \in Locations

\* The strengthening of ClientNeverGoesBack.
GInv == SeenOK /\ VoxelsOK /\ FlightOK /\ \A l \in Fine : ShownOK(l)

\* The types the steps below need.
LEMMA VoxelsTyped ==
    ASSUME Typed
    PROVE  /\ None \notin Client!Blocks /\ None \notin Nat
           /\ \A l \in Fine : cblock[l] # None => cblock[l].voxels \in Nat
           /\ \A f \in flight : f.loc \in Fine /\ f.rev \in Nat /\ f.voxels \in Nat
           /\ \A l \in Fine : last_applied[l] = None \/ last_applied[l] \in Nat
           /\ poll # None => DOMAIN poll \subseteq Fine /\ \A l \in DOMAIN poll : poll[l] \in Nat
<1>1. None \notin Client!Blocks /\ None \notin Nat
  BY ReplicationAssumption DEF Client!MeshingAssumption, Client!PagingAssumption
<1>2. \A l \in Fine : cblock[l] # None => cblock[l].voxels \in Nat
  BY DEF Typed, Client!Blocks
<1>3. \A f \in flight : f.loc \in Fine /\ f.rev \in Nat /\ f.voxels \in Nat
  BY DEF Typed, LinkTypes, Frames
<1>4. QED BY <1>1, <1>2, <1>3 DEF Typed, LinkTypes

\* The store moves on under the frames.
LEMMA StoreShows ==
    ASSUME IInv, IInv', Typed, GInv, [Next]_vars, UNCHANGED replication
    PROVE  GInv'
<1>1. SeenOK' /\ VoxelsOK' /\ \A l \in Locations : Top(l) \in Nat /\ Top(l)' \in Nat /\ Top(l) <= Top(l)'
  BY SeenStep, StoreGrows DEF GInv
<1>2. UNCHANGED <<poll, flight, last_applied, cblock>> BY DEF replication, server, link, client, paging
<1>3. \A l \in Fine : /\ rev[l] \in Nat /\ rev'[l] \in Nat /\ rev[l] <= rev'[l]
                      /\ Top(l) \in Nat /\ Top(l)' \in Nat /\ Top(l) <= Top(l)'
  <2>1. ASSUME NEW l \in Fine PROVE l \in Locations /\ rev[l] \in Nat /\ rev'[l] \in Nat
    BY DEF Typed, IInv, Shape
  <2>2. QED BY <1>1, <2>1, RevisionTells
<1>4. FlightOK'
  <2>1. ASSUME poll # None, NEW l \in DOMAIN poll PROVE poll[l] <= rev'[l]
    BY <1>3, <2>1, VoxelsTyped DEF GInv, FlightOK
  <2>2. ASSUME NEW f \in flight PROVE f.rev <= rev'[f.loc] /\ f.voxels <= Top(f.loc)'
    <3>1. f.loc \in Fine /\ f.rev \in Nat /\ f.voxels \in Nat BY VoxelsTyped
    <3>2. f.rev <= rev[f.loc] /\ f.voxels <= Top(f.loc) BY DEF GInv, FlightOK
    <3>3. QED BY <1>3, <3>1, <3>2
  <2>3. QED BY <1>2, <2>1, <2>2 DEF GInv, FlightOK
<1>5. ASSUME NEW l \in Fine PROVE ShownOK(l)'
  <2>1. SUFFICES ASSUME cblock[l] # None
                 PROVE  /\ cblock[l].voxels <= Top(l)'
                        /\ \A f \in flight : f.loc = l /\ Newer(f) => cblock[l].voxels <= f.voxels
    BY <1>2 DEF ShownOK, Newer
  <2>2. cblock[l].voxels \in Nat /\ cblock[l].voxels <= Top(l) BY <2>1, VoxelsTyped DEF GInv, ShownOK
  <2>3. QED BY <1>3, <2>1, <2>2 DEF GInv, ShownOK
<1>6. QED BY <1>1, <1>4, <1>5 DEF GInv

\* Steps that leave the store, the frames and what is shown alone, or take from them.
LEMMA LinkKeeps ==
    ASSUME Typed, GInv, UNCHANGED <<vars, cblock>>,
           poll' = poll \/ poll' = None, flight' \subseteq flight,
           last_applied' = last_applied \/ flight' = {}
    PROVE  GInv'
<1>1. UNCHANGED <<rev, block, seen>> BY DEF vars, store, threads
<1>2. SeenOK' /\ VoxelsOK' /\ \A l : Top(l)' = Top(l) BY <1>1 DEF GInv, SeenOK, VoxelsOK, Top, Origin
<1>3. FlightOK' BY <1>1, <1>2 DEF GInv, FlightOK
<1>4. ASSUME NEW l \in Fine PROVE ShownOK(l)' BY <1>2 DEF GInv, ShownOK, Newer
<1>5. QED BY <1>2, <1>3, <1>4 DEF GInv

\* A poll begins with the revisions of now.
LEMMA ScanShows ==
    ASSUME Typed, GInv, PollScan PROVE GInv'
<1> DEFINE S == {k \in area : Resident(block[k]) /\ block[k].edited}
<1>1. /\ poll' = [l \in S |-> rev[l]] /\ S \subseteq Fine
      /\ UNCHANGED <<vars, link, last_applied, client>>
  BY DEF PollScan, Typed, LinkTypes
<1> HIDE DEF S
<1>2. UNCHANGED <<rev, block, seen, flight, last_applied, cblock>>
  BY <1>1 DEF vars, store, threads, link, client, paging
<1>3. SeenOK' /\ VoxelsOK' /\ \A l : Top(l)' = Top(l) BY <1>2 DEF GInv, SeenOK, VoxelsOK, Top, Origin
<1>4. FlightOK'
  <2>1. DOMAIN poll' = S /\ \A l \in S : poll'[l] = rev[l] /\ rev[l] \in Nat BY <1>1 DEF Typed
  <2>2. QED BY <1>2, <1>3, <2>1 DEF GInv, FlightOK
<1>5. ASSUME NEW l \in Fine PROVE ShownOK(l)' BY <1>2, <1>3 DEF GInv, ShownOK, Newer
<1>6. QED BY <1>3, <1>4, <1>5 DEF GInv

\* A poll goes on: the frame it sends shows the newest voxels.
LEMMA SendShows ==
    ASSUME IInv, Typed, GInv, PollBlock PROVE GInv'
<1>1. /\ poll # None /\ poll # Nothing
      /\ UNCHANGED <<vars, area, delivered, last_applied, client, budget>>
  BY DEF PollBlock
<1>2. UNCHANGED <<rev, block, seen, last_applied, cblock>> BY <1>1 DEF vars, store, threads, client, paging
<1>3. SeenOK' /\ VoxelsOK' /\ \A l : Top(l)' = Top(l) BY <1>2 DEF GInv, SeenOK, VoxelsOK, Top, Origin
<1>4. PICK l \in DOMAIN poll : l = Least(DOMAIN poll)
  <2>1. Shape /\ LinkTypes BY DEF IInv, Typed
  <2>2. QED BY <1>1, <2>1, FrameTyped
<1>5. /\ poll' = [k \in DOMAIN poll \ {l} |-> poll[k]]
      /\ flight' = flight \/ (Resident(block[l]) /\ flight' = flight \cup {Frame(l)})
  BY <1>4 DEF PollBlock, ToSend
<1>6. DOMAIN poll' = DOMAIN poll \ {l} /\ \A k \in DOMAIN poll \ {l} : poll'[k] = poll[k] BY <1>5
<1>7. /\ l \in Fine /\ poll[l] \in Nat /\ poll[l] <= rev[l] /\ rev[l] \in Nat /\ Top(l) \in Nat
      /\ \A f \in flight : f.loc = l => f.rev <= poll[l] /\ f.voxels <= Top(l)
  BY <1>1, <1>4, VoxelsTyped DEF Typed, GInv, FlightOK
<1>8. Resident(block[l]) => Frame(l).loc = l /\ Frame(l).rev = poll[l] /\ Frame(l).voxels = Top(l)
  BY DEF Frame, Top
<1>9. CASE flight' = flight
  <2>1. FlightOK' BY <1>1, <1>2, <1>3, <1>6, <1>9 DEF GInv, FlightOK
  <2>2. ASSUME NEW k \in Fine PROVE ShownOK(k)' BY <1>2, <1>3, <1>9 DEF GInv, ShownOK, Newer
  <2>3. QED BY <1>3, <2>1, <2>2 DEF GInv
<1>10. CASE Resident(block[l]) /\ flight' = flight \cup {Frame(l)}
  <2>1. PICK new : new = Frame(l) OBVIOUS
  <2>2. new.loc = l /\ new.rev = poll[l] /\ new.voxels = Top(l) /\ flight' = flight \cup {new}
    BY <1>8, <1>10, <2>1
  <2>3. ASSUME NEW f \in flight'
        PROVE  /\ f.rev <= rev[f.loc] /\ f.voxels <= Top(f.loc)
               /\ f.loc \in DOMAIN poll' => f.rev <= poll'[f.loc]
               /\ \A g \in flight' : g.loc = f.loc /\ f.rev < g.rev => f.voxels <= g.voxels
    <3>1. CASE f = new
      <4>1. \A g \in flight : g.loc = l => ~ (poll[l] < g.rev)
        BY <1>7, VoxelsTyped
      <4>2. QED BY <1>6, <1>7, <2>2, <3>1, <4>1
    <3>2. CASE f \in flight
      <4>1. /\ f.rev <= rev[f.loc] /\ f.voxels <= Top(f.loc)
            /\ f.loc \in DOMAIN poll => f.rev <= poll[f.loc]
            /\ \A g \in flight : g.loc = f.loc /\ f.rev < g.rev => f.voxels <= g.voxels
        BY <1>1, <3>2 DEF GInv, FlightOK
      <4>2. \A g \in flight' : g.loc = f.loc /\ f.rev < g.rev => f.voxels <= g.voxels
        BY <1>7, <2>2, <3>2, <4>1
      <4>3. QED BY <1>6, <4>1, <4>2
    <3>3. QED BY <2>2, <2>3, <3>1, <3>2
  <2>4. \A k \in DOMAIN poll' : poll'[k] <= rev[k] BY <1>1, <1>6 DEF GInv, FlightOK
  <2>5. FlightOK' BY <1>2, <1>3, <2>3, <2>4 DEF FlightOK
  <2>6. ASSUME NEW k \in Fine PROVE ShownOK(k)'
    <3>1. CASE k = l BY <1>2, <1>3, <2>2, <3>1 DEF GInv, ShownOK, Newer
    <3>2. CASE k # l BY <1>2, <1>3, <2>2, <3>2 DEF GInv, ShownOK, Newer
    <3>3. QED BY <3>1, <3>2
  <2>7. QED BY <1>3, <2>5, <2>6 DEF GInv
<1>11. QED BY <1>5, <1>9, <1>10

\* What a step may do to a block of the client: nothing goes back.
NoneGoesBack ==
    \A l \in Fine : cblock[l] # None /\ cblock'[l] # None => cblock'[l].voxels >= cblock[l].voxels

\* A frame is applied to the block it is newer for.
LEMMA DeliverShows ==
    ASSUME Typed, GInv, NEW f \in flight, Deliver(f)
    PROVE  GInv' /\ NoneGoesBack
<1>1. /\ Apply(f) /\ flight' \subseteq flight /\ UNCHANGED <<vars, server, budget>>
  BY DEF Deliver
<1>2. UNCHANGED <<rev, block, seen, poll>> BY <1>1 DEF vars, store, threads, server
<1>3. SeenOK' /\ VoxelsOK' /\ \A l : Top(l)' = Top(l) BY <1>2 DEF GInv, SeenOK, VoxelsOK, Top, Origin
<1>4. FlightOK' BY <1>1, <1>2, <1>3 DEF GInv, FlightOK
<1>5. f.loc \in Fine /\ f.rev \in Nat /\ f.voxels \in Nat BY VoxelsTyped
<1>6. CASE ~Newer(f)
  <2>1. UNCHANGED <<last_applied, cblock>> BY <1>1, <1>6 DEF Apply, client, paging
  <2>2. ASSUME NEW l \in Fine PROVE ShownOK(l)' BY <1>1, <1>3, <2>1 DEF GInv, ShownOK, Newer
  <2>3. NoneGoesBack BY <2>1, VoxelsTyped DEF NoneGoesBack
  <2>4. QED BY <1>3, <1>4, <2>2, <2>3 DEF GInv
<1>7. CASE Newer(f)
  <2>1. /\ last_applied' = [last_applied EXCEPT ![f.loc] = f.rev]
        /\ cblock' = [cblock EXCEPT ![f.loc] = Client!Stored(0, f.voxels)]
    BY <1>1, <1>7 DEF Apply, Client!InstallAndRemesh, Client!InstallRemote, Client!Set
  <2>2. /\ last_applied'[f.loc] = f.rev /\ cblock'[f.loc].voxels = f.voxels
        /\ \A l \in Fine \ {f.loc} : last_applied'[l] = last_applied[l] /\ cblock'[l] = cblock[l]
    BY <1>5, <2>1 DEF Typed, LinkTypes, Client!Stored
  <2>3. cblock[f.loc] # None => cblock[f.loc].voxels <= f.voxels BY <1>5, <1>7 DEF GInv, ShownOK
  <2>4. NoneGoesBack
    <3>1. ASSUME NEW l \in Fine, cblock[l] # None, cblock'[l] # None
          PROVE  cblock'[l].voxels >= cblock[l].voxels
      <4>1. cblock[l].voxels \in Nat BY <3>1, VoxelsTyped
      <4>2. CASE l = f.loc BY <1>5, <2>2, <2>3, <3>1, <4>1, <4>2
      <4>3. CASE l # f.loc BY <2>2, <4>1, <4>3
      <4>4. QED BY <4>2, <4>3
    <3>2. QED BY <3>1 DEF NoneGoesBack
  <2>5. ShownOK(f.loc)'
    <3>1. f.voxels <= Top(f.loc) BY DEF GInv, FlightOK
    <3>2. ASSUME NEW g \in flight', g.loc = f.loc, Newer(g)' PROVE f.voxels <= g.voxels
      <4>1. g \in flight /\ f.rev < g.rev
        <5>1. g.rev \in Nat /\ f.rev # None BY <1>1, <1>5, <3>2, VoxelsTyped
        <5>2. QED BY <1>1, <1>5, <2>2, <3>2, <5>1 DEF Newer
      <4>2. QED BY <3>2, <4>1 DEF GInv, FlightOK
    <3>3. QED BY <1>3, <2>2, <3>1, <3>2 DEF ShownOK
  <2>6. ASSUME NEW l \in Fine PROVE ShownOK(l)'
    <3>1. CASE l = f.loc BY <2>5, <3>1
    <3>2. CASE l # f.loc BY <1>1, <1>3, <2>2, <3>2 DEF GInv, ShownOK, Newer
    <3>3. QED BY <3>1, <3>2
  <2>7. QED BY <1>3, <1>4, <2>4, <2>6 DEF GInv
<1>8. QED BY <1>6, <1>7

\* The client's own terrain puts voxels of its own where there is no block, and
\* keeps those that are there.
LEMMA OwnTerrain ==
    ASSUME Typed, ClientViews \/ ClientDemands \/ ClientEdits \/ ClientLoads \/ ClientMeshes
    PROVE  \A l \in Fine : cblock'[l] # None =>
             cblock'[l].voxels = IF cblock[l] # None THEN cblock[l].voxels ELSE 0
<1> DEFINE Kept == \A l \in Fine : cblock'[l] # None =>
                     cblock'[l].voxels = IF cblock[l] # None THEN cblock[l].voxels ELSE 0
<1>1. cblock \in [Fine -> {None} \cup Client!Blocks] /\ None \notin Client!Blocks
  BY VoxelsTyped DEF Typed
<1>2. ASSUME cblock' = cblock PROVE Kept BY <1>1, <1>2
<1>3. ASSUME NEW k \in Fine, cblock' = [cblock EXCEPT ![k] = None] PROVE Kept BY <1>1, <1>3
<1>4. ASSUME NEW k \in Fine, NEW n, cblock[k] = None, cblock' = [cblock EXCEPT ![k] = Client!Stored(n, 0)]
      PROVE  Kept
  BY <1>1, <1>4 DEF Client!Stored
<1>5. ASSUME NEW k \in Fine, NEW n, cblock[k] # None, cblock' = [cblock EXCEPT ![k].viewers = n]
      PROVE  Kept
  <2>1. cblock[k] \in [viewers : Nat, voxels : Nat] BY <1>1, <1>5 DEF Client!Blocks
  <2>2. cblock'[k] = [cblock[k] EXCEPT !.viewers = n] /\ \A l \in Fine \ {k} : cblock'[l] = cblock[l]
    BY <1>1, <1>5
  <2>3. cblock'[k].voxels = cblock[k].voxels BY <2>1, <2>2
  <2>4. QED BY <1>5, <2>2, <2>3
<1>6. ASSUME NEW k \in Fine, Client!View(k) PROVE Kept
  BY <1>2, <1>5, <1>6 DEF Client!View, Client!SetResident, Client!Join, Client!Request, Client!Present, Client!Absent
<1>7. ASSUME NEW k \in Fine, Client!Unview(k) PROVE Kept
  BY <1>2, <1>3, <1>5, <1>7 DEF Client!Unview, Client!SetResident, Client!Join, Client!Abandon, Client!Remove,
     Client!Set, Client!Present, Client!Absent
<1>8. ASSUME NEW k \in Fine, Client!EditAndRemesh(k) PROVE Kept
  BY <1>2, <1>4, <1>8 DEF Client!EditAndRemesh, Client!Edited, Client!Edit, Client!Set, Client!Absent, Client!vars
<1>9. ASSUME NEW r \in requests, Client!Loaded(r) PROVE Kept
  <2>1. CASE r.loc \in Fine
    BY <1>2, <1>4, <1>9, <2>1 DEF Client!Loaded, Client!Set, Client!Present, Client!Absent
  <2>2. CASE r.loc \notin Fine
    <3>1. cblock' = cblock BY <1>1, <1>9, <2>2 DEF Client!Loaded, Client!Set
    <3>2. QED BY <1>2, <3>1
  <2>3. QED BY <2>1, <2>2
<1>10. ASSUME NEW r \in requests, Client!Stale(r) \/ Client!Dropped(r) \/ Client!NotFound(r) PROVE Kept
  <2>1. cblock' = cblock BY <1>10 DEF Client!Stale, Client!Dropped, Client!NotFound
  <2>2. QED BY <1>2, <2>1
<1>11. CASE Client!Dispatch BY <1>2, <1>11 DEF Client!Dispatch
<1>12. CASE ClientViews BY <1>6, <1>7, <1>12 DEF ClientViews, Client!UnviewUnmeshed
<1>13. CASE ClientEdits BY <1>8, <1>13 DEF ClientEdits
<1>14. CASE ClientLoads BY <1>9, <1>10, <1>11, <1>14 DEF ClientLoads, Client!LoadedAndMeshed
<1>15. CASE ClientDemands \/ ClientMeshes
  <2>1. UNCHANGED Client!vars
    BY <1>15 DEF ClientDemands, ClientMeshes, Client!Forget, Client!Demand, Client!DispatchMeshes, Client!Gather,
         Client!MeshAnswered, Client!MeshStale, Client!MeshBuilt, Client!MeshRefused, Client!MeshDied,
         Client!TakeMesh
  <2>2. QED BY <1>2, <2>1 DEF Client!vars
<1>16. QED BY <1>12, <1>13, <1>14, <1>15

\* What the client's own terrain does takes nothing back.
LEMMA OwnShows ==
    ASSUME Typed, GInv, ClientViews \/ ClientDemands \/ ClientEdits \/ ClientLoads \/ ClientMeshes
    PROVE  GInv' /\ NoneGoesBack
<1>1. UNCHANGED <<vars, server, link, last_applied>>
  BY DEF ClientViews, ClientDemands, ClientEdits, ClientLoads, ClientMeshes
<1>2. UNCHANGED <<rev, block, seen, poll, flight, last_applied>> BY <1>1 DEF vars, store, threads, server, link
<1>3. SeenOK' /\ VoxelsOK' /\ \A l : Top(l)' = Top(l) BY <1>2 DEF GInv, SeenOK, VoxelsOK, Top, Origin
<1>4. FlightOK' BY <1>2, <1>3 DEF GInv, FlightOK
<1>5. \A l \in Fine : cblock'[l] # None =>
        cblock'[l].voxels = IF cblock[l] # None THEN cblock[l].voxels ELSE 0
  BY OwnTerrain
<1>6. ASSUME NEW l \in Fine PROVE ShownOK(l)'
  <2>1. Top(l) \in Nat /\ \A f \in flight : f.voxels \in Nat BY VoxelsTyped DEF Typed
  <2>2. CASE cblock[l] # None BY <1>2, <1>3, <1>5, <2>2 DEF GInv, ShownOK, Newer
  <2>3. CASE cblock[l] = None BY <1>2, <1>3, <1>5, <2>1, <2>3 DEF ShownOK
  <2>4. QED BY <2>2, <2>3
<1>7. NoneGoesBack BY <1>5, VoxelsTyped DEF NoneGoesBack
<1>8. QED BY <1>3, <1>4, <1>6, <1>7 DEF GInv

\* No step takes back what is shown.
LEMMA ShownStep ==
    ASSUME IInv, IInv', Typed, GInv, [ReplicationNext]_all
    PROVE  GInv' /\ NoneGoesBack
<1>1. ASSUME UNCHANGED client PROVE NoneGoesBack
  BY <1>1, VoxelsTyped DEF client, paging, NoneGoesBack
<1>2. CASE UNCHANGED all \/ (Next /\ UNCHANGED replication)
  BY <1>1, <1>2, StoreShows DEF all, replication
<1>3. ASSUME NEW new, SetArea(new) PROVE GInv' /\ NoneGoesBack
  <2>1. UNCHANGED <<vars, poll, link, last_applied, client>> BY <1>3 DEF SetArea
  <2>2. QED BY <1>1, <2>1, LinkKeeps DEF link, client, paging
<1>4. CASE PollScan
  BY <1>1, <1>4, ScanShows DEF PollScan
<1>5. CASE PollBlock
  BY <1>1, <1>5, SendShows DEF PollBlock
<1>6. CASE PollEnds
  <2>1. poll' = None /\ UNCHANGED <<vars, link, last_applied, client>> BY <1>6 DEF PollEnds
  <2>2. QED BY <1>1, <2>1, LinkKeeps DEF link, client, paging
<1>7. CASE Rejoin
  <2>1. flight' = {} /\ UNCHANGED <<vars, poll, client>> BY <1>7 DEF Rejoin
  <2>2. QED BY <1>1, <2>1, LinkKeeps DEF client, paging
<1>8. ASSUME NEW f \in flight, Deliver(f) PROVE GInv' /\ NoneGoesBack BY <1>8, DeliverShows
<1>9. ASSUME NEW f, Lose(f) PROVE GInv' /\ NoneGoesBack
  <2>1. flight' \subseteq flight /\ UNCHANGED <<vars, server, last_applied, client>> BY <1>9 DEF Lose
  <2>2. QED BY <1>1, <2>1, LinkKeeps DEF server, client, paging
<1>10. QED
  BY <1>2, <1>3, <1>4, <1>5, <1>6, <1>7, <1>8, <1>9, OwnShows DEF ReplicationNext

\* Of any network, polls, areas and new connections, and whatever the client
\* pages and edits meanwhile, the voxels of a block of the client are only ever
\* replaced by newer ones.
THEOREM ClientOnlyAdvances == ReplicationSpec => ClientNeverGoesBack
<1>1. ReplicationInit => GInv
  <2> SUFFICES ASSUME ReplicationInit PROVE GInv OBVIOUS
  <2>1. Init /\ poll = None /\ flight = {} /\ cblock = [l \in Fine |-> None]
    BY DEF ReplicationInit, Client!MeshingInit, Client!Init
  <2>2. SeenOK /\ VoxelsOK BY <2>1 DEF Init, SeenOK, VoxelsOK, New, Resident, Nothing
  <2>3. QED BY <2>1, <2>2 DEF GInv, FlightOK, ShownOK
<1>2. IInv /\ LinkTypes /\ Terrain!TypeOK => Typed
  <2> SUFFICES ASSUME IInv, LinkTypes, Client!TypeOK PROVE Typed BY SameTerrain
  <2>1. ASSUME NEW l \in Fine PROVE l \in Locations /\ rev[l] \in Nat /\ Top(l) \in Nat
    <3>1. l \in Locations BY DEF Fine, OnLod
    <3>2. rev[l] \in Nat /\ block[l] \in Blocks BY <3>1 DEF IInv, Shape
    <3>3. QED BY <3>1, <3>2 DEF Top, Origin, Resident, Blocks
  <2>2. QED BY <2>1 DEF Typed, Client!TypeOK
<1>3. IInv /\ IInv' /\ Typed /\ GInv /\ [ReplicationNext]_all => GInv' /\ NoneGoesBack
  BY ShownStep
<1>4. NoneGoesBack => [\A l \in Fine : cblock[l] # None /\ cblock'[l] # None
                                         => cblock'[l].voxels >= cblock[l].voxels]_client
  BY DEF NoneGoesBack
<1>5. Terrain!PagingAssumption BY ReplicationAssumption, SameTerrain DEF Client!MeshingAssumption
<1>6. Terrain!Spec => []Terrain!TypeOK BY <1>5, Terrain!PagingTypes
<1>7. QED
  BY <1>1, <1>2, <1>3, <1>4, <1>6, Invariance, StoreUndisturbed, LinkTypesHold, ClientPagesAsAlone, PTL
     DEF ReplicationSpec, ClientNeverGoesBack, all
=============================================================================
