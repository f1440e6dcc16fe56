--------------------------- MODULE VoxelDataProofs --------------------------
(***************************************************************************)
(* Machine-checked proofs about VoxelData for any threads, LODs, locations *)
(* and scenarios of calls: a commit writes only on what its caller saw, a  *)
(* closed store stays quiet, no circle of waiting threads, and readers see *)
(* an AtomicStore.                                                         *)
(***************************************************************************)
EXTENDS VoxelData, TLAPS, WellFoundedInduction

Ops == {"SetViewersExact", "SetViewersExactAndClearModified", "Insert", "Replace", "ClearModified",
        "Remove", "consume", "edit", "set", "lods", "source", "mark", "view", "unview", "insert", "replace"}

OnResident == {"SetViewersExact", "SetViewersExactAndClearModified", "Replace", "ClearModified",
               "consume", "mark", "view", "unview"}

\* Operation o makes sense on block b.
Fits(o, b) ==
    /\ o.op \in Ops /\ o.viewers \in Nat
    /\ o.op \in OnResident => Resident(b)
    /\ o.op = "unview" => b.viewers > 0

Snap == [rev : Nat, block : Blocks]

Shape ==
    /\ block \in [Locations -> Blocks] /\ rev \in [Locations -> Nat]
    /\ settings \in Nat /\ closed \in BOOLEAN
    /\ gate \in Threads \cup {None}
    /\ region \in [Threads -> [mode : {"none", "read", "write"}, locs : SUBSET Locations]]
    /\ map \in [Lods -> Threads \cup {None}]
    /\ todo \in [Threads -> Seq(Call)]
    /\ pc \in [Threads -> PCs]
    /\ drafted \in [Threads -> Nat]
    /\ touched \in [Threads -> SUBSET Locations]
    /\ DOMAIN seen = Threads /\ DOMAIN plan = Threads
    /\ \A t \in Threads :
         /\ DOMAIN seen[t] \subseteq Locations
         /\ \A l \in DOMAIN seen[t] : seen[t][l] \in Snap
         /\ DOMAIN plan[t] \subseteq Locations

Locked == {"map", "check", "write", "unlock"}
Writer(t) == pc[t] \in Locked \/ (pc[t] \in {"spatial", "leave"} /\ Kind(t) # "read")

KindOK(t) ==
    /\ pc[t] # "idle" => todo[t] # <<>>
    /\ pc[t] = "draft" => Kind(t) \in Drafting
    /\ pc[t] = "gate" => Kind(t) # "read"
    /\ pc[t] = "view" => Kind(t) = "read"
    /\ pc[t] \in Locked => Kind(t) \in Drafting \cup Direct
    /\ pc[t] \in {"spatial", "leave"} => Kind(t) \in Drafting \cup Direct \cup {"read"}
    /\ pc[t] = "idle" \/ Kind(t) \notin Drafting => DOMAIN seen[t] = {}

GateOK(t) == gate = t <=> Writer(t)

MapOK(t) ==
    /\ pc[t] \in {"check", "write", "unlock"} => \A l \in Reach(t) : map[LodOf[l]] = t
    /\ pc[t] = "map" => \E l \in Reach(t) : map[LodOf[l]] # t
    /\ pc[t] = "spatial" /\ Kind(t) # "read" => Reach(t) # {}
    /\ \A d \in Lods : map[d] = t => pc[t] \in Locked

RegionOK(t) ==
    /\ region[t].mode = "write" => Writer(t)
    /\ region[t].mode # "write" /\ region[t].locs # {} => pc[t] \in {"view", "leave"}

PlanOK(t) ==
    /\ pc[t] \in {"gate", "spatial", "map", "check"} /\ Kind(t) \in Drafting =>
         \A l \in DOMAIN plan[t] :
            l \in DOMAIN seen[t] /\ Fits(plan[t][l], SeenBlock(t, l)) /\ plan[t][l].op # "unview"
    /\ pc[t] = "write" =>
         \A l \in DOMAIN plan[t] :
            /\ l \in Reach(t) /\ Fits(plan[t][l], Base(t, l))
            /\ Kind(t) \in Drafting => seen[t][l].rev = rev[l]

TouchOK(t) ==
    /\ \A l \in DOMAIN seen[t] :
          seen[t][l].rev <= rev[l] /\ (l \in touched[t] => seen[t][l].rev < rev[l])
    /\ pc[t] = "write" => touched[t] \cap DOMAIN seen[t] = {}

AdmitOK(t) ==
    pc[t] \in {"spatial", "map", "check", "write"} /\ Kind(t) # "read" =>
        /\ Kind(t) \in Generating => settings = drafted[t]
        /\ closed => Exempt(t)

ThreadOK(t) ==
    KindOK(t) /\ GateOK(t) /\ MapOK(t) /\ RegionOK(t) /\ PlanOK(t) /\ TouchOK(t) /\ AdmitOK(t)

\* What is not yet given back was written by the holder of the gate.
Clean(l) == rev[l] = before.rev[l] /\ block[l] = before.block[l]
Dirty(l) ==
    /\ rev[l] = before.rev[l] + 1
    /\ gate \in Threads /\ pc[gate] \in {"write", "unlock"} /\ l \in Reach(gate)
    /\ pc[gate] = "write" => l \notin DOMAIN plan[gate]

StoreOK ==
    /\ before.rev \in [Locations -> Nat] /\ before.block \in [Locations -> Blocks]
    /\ \A l \in Locations : Clean(l) \/ Dirty(l)

IInv ==
    /\ Shape
    /\ \A t \in Threads : ThreadOK(t)
    /\ StoreOK

-----------------------------------------------------------------------------
(* Operators of the model *)

\* The least of a set of numbers is one of them.
LEMMA LeastIn ==
    ASSUME NEW S, S \subseteq Nat, S # {}
    PROVE  Least(S) \in S /\ \A y \in S : Least(S) <= y
<1>1. PICK x \in S : \A y \in S : ~(<<y, x>> \in OpToRel(<, Nat))
  BY NatLessThanWellFounded, WFMin
<1>2. ASSUME NEW y \in S PROVE x <= y
  <2>1. ~(y < x) BY <1>1 DEF OpToRel
  <2>2. QED BY <2>1
<1>3. QED BY <1>1, <1>2 DEF Least

\* An operation that fits a block leaves a block.
LEMMA FitsMakesBlock ==
    ASSUME NEW o, NEW b \in Blocks, NEW n \in Nat, Fits(o, b)
    PROVE  After(o, b, n) \in Blocks
<1>1. o.op \in Ops /\ o.viewers \in Nat BY DEF Fits
<1>2. CASE Resident(b)
  <2>1. b \in [viewers : Nat, modified : BOOLEAN, edited : BOOLEAN, voxels : Nat]
    BY <1>2 DEF Resident, Blocks
  <2>2. o.op = "unview" => b.viewers - 1 \in Nat BY <2>1 DEF Fits
  <2>3. CASE o.op \in {"SetViewersExact", "SetViewersExactAndClearModified", "ClearModified", "consume"}
    BY <1>1, <2>1, <2>3 DEF After, Blocks
  <2>4. CASE o.op \in {"mark", "view", "unview", "source"}
    <3>1. CASE o.op \in {"mark", "source"} BY <2>1, <3>1 DEF After, Blocks
    <3>2. CASE o.op = "view"
      <4>1. After(o, b, n) = [b EXCEPT !.viewers = @ + 1] BY <3>2 DEF After
      <4>2. QED BY <2>1, <4>1 DEF Blocks
    <3>3. CASE o.op = "unview"
      <4>1. After(o, b, n) = [b EXCEPT !.viewers = @ - 1] BY <3>3 DEF After
      <4>2. QED BY <2>1, <2>2, <3>3, <4>1 DEF Blocks
    <3>4. QED BY <2>4, <3>1, <3>2, <3>3
  <2>5. CASE o.op \in {"Insert", "Replace", "Remove", "insert", "replace"}
    BY <1>1, <2>1, <2>5 DEF After, New, Blocks
  <2>6. CASE o.op \in {"edit", "set", "lods"}
    BY <1>1, <1>2, <2>1, <2>6 DEF After, New, Blocks
  <2>7. QED BY <1>1, <2>3, <2>4, <2>5, <2>6 DEF Ops
<1>3. CASE ~Resident(b)
  <2>1. o.op \notin OnResident BY <1>3 DEF Fits
  <2>2. QED BY <1>1, <1>3, <2>1 DEF After, New, Blocks, Ops, OnResident, Resident
<1>4. QED BY <1>2, <1>3

\* A thread inside a call has one.
LEMMA CallFacts ==
    ASSUME Shape, NEW t \in Threads, todo[t] # <<>>
    PROVE  /\ call(t) \in Call /\ call(t).locs \subseteq Locations /\ Kind(t) \in Kinds
           /\ call(t).ops \subseteq Operations
           /\ Kind(t) = "read" => \A k, l \in call(t).locs : LodOf[k] = LodOf[l]
<1>1. todo[t] \in Seq(Call) BY DEF Shape
<1>2. call(t) \in Call BY <1>1 DEF call
<1>3. QED BY <1>2 DEF Call, Kind

-----------------------------------------------------------------------------
(* What a step leaves alone *)

Same(u) ==
    /\ pc'[u] = pc[u] /\ todo'[u] = todo[u] /\ seen'[u] = seen[u]
    /\ drafted'[u] = drafted[u] /\ plan'[u] = plan[u] /\ region'[u] = region[u]

\* A step of one thread is not a step of another.
LEMMA OtherThread ==
    ASSUME Shape, NEW t \in Threads, NEW u \in Threads, u # t, Step(t)
    PROVE  Same(u)
<1>1. /\ DOMAIN pc = Threads /\ DOMAIN todo = Threads /\ DOMAIN seen = Threads
      /\ DOMAIN drafted = Threads /\ DOMAIN plan = Threads /\ DOMAIN region = Threads
  BY DEF Shape
<1>2. ASSUME Return(t), UNCHANGED region PROVE Same(u)
  BY <1>1, <1>2 DEF Return, Move, Same
<1>3. ASSUME Begin(t) \/ Peek(t) PROVE Same(u)
  BY <1>1, <1>3 DEF Begin, Peek, Move, Same, locks
<1>4. ASSUME Prepare(t) PROVE Same(u)
  <2>1. UNCHANGED <<region, todo, drafted>> /\ pc'[u] = pc[u]
    BY <1>1, <1>4 DEF Prepare, Move, locks
  <2>2. CASE PrepareTransaction(t) BY <1>1, <2>1, <2>2 DEF PrepareTransaction, Same
  <2>3. CASE PrepareChanges(t) BY <1>1, <2>1, <2>3 DEF PrepareChanges, Same
  <2>4. QED BY <1>4, <2>2, <2>3 DEF Prepare
<1>5. ASSUME PrepareFails(t) \/ Refuse(t) \/ Administer(t) PROVE Same(u)
  BY <1>2, <1>5 DEF PrepareFails, Refuse, Administer, locks
<1>6. ASSUME Enter(t) PROVE Same(u)
  BY <1>1, <1>2, <1>6 DEF Enter, Move, Same
<1>7. ASSUME TakeRegion(t) \/ ReservationFails(t) \/ TakeMap(t) \/ Copy(t) PROVE Same(u)
  BY <1>1, <1>7 DEF TakeRegion, ReservationFails, TakeMap, Copy, Move, Same, locks
<1>8. ASSUME Check(t) \/ CheckFails(t) \/ Written(t) \/ Unlock(t) PROVE Same(u)
  BY <1>1, <1>8 DEF Check, CheckFails, Written, Unlock, Move, Same, locks
<1>9. ASSUME WriteBlock(t) PROVE Same(u)
  BY <1>1, <1>9 DEF WriteBlock, Same, locks
<1>10. ASSUME Leave(t) PROVE Same(u)
  BY <1>1, <1>10 DEF Leave, Return, Move, Same
<1>11. QED BY <1>3, <1>4, <1>5, <1>6, <1>7, <1>8, <1>9, <1>10 DEF Step

\* A thread that took no step has the call it had.
LEMMA SameCall ==
    ASSUME NEW u \in Threads, Same(u)
    PROVE  /\ call(u)' = call(u) /\ Kind(u)' = Kind(u) /\ Reach(u)' = Reach(u)
           /\ Writer(u)' <=> Writer(u)
           /\ Exempt(u)' <=> Exempt(u)
           /\ \A l : SeenBlock(u, l)' = SeenBlock(u, l)
<1>1. call(u)' = call(u) BY DEF Same, call
<1>2. Kind(u)' = Kind(u) BY <1>1 DEF Kind
<1>3. Reach(u)' = Reach(u) BY <1>1, <1>2 DEF Reach, Same
<1>4. Writer(u)' <=> Writer(u) BY <1>2 DEF Writer, Same
<1>5. Exempt(u)' <=> Exempt(u) BY <1>1, <1>2 DEF Exempt, Same
<1>6. QED BY <1>1, <1>2, <1>3, <1>4, <1>5 DEF SeenBlock, Same

\* What is said of a thread that took no step stays true when the shared state
\* changed only as others may change it.
LEMMA Undisturbed ==
    ASSUME Shape, Shape', NEW u \in Threads, ThreadOK(u), Same(u),
           gate' = u <=> gate = u,
           \A d \in Lods : map'[d] = u <=> map[d] = u,
           LodOf \in [Locations -> Lods],
           \A l \in Locations : rev[l] <= rev'[l],
           touched[u] \subseteq touched'[u],
           \A l \in touched'[u] \cap DOMAIN seen[u] : l \in touched[u] \/ rev[l] < rev'[l],
           pc[u] = "write" => UNCHANGED <<block, rev>> /\ touched'[u] = touched[u],
           Writer(u) => UNCHANGED <<settings, closed>>
    PROVE  ThreadOK(u)'
<1>1. /\ call(u)' = call(u) /\ Kind(u)' = Kind(u) /\ Reach(u)' = Reach(u)
      /\ Writer(u)' <=> Writer(u)
      /\ Exempt(u)' <=> Exempt(u)
      /\ \A l : SeenBlock(u, l)' = SeenBlock(u, l)
  BY SameCall
<1>2. KindOK(u)' BY <1>1 DEF ThreadOK, KindOK, Same
<1>3. GateOK(u)' BY <1>1 DEF ThreadOK, GateOK
<1>4. RegionOK(u)' BY <1>1 DEF ThreadOK, RegionOK, Same
<1>5. pc[u] # "idle" => Reach(u) \subseteq Locations
  BY CallFacts DEF Reach, Shape, ThreadOK, KindOK
<1>6. MapOK(u)'
  BY <1>1, <1>5 DEF ThreadOK, MapOK, Same
<1>7. PlanOK(u)'
  <2>1. pc[u] = "write" => \A l : Base(u, l)' = Base(u, l) BY <1>1 DEF Base
  <2>2. QED BY <1>1, <2>1 DEF ThreadOK, PlanOK, Same
<1>8. TouchOK(u)'
  <2>1. ASSUME NEW l \in DOMAIN seen[u]
        PROVE  seen[u][l].rev <= rev'[l] /\ (l \in touched'[u] => seen[u][l].rev < rev'[l])
    <3>1. l \in Locations /\ seen[u][l].rev \in Nat /\ rev[l] \in Nat /\ rev'[l] \in Nat
      BY <2>1 DEF Shape, Snap
    <3>2. QED BY <2>1, <3>1 DEF ThreadOK, TouchOK
  <2>2. QED BY <2>1 DEF ThreadOK, TouchOK, Same
<1>9. AdmitOK(u)'
  BY <1>1 DEF ThreadOK, AdmitOK, Same, Writer, Locked
<1>10. QED BY <1>2, <1>3, <1>4, <1>6, <1>7, <1>8, <1>9, <1>4 DEF ThreadOK

\* A thread whose call returned has nothing left of it.
LEMMA Returned ==
    ASSUME Shape, NEW t \in Threads, Return(t), gate' # t,
           \A d \in Lods : map'[d] # t,
           region'[t].mode # "write", region'[t].locs = {}
    PROVE  ThreadOK(t)'
<1>1. pc'[t] = "idle" /\ seen'[t] = Nothing /\ touched'[t] = {}
  BY DEF Shape, Return, Move
<1>2. DOMAIN seen'[t] = {} BY <1>1 DEF Nothing
<1>3. QED BY <1>1, <1>2 DEF ThreadOK, KindOK, GateOK, MapOK, RegionOK, PlanOK, TouchOK, AdmitOK, Writer, Locked

\* The types survive a return.
LEMMA ReturnShape ==
    ASSUME Shape, NEW t \in Threads, todo[t] # <<>>, Return(t),
           UNCHANGED <<block, rev>>, settings' \in Nat, closed' \in BOOLEAN,
           gate' \in Threads \cup {None},
           region' \in [Threads -> [mode : {"none", "read", "write"}, locs : SUBSET Locations]],
           map' \in [Lods -> Threads \cup {None}]
    PROVE  Shape'
<1>1. todo' \in [Threads -> Seq(Call)]
  <2>1. Tail(todo[t]) \in Seq(Call) BY DEF Shape
  <2>2. QED BY <2>1 DEF Shape, Return
<1>2. pc' \in [Threads -> PCs] BY DEF Shape, Return, Move, PCs
<1>3. drafted' \in [Threads -> Nat] /\ touched' \in [Threads -> SUBSET Locations]
  BY DEF Shape, Return
<1>4. DOMAIN seen' = Threads /\ DOMAIN plan' = Threads BY DEF Shape, Return
<1>5. ASSUME NEW u \in Threads
      PROVE  /\ DOMAIN seen'[u] \subseteq Locations
             /\ \A l \in DOMAIN seen'[u] : seen'[u][l] \in Snap
             /\ DOMAIN plan'[u] \subseteq Locations
  <2>1. CASE u = t BY <2>1 DEF Shape, Return, Nothing
  <2>2. CASE u # t BY <2>2 DEF Shape, Return
  <2>3. QED BY <2>1, <2>2
<1>6. QED BY <1>1, <1>2, <1>3, <1>4, <1>5 DEF Shape

-----------------------------------------------------------------------------
(* The steps *)

\* A step that changes neither the store nor a lock.
LEMMA QuietStep ==
    ASSUME VoxelDataAssumption, IInv, NEW t \in Threads, Step(t),
           UNCHANGED <<store, locks, before>>,
           \A u \in Threads \ {t} : touched'[u] = touched[u],
           Shape', ThreadOK(t)',
           pc[t] \in {"write", "unlock"} => pc'[t] = "unlock" /\ Reach(t)' = Reach(t)
    PROVE  IInv'
<1>1. Shape /\ StoreOK /\ LodOf \in [Locations -> Lods] /\ None \notin Threads
  BY DEF IInv, VoxelDataAssumption
<1>2. ASSUME NEW u \in Threads, u # t PROVE Same(u) /\ ThreadOK(u)'
  <2>1. Same(u) /\ ThreadOK(u) BY <1>1, <1>2, OtherThread DEF IInv
  <2>2. \A l \in Locations : rev[l] \in Nat BY <1>1 DEF Shape
  <2>3. UNCHANGED <<block, rev, settings, closed, gate, map>> BY DEF store, locks
  <2>4. touched'[u] = touched[u] BY <1>2
  <2>5. ASSUME NEW l \in Locations PROVE rev[l] <= rev'[l]
    <3>1. rev'[l] = rev[l] /\ rev[l] \in Nat BY <2>2, <2>3
    <3>2. QED BY <3>1
  <2>6. ThreadOK(u)' BY <1>1, <2>1, <2>3, <2>4, <2>5, Undisturbed
  <2>7. QED BY <2>1, <2>6
<1>3. StoreOK'
  <2>1. UNCHANGED <<block, rev, gate, before>> BY DEF store, locks
  <2>2. ASSUME NEW l \in Locations, Dirty(l) PROVE Dirty(l)'
    <3>1. CASE gate = t BY <2>1, <2>2, <3>1 DEF Dirty
    <3>2. CASE gate # t
      <4>1. gate \in Threads /\ Same(gate) BY <1>2, <2>2, <3>2 DEF Dirty
      <4>2. Reach(gate)' = Reach(gate) BY <4>1, <2>1, SameCall
      <4>3. QED BY <2>1, <2>2, <4>1, <4>2 DEF Dirty, Same
    <3>3. QED BY <3>1, <3>2
  <2>3. QED BY <1>1, <2>1, <2>2 DEF StoreOK, Clean
<1>4. QED BY <1>2, <1>3 DEF IInv

LEMMA BeginStep ==
    ASSUME VoxelDataAssumption, IInv, NEW t \in Threads, Begin(t) PROVE IInv'
<1>1. Shape /\ ThreadOK(t) /\ todo[t] # <<>> /\ pc[t] = "idle" BY DEF IInv, Begin
<1>2. Kind(t) \in Kinds /\ call(t) \in Call BY <1>1, CallFacts
<1>3. /\ UNCHANGED <<store, locks, todo, seen, plan, before, touched>>
      /\ pc'[t] \in {"draft", "spatial", "gate"} /\ \A u \in Threads \ {t} : pc'[u] = pc[u]
      /\ pc'[t] = CASE Kind(t) \in Drafting -> "draft" [] Kind(t) = "read" -> "spatial" [] OTHER -> "gate"
  BY <1>1 DEF Begin, Move, Shape
<1>4. Shape'
  <2>1. pc' \in [Threads -> PCs] BY <1>1, <1>3 DEF Begin, Move, Shape, PCs
  <2>2. drafted' \in [Threads -> Nat] BY <1>1 DEF Begin, Shape
  <2>3. QED BY <1>1, <1>3, <2>1, <2>2 DEF Shape, store, locks
<1>5. call(t)' = call(t) /\ Kind(t)' = Kind(t) BY <1>3 DEF call, Kind
<1>6. KindOK(t)' /\ ~Writer(t)' /\ ~Writer(t)
  <2>1. DOMAIN seen[t] = {} BY <1>1 DEF ThreadOK, KindOK
  <2>2. QED BY <1>1, <1>2, <1>3, <1>5, <2>1 DEF KindOK, Writer, Locked, Drafting, Kinds
<1>7. GateOK(t)' /\ MapOK(t)' /\ RegionOK(t)'
  BY <1>1, <1>3, <1>5, <1>6 DEF ThreadOK, GateOK, MapOK, RegionOK, locks, Writer
<1>8. PlanOK(t)' /\ TouchOK(t)' /\ AdmitOK(t)'
  <2>1. pc'[t] = "gate" => Kind(t) \notin Drafting BY <1>3
  <2>2. pc'[t] = "spatial" => Kind(t) = "read" BY <1>3
  <2>3. QED BY <1>1, <1>3, <1>5, <2>1, <2>2 DEF ThreadOK, PlanOK, TouchOK, AdmitOK, store, Drafting
<1>9. ThreadOK(t)' BY <1>6, <1>7, <1>8 DEF ThreadOK
<1>10. QED BY <1>1, <1>3, <1>4, <1>9, QuietStep DEF Step

LEMMA PeekStep ==
    ASSUME VoxelDataAssumption, IInv, NEW t \in Threads, Peek(t) PROVE IInv'
<1>1. Shape /\ ThreadOK(t) /\ pc[t] = "draft" /\ todo[t] # <<>> /\ Kind(t) \in Drafting
  BY DEF IInv, Peek, ThreadOK, KindOK
<1>2. /\ UNCHANGED <<store, locks, todo, pc, drafted, plan, before>>
      /\ DOMAIN seen'[t] = DOMAIN seen[t] \cup Batch(t)
      /\ \A l \in Batch(t) : seen'[t][l] = Snapshot(l)
      /\ \A l \in DOMAIN seen[t] \ Batch(t) : seen'[t][l] = seen[t][l]
      /\ touched'[t] = touched[t] \ Batch(t)
      /\ \A u \in Threads \ {t} : touched'[u] = touched[u] /\ seen'[u] = seen[u]
  BY <1>1 DEF Peek, Shape
<1>3. Batch(t) \subseteq Locations
  <2>1. call(t).locs \subseteq Locations BY <1>1, CallFacts
  <2>2. Unread(t) \subseteq Locations BY <2>1 DEF Unread
  <2>3. Unread(t) # {} /\ Unread(t) \subseteq Nat BY <2>2 DEF Peek, VoxelDataAssumption
  <2>4. Least(Unread(t)) \in Unread(t) BY <2>3, LeastIn
  <2>5. QED BY <2>2, <2>4 DEF Batch, OnLod
<1>4. \A l \in Batch(t) : Snapshot(l) \in Snap /\ Snapshot(l).rev = rev[l]
  BY <1>1, <1>3 DEF Snapshot, Snap, Shape
<1>5. Shape'
  <2>1. touched' \in [Threads -> SUBSET Locations] /\ DOMAIN seen' = Threads
    BY <1>1 DEF Peek, Shape
  <2>2. DOMAIN seen'[t] \subseteq Locations /\ \A l \in DOMAIN seen'[t] : seen'[t][l] \in Snap
    BY <1>1, <1>2, <1>3, <1>4 DEF Shape
  <2>3. QED BY <1>1, <1>2, <2>1, <2>2 DEF Shape, store, locks
<1>6. call(t)' = call(t) /\ Kind(t)' = Kind(t) BY <1>2 DEF call, Kind
<1>7. KindOK(t)' /\ GateOK(t)' /\ RegionOK(t)'
  BY <1>1, <1>2, <1>6 DEF ThreadOK, KindOK, GateOK, RegionOK, Writer, locks, Locked
<1>8. MapOK(t)' /\ PlanOK(t)' /\ AdmitOK(t)'
  BY <1>1, <1>2, <1>6 DEF ThreadOK, MapOK, PlanOK, AdmitOK, locks, Locked
<1>9. TouchOK(t)'
  <2>1. ASSUME NEW l \in DOMAIN seen'[t]
        PROVE  seen'[t][l].rev <= rev'[l] /\ (l \in touched'[t] => seen'[t][l].rev < rev'[l])
    <3>1. CASE l \in Batch(t)
      <4>1. rev[l] \in Nat BY <1>1, <1>3, <3>1 DEF Shape
      <4>2. QED BY <1>2, <1>4, <3>1, <4>1 DEF store
    <3>2. CASE l \notin Batch(t) BY <1>1, <1>2, <2>1, <3>2 DEF ThreadOK, TouchOK, store
    <3>3. QED BY <3>1, <3>2
  <2>2. QED BY <1>1, <1>2, <2>1 DEF TouchOK
<1>10. ThreadOK(t)' BY <1>7, <1>8, <1>9 DEF ThreadOK
<1>11. QED BY <1>1, <1>2, <1>5, <1>10, QuietStep DEF Step

\* What the caller of a transaction may ask for fits the block it saw.
LEMMA TransactionFits ==
    ASSUME NEW c, c.ops \subseteq Operations, NEW b, NEW o \in TransactionOps(c, b)
    PROVE  Fits(o, b) /\ o.op # "unview"
<1>1. o.op \in Operations /\ o.viewers \in 0..1 /\ Accepts(b, o)
  BY DEF TransactionOps, Viewers
<1>2. o.op \in OnResident => Resident(b)
  BY <1>1 DEF Accepts, Operations, OnResident
<1>3. QED BY <1>1, <1>2 DEF Fits, Ops, Operations

\* So does what any other call that reads first plans.
LEMMA PlannedFits ==
    ASSUME NEW t \in Threads, Kind(t) \in Drafting \ {"transaction"}
    PROVE  /\ DOMAIN Planned(t) \subseteq call(t).locs
           /\ \A l \in DOMAIN Planned(t) :
                Fits(Planned(t)[l], SeenBlock(t, l)) /\ Planned(t)[l].op # "unview"
<1>1. \A x \in Ops : Op(x).op = x /\ Op(x).viewers \in Nat BY DEF Op
<1>2. CASE Kind(t) \in {"edit", "set"}
  <2>1. Planned(t) = [l \in call(t).locs |-> Op(Kind(t))] BY <1>2 DEF Planned
  <2>2. QED BY <1>1, <1>2, <2>1 DEF Fits, Ops, OnResident
<1>3. CASE Kind(t) = "lods"
  <2> DEFINE source == Least(call(t).locs)
  <2>1. CASE ~Resident(SeenBlock(t, source))
    <3>1. Planned(t) = Nothing BY <1>3, <2>1 DEF Planned
    <3>2. QED BY <3>1 DEF Nothing
  <2>2. CASE Resident(SeenBlock(t, source))
    <3>1. Planned(t) = [l \in call(t).locs |-> Op(IF l = source THEN "source" ELSE "lods")]
      BY <1>3, <2>2 DEF Planned
    <3> HIDE DEF source
    <3>2. DOMAIN Planned(t) = call(t).locs
          /\ \A l \in call(t).locs : Planned(t)[l].op \in {"source", "lods"} /\ Planned(t)[l].viewers \in Nat
      BY <1>1, <3>1 DEF Ops, Op
    <3>3. QED BY <3>2 DEF Fits, Ops, OnResident
  <2>3. QED BY <2>1, <2>2
<1>4. CASE Kind(t) = "mark"
  <2>1. Planned(t) = [l \in {k \in call(t).locs :
                                /\ Resident(SeenBlock(t, k))
                                /\ ~(SeenBlock(t, k).modified /\ SeenBlock(t, k).edited)} |-> Op("mark")]
    BY <1>4 DEF Planned
  <2>2. QED BY <1>1, <2>1 DEF Fits, Ops, OnResident
<1>5. CASE Kind(t) = "consume"
  <2>1. Planned(t) = [l \in {k \in call(t).locs : Resident(SeenBlock(t, k)) /\ SeenBlock(t, k).modified} |->
                         Op("consume")]
    BY <1>5 DEF Planned
  <2>2. QED BY <1>1, <2>1 DEF Fits, Ops, OnResident
<1>6. QED BY <1>2, <1>3, <1>4, <1>5 DEF Drafting

LEMMA PrepareStep ==
    ASSUME VoxelDataAssumption, IInv, NEW t \in Threads, Prepare(t) PROVE IInv'
<1>1. Shape /\ ThreadOK(t) /\ pc[t] = "draft" /\ todo[t] # <<>> /\ Kind(t) \in Drafting
  BY DEF IInv, Prepare, ThreadOK, KindOK
<1>2. /\ UNCHANGED <<store, locks, todo, drafted, before, touched>>
      /\ pc'[t] = "gate" /\ pc' \in [Threads -> PCs]
  BY <1>1 DEF Prepare, Move, Shape, PCs
<1>3. call(t).locs \subseteq Locations /\ call(t).locs \subseteq DOMAIN seen[t] /\ call(t).ops \subseteq Operations
  BY <1>1, CallFacts DEF Prepare, Unread
<1>4. \A u \in Threads \ {t} : seen'[u] = seen[u] /\ plan'[u] = plan[u]
  BY <1>1, OtherThread DEF Same, Step
<1>5. /\ DOMAIN seen' = Threads /\ DOMAIN plan' = Threads
      /\ DOMAIN plan'[t] \subseteq DOMAIN seen'[t] /\ DOMAIN seen'[t] \subseteq DOMAIN seen[t]
      /\ \A l \in DOMAIN seen'[t] : seen'[t][l] = seen[t][l]
      /\ \A l \in DOMAIN plan'[t] : Fits(plan'[t][l], SeenBlock(t, l)) /\ plan'[t][l].op # "unview"
  <2>1. CASE PrepareTransaction(t)
    <3>1. PICK p \in Transactions(t) :
             /\ \A l \in DOMAIN p : p[l] \in TransactionOps(call(t), SeenBlock(t, l))
             /\ plan' = [plan EXCEPT ![t] = p]
      BY <2>1 DEF PrepareTransaction
    <3>2. plan'[t] = p /\ DOMAIN p \subseteq call(t).locs /\ seen' = seen
      BY <1>1, <2>1, <3>1 DEF PrepareTransaction, Transactions, Shape
    <3>3. ASSUME NEW l \in DOMAIN p PROVE Fits(p[l], SeenBlock(t, l)) /\ p[l].op # "unview"
      BY <1>3, <3>1, TransactionFits
    <3>4. DOMAIN plan' = Threads BY <1>1, <3>1 DEF Shape
    <3>5. QED BY <1>1, <1>3, <3>2, <3>3, <3>4 DEF Shape
  <2>2. CASE PrepareChanges(t)
    <3>1. plan'[t] = Planned(t) /\ seen'[t] = [l \in DOMAIN Planned(t) |-> seen[t][l]]
          /\ DOMAIN seen' = Threads /\ DOMAIN plan' = Threads
      BY <1>1, <2>2 DEF PrepareChanges, Shape
    <3>2. Kind(t) \in Drafting \ {"transaction"} BY <1>1, <2>2 DEF PrepareChanges
    <3>3. QED BY <1>3, <3>1, <3>2, PlannedFits
  <2>3. QED BY <2>1, <2>2 DEF Prepare
<1>6. Shape'
  <2>1. /\ DOMAIN seen'[t] \subseteq Locations /\ DOMAIN plan'[t] \subseteq Locations
        /\ \A l \in DOMAIN seen'[t] : seen'[t][l] \in Snap
    BY <1>1, <1>5 DEF Shape
  <2>2. QED BY <1>1, <1>2, <1>4, <1>5, <2>1 DEF Shape, store, locks
<1>7. call(t)' = call(t) /\ Kind(t)' = Kind(t) BY <1>2 DEF call, Kind
<1>8. \A l \in DOMAIN seen'[t] : SeenBlock(t, l)' = SeenBlock(t, l) BY <1>5 DEF SeenBlock
<1>9. KindOK(t)' /\ GateOK(t)' /\ RegionOK(t)' /\ MapOK(t)'
  BY <1>1, <1>2, <1>7 DEF ThreadOK, KindOK, GateOK, RegionOK, MapOK, Writer, locks, Locked, Drafting
<1>10. PlanOK(t)' BY <1>2, <1>5, <1>8 DEF PlanOK
<1>11. TouchOK(t)' /\ AdmitOK(t)'
  BY <1>1, <1>2, <1>5 DEF ThreadOK, TouchOK, AdmitOK, store
<1>12. ThreadOK(t)' BY <1>9, <1>10, <1>11 DEF ThreadOK
<1>13. QED BY <1>1, <1>2, <1>6, <1>12, QuietStep DEF Step

\* A call that returns before it locked anything.
LEMMA QuietReturn ==
    ASSUME VoxelDataAssumption, IInv, NEW t \in Threads, Step(t), Return(t),
           pc[t] \in {"draft", "gate"}, UNCHANGED <<store, locks, before>>
    PROVE  IInv'
<1>1. Shape /\ ThreadOK(t) /\ todo[t] # <<>> BY DEF IInv, ThreadOK, KindOK
<1>2. ~Writer(t) BY DEF Writer, Locked
<1>3. gate # t /\ \A d \in Lods : map[d] # t
  BY <1>1, <1>2 DEF ThreadOK, GateOK, MapOK, Locked
<1>4. region[t].mode # "write" /\ region[t].locs = {}
  BY <1>1, <1>2 DEF ThreadOK, RegionOK
<1>5. Shape' BY <1>1, ReturnShape DEF Shape, store, locks
<1>6. ThreadOK(t)' BY <1>1, <1>3, <1>4, Returned DEF locks
<1>7. \A u \in Threads \ {t} : touched'[u] = touched[u] BY <1>1 DEF Return, Shape
<1>8. QED BY <1>5, <1>6, <1>7, QuietStep

\* A step that moves only the threads' own state and, for its own thread, locks.
LEMMA LockingStep ==
    ASSUME VoxelDataAssumption, IInv, NEW t \in Threads, Step(t),
           UNCHANGED <<block, rev, before>>,
           \A u \in Threads \ {t} : touched'[u] = touched[u] /\ (gate' = u <=> gate = u),
           \A u \in Threads \ {t} : \A d \in Lods : map'[d] = u <=> map[d] = u,
           \A u \in Threads \ {t} : Writer(u) => UNCHANGED <<settings, closed>>,
           pc[t] \notin {"write", "unlock"}, gate \in {None, t} \/ gate' = gate,
           Shape', ThreadOK(t)'
    PROVE  IInv'
<1>1. Shape /\ StoreOK /\ LodOf \in [Locations -> Lods] /\ None \notin Threads
  BY DEF IInv, VoxelDataAssumption
<1>2. ASSUME NEW u \in Threads, u # t PROVE Same(u) /\ ThreadOK(u)'
  <2>1. Same(u) /\ ThreadOK(u) BY <1>1, <1>2, OtherThread DEF IInv
  <2>2. ASSUME NEW l \in Locations PROVE rev[l] <= rev'[l]
    <3>1. rev'[l] = rev[l] /\ rev[l] \in Nat BY <1>1 DEF Shape
    <3>2. QED BY <3>1
  <2>3. touched'[u] = touched[u] /\ (gate' = u <=> gate = u) /\ \A d \in Lods : map'[d] = u <=> map[d] = u
    BY <1>2
  <2>4. Writer(u) => UNCHANGED <<settings, closed>> BY <1>2
  <2>5. ThreadOK(u)' BY <1>1, <2>1, <2>2, <2>3, <2>4, Undisturbed
  <2>6. QED BY <2>1, <2>5
<1>3. StoreOK'
  <2>1. ASSUME NEW l \in Locations, Dirty(l) PROVE Dirty(l)'
    <3>1. gate \in Threads /\ gate # t /\ gate' = gate BY <1>1, <2>1 DEF Dirty
    <3>2. Same(gate) BY <1>2, <3>1
    <3>3. Reach(gate)' = Reach(gate) BY <3>1, <3>2, SameCall
    <3>4. QED BY <2>1, <3>1, <3>2, <3>3 DEF Dirty, Same
  <2>2. QED BY <1>1, <2>1 DEF StoreOK, Clean
<1>4. QED BY <1>2, <1>3 DEF IInv

LEMMA AdministerStep ==
    ASSUME VoxelDataAssumption, IInv, NEW t \in Threads, Administer(t) PROVE IInv'
<1>1. Shape /\ ThreadOK(t) /\ todo[t] # <<>> /\ pc[t] = "gate" /\ gate = None
  BY DEF IInv, ThreadOK, KindOK, Administer
<1>2. UNCHANGED <<block, rev, gate, region, map, before>> /\ Return(t) BY DEF Administer, locks
<1>3. None \notin Threads BY DEF VoxelDataAssumption
<1>4. ~Writer(t) BY <1>1 DEF Writer, Locked
<1>5. gate # t /\ \A d \in Lods : map[d] # t BY <1>1, <1>4 DEF ThreadOK, GateOK, MapOK, Locked
<1>6. region[t].mode # "write" /\ region[t].locs = {} BY <1>1, <1>4 DEF ThreadOK, RegionOK
<1>7. Shape'
  <2>1. settings \in Nat /\ closed \in BOOLEAN BY <1>1 DEF Shape
  <2>2. settings' = settings \/ settings' = settings + 1 BY DEF Administer
  <2>3. closed' = closed \/ closed' = (Kind(t) = "close") BY DEF Administer
  <2>4. (Kind(t) = "close") \in BOOLEAN OBVIOUS
  <2>5. closed' \in BOOLEAN BY <2>1, <2>3, <2>4
  <2>6. settings' \in Nat BY <2>1, <2>2
  <2>7. QED BY <1>1, <1>2, <2>5, <2>6, ReturnShape DEF Shape
<1>8. ThreadOK(t)' BY <1>1, <1>2, <1>5, <1>6, Returned
<1>9. \A u \in Threads \ {t} : touched'[u] = touched[u] BY <1>1, <1>2 DEF Return, Shape
<1>10. ASSUME NEW u \in Threads PROVE ~Writer(u)
  BY <1>1, <1>3 DEF IInv, ThreadOK, GateOK
<1>11. Step(t) BY DEF Step
<1>12. QED BY <1>1, <1>2, <1>7, <1>8, <1>9, <1>10, <1>11, LockingStep

LEMMA EnterStep ==
    ASSUME VoxelDataAssumption, IInv, NEW t \in Threads, Enter(t) PROVE IInv'
<1>1. /\ Shape /\ ThreadOK(t) /\ todo[t] # <<>> /\ pc[t] = "gate" /\ gate = None /\ Step(t)
      /\ Kind(t) \in Drafting \cup Direct /\ Admitted(t)
  BY DEF IInv, ThreadOK, KindOK, Enter, Step
<1>2. UNCHANGED <<store, region, map, before>> BY DEF Enter
<1>3. CASE Reach(t) = {}
  <2>1. Return(t) /\ UNCHANGED <<store, locks, before>> BY <1>2, <1>3 DEF Enter, locks
  <2>2. QED BY <1>1, <2>1, QuietReturn
<1>4. CASE Reach(t) # {}
  <2>1. /\ gate' = t /\ UNCHANGED <<todo, seen, drafted, plan, touched>>
        /\ pc'[t] = "spatial" /\ pc' \in [Threads -> PCs]
    BY <1>1, <1>4 DEF Enter, Move, Shape, PCs, Phases
  <2>2. Shape' BY <1>1, <1>2, <2>1 DEF Shape, store
  <2>3. call(t)' = call(t) /\ Kind(t)' = Kind(t) BY <2>1 DEF call, Kind
  <2>4. Reach(t)' = Reach(t) /\ (Exempt(t)' <=> Exempt(t)) BY <2>1, <2>3 DEF Reach, Exempt
  <2>5. Kind(t) # "read" BY <1>1 DEF Drafting, Direct
  <2>6. KindOK(t)' /\ GateOK(t)' BY <1>1, <2>1, <2>3, <2>5 DEF ThreadOK, KindOK, GateOK, Writer, Locked
  <2>7. MapOK(t)'
    <3>1. \A d \in Lods : map[d] # t BY <1>1 DEF ThreadOK, MapOK, Locked
    <3>2. QED BY <1>2, <1>4, <2>1, <2>4, <3>1 DEF MapOK
  <2>8. RegionOK(t)' BY <1>1, <1>2, <2>1, <2>3, <2>5 DEF ThreadOK, RegionOK, Writer, Locked
  <2>9. PlanOK(t)'
    BY <1>1, <2>1, <2>3 DEF ThreadOK, PlanOK, SeenBlock
  <2>10. TouchOK(t)' BY <1>1, <1>2, <2>1 DEF ThreadOK, TouchOK, store
  <2>11. AdmitOK(t)' BY <1>1, <1>2, <2>1, <2>3, <2>4 DEF AdmitOK, Admitted, store
  <2>12. ThreadOK(t)' BY <2>6, <2>7, <2>8, <2>9, <2>10, <2>11 DEF ThreadOK
  <2>13. None \notin Threads BY DEF VoxelDataAssumption
  <2>14. QED BY <1>1, <1>2, <2>1, <2>2, <2>12, <2>13, LockingStep DEF store
<1>5. QED BY <1>3, <1>4

\* What a thread locks next is there, and is one of the locations it reaches.
LEMMA ReachFacts ==
    ASSUME VoxelDataAssumption, Shape, NEW t \in Threads, KindOK(t), pc[t] # "idle"
    PROVE  /\ Reach(t) \subseteq Locations
           /\ NextRegion(t) \subseteq Reach(t)
           /\ \A S \in SUBSET Lods : S # {} => Least(S) \in S
<1>1. Reach(t) \subseteq Locations BY CallFacts DEF Reach, Shape, KindOK
<1>2. \A S \in SUBSET Lods : S # {} => Least(S) \in S
  <2>1. SUFFICES ASSUME NEW S \in SUBSET Lods, S # {} PROVE Least(S) \in S OBVIOUS
  <2>2. S \subseteq Nat BY DEF VoxelDataAssumption
  <2>3. QED BY <2>1, <2>2, LeastIn
<1>3. NextRegion(t) \subseteq Reach(t) BY DEF NextRegion, OnLod
<1>4. QED BY <1>1, <1>2, <1>3

\* A reader locks all it needs at once: it reads one LOD.
LEMMA ReaderLocksOnce ==
    ASSUME VoxelDataAssumption, Shape, NEW t \in Threads, KindOK(t), pc[t] = "spatial",
           Kind(t) = "read", region[t].locs = {}
    PROVE  NextRegion(t) = Reach(t)
<1>1. Reach(t) = call(t).locs BY DEF Reach, Drafting
<1>2. \A k, l \in Reach(t) : LodOf[k] = LodOf[l] BY <1>1, CallFacts DEF KindOK
<1>3. CASE Reach(t) = {} BY <1>3 DEF NextRegion, OnLod
<1>4. CASE Reach(t) # {}
  <2>1. NextLod(t) \in LodsOf(Reach(t))
    <3>1. /\ Reach(t) \subseteq Locations
          /\ \A S \in SUBSET Lods : S # {} => Least(S) \in S
      BY ReachFacts
    <3>2. \A l \in Reach(t) : LodOf[l] \in Lods BY <3>1 DEF VoxelDataAssumption
    <3>3. LodsOf(Reach(t)) \in SUBSET Lods /\ LodsOf(Reach(t)) # {}
      <4>1. LodsOf(Reach(t)) = {LodOf[l] : l \in Reach(t)} BY DEF LodsOf
      <4>2. QED BY <1>4, <3>2, <4>1
    <3>4. NextLod(t) = Least(LodsOf(Reach(t))) BY DEF NextLod
    <3>5. QED BY <3>1, <3>3, <3>4
  <2>2. QED BY <1>2, <2>1 DEF NextRegion, OnLod, LodsOf
<1>5. QED BY <1>3, <1>4

LEMMA TakeRegionStep ==
    ASSUME VoxelDataAssumption, IInv, NEW t \in Threads, TakeRegion(t) PROVE IInv'
<1>1. Shape /\ ThreadOK(t) /\ todo[t] # <<>> /\ pc[t] = "spatial" /\ Step(t) /\ KindOK(t)
  BY DEF IInv, ThreadOK, KindOK, TakeRegion, Step
<1> DEFINE locs == region[t].locs \cup NextRegion(t)
<1>2. /\ UNCHANGED <<store, gate, map, todo, seen, drafted, plan, before, touched>>
      /\ region' = [region EXCEPT ![t] = [mode |-> Mode(t), locs |-> locs]]
      /\ pc' = [pc EXCEPT ![t] = IF locs = Reach(t) THEN AfterRegions(t) ELSE "spatial"]
  BY DEF TakeRegion, Move
<1>3. locs \subseteq Locations
  BY <1>1, ReachFacts DEF Shape
<1>4. region'[t] = [mode |-> Mode(t), locs |-> locs]
      /\ pc'[t] = IF locs = Reach(t) THEN AfterRegions(t) ELSE "spatial"
  BY <1>1, <1>2 DEF Shape
<1>5. AfterRegions(t) = IF Kind(t) = "read" THEN "view" ELSE "map"
  BY DEF AfterRegions, NextPhase, Phases
<1>6. Kind(t) = "read" => locs = Reach(t)
  <2>1. Kind(t) = "read" => region[t].locs = {}
    BY <1>1 DEF ThreadOK, RegionOK, Writer, Locked
  <2>2. QED BY <1>1, <2>1, ReaderLocksOnce
<1>7. Shape'
  <2>1. Mode(t) \in {"none", "read", "write"} BY DEF Mode
  <2>2. region' \in [Threads -> [mode : {"none", "read", "write"}, locs : SUBSET Locations]]
    BY <1>1, <1>2, <1>3, <2>1 DEF Shape
  <2>3. pc' \in [Threads -> PCs] BY <1>1, <1>2, <1>5 DEF Shape, PCs
  <2>4. QED BY <1>1, <1>2, <2>2, <2>3 DEF Shape, store
<1> HIDE DEF locs
<1>8. call(t)' = call(t) /\ Kind(t)' = Kind(t) BY <1>2 DEF call, Kind
<1>9. Reach(t)' = Reach(t) /\ (Exempt(t)' <=> Exempt(t)) BY <1>2, <1>8 DEF Reach, Exempt
<1>10. ASSUME Kind(t) = "read" PROVE ThreadOK(t)'
  <2>1. pc'[t] = "view" /\ region'[t].mode = "read"
    BY <1>4, <1>5, <1>6, <1>10 DEF Mode
  <2>2. KindOK(t)' /\ GateOK(t)' /\ RegionOK(t)'
    BY <1>1, <1>2, <1>8, <1>10, <2>1 DEF ThreadOK, KindOK, GateOK, RegionOK, Writer, Locked
  <2>3. MapOK(t)' BY <1>1, <1>2, <2>1 DEF ThreadOK, MapOK, Locked
  <2>4. PlanOK(t)' /\ TouchOK(t)' /\ AdmitOK(t)'
    BY <1>1, <1>2, <2>1 DEF ThreadOK, PlanOK, TouchOK, AdmitOK, store
  <2>5. QED BY <2>2, <2>3, <2>4 DEF ThreadOK
<1>11. ASSUME Kind(t) # "read" PROVE ThreadOK(t)'
  <2>1. pc'[t] \in {"spatial", "map"} /\ Writer(t)
    BY <1>1, <1>4, <1>5, <1>11 DEF Writer
  <2>2. KindOK(t)' BY <1>1, <1>2, <1>8, <1>11, <2>1 DEF KindOK, Locked
  <2>3. Writer(t)' BY <1>8, <1>11, <2>1 DEF Writer, Locked
  <2>4. GateOK(t)' BY <1>1, <1>2, <2>1, <2>3 DEF ThreadOK, GateOK
  <2>5. region'[t].mode = "write" BY <1>4, <1>11 DEF Mode
  <2>6. RegionOK(t)' BY <2>3, <2>5 DEF RegionOK
  <2>7. MapOK(t)'
    <3>1. \A d \in Lods : map[d] # t BY <1>1 DEF ThreadOK, MapOK, Locked
    <3>2. Reach(t) # {} BY <1>1, <1>11 DEF ThreadOK, MapOK
    <3>3. \A l \in Reach(t) : LodOf[l] \in Lods BY <1>1, ReachFacts DEF VoxelDataAssumption
    <3>4. QED BY <1>2, <1>9, <2>1, <3>1, <3>2, <3>3 DEF MapOK
  <2>8. PlanOK(t)' BY <1>1, <1>2, <1>8, <2>1 DEF ThreadOK, PlanOK, SeenBlock
  <2>9. TouchOK(t)' BY <1>1, <1>2, <2>1 DEF ThreadOK, TouchOK, store
  <2>10. AdmitOK(t)' BY <1>1, <1>2, <1>8, <1>9, <2>1 DEF ThreadOK, AdmitOK, store
  <2>11. QED BY <2>2, <2>4, <2>6, <2>7, <2>8, <2>9, <2>10 DEF ThreadOK
<1>12. QED BY <1>1, <1>2, <1>7, <1>10, <1>11, LockingStep DEF store

\* The threads are somewhere else in their calls, and nothing else changed.
Moved(t, next) ==
    /\ pc' = [pc EXCEPT ![t] = next]
    /\ UNCHANGED <<store, locks, todo, seen, drafted, before, touched>>

\* What a thread that only moved on keeps.
LEMMA MovedFacts ==
    ASSUME Shape, NEW t \in Threads, NEW next \in PCs, Moved(t, next),
           DOMAIN plan' = Threads, \A u \in Threads : DOMAIN plan'[u] \subseteq Locations
    PROVE  /\ Shape' /\ pc'[t] = next
           /\ call(t)' = call(t) /\ Kind(t)' = Kind(t) /\ Reach(t)' = Reach(t)
           /\ \A l : SeenBlock(t, l)' = SeenBlock(t, l) /\ Base(t, l)' = Base(t, l)
<1>1. pc' \in [Threads -> PCs] /\ pc'[t] = next BY DEF Moved, Shape
<1>2. UNCHANGED <<block, rev, settings, closed, gate, region, map, todo, seen, drafted, before, touched>>
  BY DEF Moved, store, locks
<1>3. Shape' BY <1>1, <1>2 DEF Shape
<1>4. call(t)' = call(t) /\ Kind(t)' = Kind(t) BY <1>2 DEF call, Kind
<1>5. Reach(t)' = Reach(t) BY <1>2, <1>4 DEF Reach
<1>6. \A l : SeenBlock(t, l)' = SeenBlock(t, l) /\ Base(t, l)' = Base(t, l)
  BY <1>2, <1>4 DEF SeenBlock, Base
<1>7. QED BY <1>1, <1>3, <1>4, <1>5, <1>6

LEMMA ReservationFailsStep ==
    ASSUME VoxelDataAssumption, IInv, NEW t \in Threads, ReservationFails(t) PROVE IInv'
<1>1. Shape /\ ThreadOK(t) /\ pc[t] = "spatial" /\ Step(t) /\ Kind(t) = "transaction"
  BY DEF IInv, ReservationFails, Step
<1>2. Moved(t, "leave") /\ plan' = plan BY DEF ReservationFails, Move, Moved
<1>3. Shape' /\ pc'[t] = "leave" /\ Kind(t)' = Kind(t)
  BY <1>1, <1>2, MovedFacts DEF Shape, PCs
<1>4. ThreadOK(t)'
  <2>1. UNCHANGED <<rev, gate, region, map, todo, seen, touched>> BY <1>2 DEF Moved, store, locks
  <2>2. Writer(t) /\ Writer(t)' BY <1>1, <1>3 DEF Writer
  <2>3. KindOK(t)' BY <1>1, <1>3, <2>1 DEF ThreadOK, KindOK, Locked
  <2>4. GateOK(t)' /\ RegionOK(t)' BY <1>1, <1>3, <2>1, <2>2 DEF ThreadOK, GateOK, RegionOK
  <2>5. MapOK(t)' BY <1>1, <1>3, <2>1 DEF ThreadOK, MapOK, Locked
  <2>6. PlanOK(t)' /\ TouchOK(t)' /\ AdmitOK(t)'
    BY <1>1, <1>3, <2>1 DEF ThreadOK, PlanOK, TouchOK, AdmitOK
  <2>7. QED BY <2>3, <2>4, <2>5, <2>6 DEF ThreadOK
<1>5. QED BY <1>1, <1>2, <1>3, <1>4, QuietStep DEF Moved

LEMMA CopyStep ==
    ASSUME VoxelDataAssumption, IInv, NEW t \in Threads, Copy(t) PROVE IInv'
<1>1. Shape /\ ThreadOK(t) /\ pc[t] = "view" /\ Step(t) /\ Kind(t) = "read"
  BY DEF IInv, ThreadOK, KindOK, Copy, Step
<1>2. Moved(t, "leave") /\ plan' = plan BY DEF Copy, Move, Moved
<1>3. Shape' /\ pc'[t] = "leave" /\ Kind(t)' = Kind(t)
  BY <1>1, <1>2, MovedFacts DEF Shape, PCs
<1>4. ThreadOK(t)'
  <2>1. UNCHANGED <<rev, gate, region, map, todo, seen, touched>> BY <1>2 DEF Moved, store, locks
  <2>2. ~Writer(t) /\ ~Writer(t)' BY <1>1, <1>3 DEF Writer, Locked
  <2>3. KindOK(t)' BY <1>1, <1>3, <2>1 DEF ThreadOK, KindOK, Locked
  <2>4. GateOK(t)' /\ RegionOK(t)' BY <1>1, <1>3, <2>1, <2>2 DEF ThreadOK, GateOK, RegionOK
  <2>5. MapOK(t)' BY <1>1, <1>3, <2>1 DEF ThreadOK, MapOK, Locked
  <2>6. PlanOK(t)' /\ TouchOK(t)' /\ AdmitOK(t)'
    BY <1>1, <1>3, <2>1 DEF ThreadOK, PlanOK, TouchOK, AdmitOK
  <2>7. QED BY <2>3, <2>4, <2>5, <2>6 DEF ThreadOK
<1>5. QED BY <1>1, <1>2, <1>3, <1>4, QuietStep DEF Moved

\* The writers that hold every map they need go on to write, or give up.
LEMMA HeldStep ==
    ASSUME VoxelDataAssumption, IInv, NEW t \in Threads, Step(t),
           pc[t] \in {"check", "write"}, NEW next \in {"write", "unlock"}, Moved(t, next),
           DOMAIN plan' = Threads, \A u \in Threads : DOMAIN plan'[u] \subseteq Locations,
           PlanOK(t)', AdmitOK(t)', TouchOK(t)', pc[t] = "write" => next = "unlock"
    PROVE  IInv'
<1>1. Shape /\ ThreadOK(t) BY DEF IInv
<1>2. next \in PCs BY DEF PCs
<1>3. Shape' /\ pc'[t] = next /\ Kind(t)' = Kind(t) /\ Reach(t)' = Reach(t)
  BY <1>1, <1>2, MovedFacts
<1>4. UNCHANGED <<gate, region, map, todo, seen>> BY DEF Moved, locks
<1>5. Writer(t) /\ Writer(t)' BY <1>3 DEF Writer, Locked
<1>6. KindOK(t)' BY <1>1, <1>3, <1>4 DEF ThreadOK, KindOK, Locked
<1>7. GateOK(t)' /\ RegionOK(t)' BY <1>1, <1>4, <1>5 DEF ThreadOK, GateOK, RegionOK
<1>8. MapOK(t)' BY <1>1, <1>3, <1>4 DEF ThreadOK, MapOK, Locked
<1>9. ThreadOK(t)' BY <1>6, <1>7, <1>8 DEF ThreadOK
<1>10. UNCHANGED <<store, locks, before, touched>> BY DEF Moved
<1>11. QED BY <1>3, <1>9, <1>10, QuietStep

LEMMA CheckStep ==
    ASSUME VoxelDataAssumption, IInv, NEW t \in Threads, Check(t) PROVE IInv'
<1>1. /\ Shape /\ ThreadOK(t) /\ pc[t] = "check" /\ todo[t] # <<>> /\ Step(t) /\ Valid(t)
      /\ Kind(t) \in Drafting \cup Direct /\ ThreadOK(t) /\ "write" \in PCs
  BY DEF IInv, Check, Step, ThreadOK, KindOK, Locked, PCs
<1>2. Moved(t, "write") BY DEF Check, Move, Moved
<1>3. call(t).locs \subseteq Locations BY <1>1, CallFacts
<1>4. /\ DOMAIN plan' = Threads /\ \A u \in Threads \ {t} : plan'[u] = plan[u]
      /\ Kind(t) \in Drafting => plan'[t] = plan[t]
      /\ \A l \in DOMAIN plan'[t] :
            /\ l \in Reach(t) /\ l \in Locations /\ Fits(plan'[t][l], Base(t, l))
            /\ Kind(t) \in Drafting => seen[t][l].rev = rev[l]
  <2>1. CASE Kind(t) \in Drafting /\ UNCHANGED plan
    <3>1. ASSUME NEW l \in DOMAIN plan[t]
          PROVE  /\ l \in Reach(t) /\ l \in Locations /\ Fits(plan[t][l], Base(t, l))
                 /\ seen[t][l].rev = rev[l]
      <4>1. l \in DOMAIN seen[t] /\ Fits(plan[t][l], SeenBlock(t, l)) /\ plan[t][l].op # "unview"
        BY <1>1, <2>1, <3>1 DEF ThreadOK, PlanOK
      <4>2. seen[t][l].rev = rev[l] /\ (Resident(SeenBlock(t, l)) <=> Resident(block[l]))
        <5>1. l \in Compared(t) BY <2>1, <4>1 DEF Compared
        <5>2. Resident(SeenBlock(t, l)) = Resident(block[l]) BY <1>1, <5>1 DEF Valid
        <5>3. QED BY <1>1, <5>1, <5>2 DEF Valid
      <4>3. Fits(plan[t][l], block[l]) BY <4>1, <4>2 DEF Fits
      <4>4. QED BY <1>1, <2>1, <3>1, <4>1, <4>2, <4>3 DEF Reach, Base, Shape
    <3>2. QED BY <1>1, <2>1, <3>1 DEF Shape
  <2>2. CASE /\ Kind(t) \in Direct
             /\ Kind(t) = "unview" => \A l \in call(t).locs : ViewersSuffice(l)
             /\ \E p \in Unconditional(t) : plan' = [plan EXCEPT ![t] = p]
    <3>1. PICK p \in Unconditional(t) : plan' = [plan EXCEPT ![t] = p] BY <2>2
    <3>2. Kind(t) \notin Drafting BY <2>2 DEF Drafting, Direct
    <3>3. ASSUME NEW l \in DOMAIN p PROVE l \in call(t).locs /\ Fits(p[l], block[l])
      <4>1. \A x \in Ops : Op(x).op = x /\ Op(x).viewers \in Nat BY DEF Op
      <4>2. CASE Kind(t) = "view"
        <5>1. p = [k \in {k \in call(t).locs : Resident(block[k])} |-> Op("view")]
          BY <3>1, <4>2 DEF Unconditional
        <5>2. QED BY <3>3, <4>1, <5>1 DEF Fits, Ops
      <4>3. CASE Kind(t) = "unview"
        <5>1. PICK save \in BOOLEAN :
                 p = [k \in {k \in call(t).locs : Resident(block[k])} |->
                        IF block[k].viewers = 1 /\ (block[k].modified => save)
                        THEN Op("Remove") ELSE Op("unview")]
          BY <3>1, <4>3 DEF Unconditional
        <5>2. l \in call(t).locs /\ Resident(block[l]) /\ block[l].viewers > 0
          BY <2>2, <3>3, <4>3, <5>1 DEF ViewersSuffice
        <5>3. p[l] = Op("Remove") \/ p[l] = Op("unview") BY <3>3, <5>1
        <5>4. QED BY <4>1, <5>2, <5>3 DEF Fits, Ops, OnResident
      <4>4. CASE Kind(t) = "insert"
        <5>1. p = [k \in call(t).locs \ {k \in call(t).locs : Resident(block[k])} |-> Op("insert")]
          BY <3>1, <4>4 DEF Unconditional
        <5>2. QED BY <3>3, <4>1, <5>1 DEF Fits, Ops, OnResident
      <4>5. CASE Kind(t) = "replace"
        <5>1. p = [k \in call(t).locs |-> Op("replace")] BY <3>1, <4>5 DEF Unconditional
        <5>2. QED BY <3>3, <4>1, <5>1 DEF Fits, Ops, OnResident
      <4>6. QED BY <2>2, <4>2, <4>3, <4>4, <4>5 DEF Direct
    <3>4. plan'[t] = p /\ DOMAIN plan' = Threads BY <1>1, <3>1 DEF Shape
    <3>5. \A u \in Threads \ {t} : plan'[u] = plan[u] BY <1>1, <3>1 DEF Shape
    <3>6. Kind(t) # "lods" BY <3>2 DEF Drafting
    <3>7. \A l \in DOMAIN p : l \in Reach(t) /\ Base(t, l) = block[l]
      BY <3>2, <3>3, <3>6 DEF Reach, Base
    <3>8. QED BY <1>3, <3>2, <3>3, <3>4, <3>5, <3>7
  <2>3. QED BY <2>1, <2>2 DEF Check
<1>5. DOMAIN plan'[t] \subseteq Locations BY <1>4
<1>6. \A u \in Threads : DOMAIN plan'[u] \subseteq Locations
  BY <1>1, <1>4, <1>5 DEF Shape
<1>7. /\ pc'[t] = "write" /\ Kind(t)' = Kind(t) /\ Reach(t)' = Reach(t) /\ call(t)' = call(t)
      /\ \A l : Base(t, l)' = Base(t, l)
  BY <1>1, <1>2, <1>4, <1>6, MovedFacts
<1>8. UNCHANGED <<rev, seen, touched, settings, closed, drafted>> BY <1>2 DEF Moved, store, locks
<1>9. PlanOK(t)' BY <1>4, <1>7, <1>8 DEF PlanOK
<1>10. AdmitOK(t)'
  <2>1. Kind(t) \in Drafting => Exempt(t)' = Exempt(t) BY <1>4, <1>7 DEF Exempt
  <2>2. Kind(t) \notin Drafting => ~Exempt(t) BY DEF Exempt, Drafting
  <2>3. Kind(t) # "read" BY <1>1 DEF Drafting, Direct
  <2>4. (Kind(t) \in Generating => settings = drafted[t]) /\ (closed => Exempt(t))
    BY <1>1, <2>3 DEF ThreadOK, AdmitOK
  <2>5. QED BY <1>7, <1>8, <2>1, <2>2, <2>4 DEF AdmitOK
<1>11. TouchOK(t)'
  <2>1. touched[t] \cap DOMAIN seen[t] = {}
    <3>1. SUFFICES ASSUME NEW l \in touched[t] \cap DOMAIN seen[t] PROVE FALSE OBVIOUS
    <3>2. seen[t][l].rev \in Nat /\ seen[t][l].rev < rev[l]
      BY <1>1 DEF ThreadOK, TouchOK, Shape, Snap
    <3>3. Kind(t) \in Drafting BY <1>1 DEF ThreadOK, KindOK
    <3>4. seen[t][l].rev = rev[l] BY <1>1, <3>3 DEF Valid, Compared
    <3>5. QED BY <3>2, <3>4
  <2>2. QED BY <1>1, <1>8, <2>1 DEF ThreadOK, TouchOK
<1>12. QED BY <1>1, <1>2, <1>4, <1>6, <1>9, <1>10, <1>11, HeldStep

LEMMA CheckFailsStep ==
    ASSUME VoxelDataAssumption, IInv, NEW t \in Threads, CheckFails(t) \/ Written(t) PROVE IInv'
<1>1. Shape /\ ThreadOK(t) /\ pc[t] \in {"check", "write"} /\ Step(t) /\ "unlock" \in PCs
  BY DEF IInv, CheckFails, Written, Step, PCs
<1>2. Moved(t, "unlock") /\ plan' = plan BY DEF CheckFails, Written, Move, Moved
<1>3. DOMAIN plan' = Threads /\ \A u \in Threads : DOMAIN plan'[u] \subseteq Locations
  BY <1>1, <1>2 DEF Shape
<1>4. pc'[t] = "unlock" BY <1>1, <1>2, <1>3, MovedFacts
<1>5. UNCHANGED <<rev, seen, touched>> BY <1>2 DEF Moved, store
<1>6. PlanOK(t)' /\ AdmitOK(t)' /\ TouchOK(t)'
  BY <1>1, <1>4, <1>5 DEF ThreadOK, PlanOK, AdmitOK, TouchOK
<1>7. QED BY <1>1, <1>2, <1>3, <1>6, HeldStep

LEMMA TakeMapStep ==
    ASSUME VoxelDataAssumption, IInv, NEW t \in Threads, TakeMap(t) PROVE IInv'
<1>1. Shape /\ ThreadOK(t) /\ KindOK(t) /\ pc[t] = "map" /\ Step(t) /\ Writer(t) /\ None \notin Threads
  BY DEF IInv, ThreadOK, TakeMap, Step, Writer, Locked, VoxelDataAssumption
<1> DEFINE d == NextMap(t)
<1>2. Reach(t) \subseteq Locations /\ \A l \in Reach(t) : LodOf[l] \in Lods
  BY <1>1, ReachFacts DEF VoxelDataAssumption
<1>3. d \in Lods /\ map[d] = None
  <2> DEFINE missing == {e \in LodsOf(Reach(t)) : map[e] # t}
  <2>1. missing \in SUBSET Lods BY <1>2 DEF LodsOf
  <2>2. missing # {} BY <1>1 DEF ThreadOK, MapOK, LodsOf
  <2>3. Least(missing) \in missing BY <1>1, <2>1, <2>2, ReachFacts
  <2>4. d = Least(missing) BY DEF NextMap
  <2>5. QED BY <2>1, <2>3, <2>4 DEF TakeMap
<1>4. LodsOf(Reach(t)) \ {e \in Lods : map[e] = t} = {d} => \A l \in Reach(t) : LodOf[l] = d \/ map[LodOf[l]] = t
  BY <1>2 DEF LodsOf
<1>5. LodsOf(Reach(t)) \ {e \in Lods : map[e] = t} # {d} => \E l \in Reach(t) : LodOf[l] # d /\ map[LodOf[l]] # t
  <2>1. SUFFICES ASSUME \A l \in Reach(t) : LodOf[l] = d \/ map[LodOf[l]] = t
                 PROVE  LodsOf(Reach(t)) \ {e \in Lods : map[e] = t} = {d}
    OBVIOUS
  <2>2. PICK l \in Reach(t) : map[LodOf[l]] # t BY <1>1 DEF ThreadOK, MapOK
  <2>3. d \in LodsOf(Reach(t)) /\ map[d] # t BY <1>1, <1>3, <2>1, <2>2 DEF LodsOf
  <2>4. QED BY <1>2, <1>3, <2>1, <2>3 DEF LodsOf
<1>6. /\ map' = [map EXCEPT ![d] = t]
      /\ pc' = [pc EXCEPT ![t] = IF LodsOf(Reach(t)) \ {e \in Lods : map[e] = t} = {d} THEN "check" ELSE "map"]
      /\ UNCHANGED <<store, gate, region, todo, seen, drafted, plan, before, touched>>
  BY DEF TakeMap, Move, NextPhase, Phases
<1> HIDE DEF d
<1>7. /\ map'[d] = t /\ \A e \in Lods \ {d} : map'[e] = map[e]
      /\ map' \in [Lods -> Threads \cup {None}]
  BY <1>1, <1>3, <1>6 DEF Shape
<1>8. /\ pc'[t] = IF LodsOf(Reach(t)) \ {e \in Lods : map[e] = t} = {d} THEN "check" ELSE "map"
      /\ pc' \in [Threads -> PCs]
  BY <1>1, <1>6 DEF Shape, PCs
<1>9. Shape' BY <1>1, <1>6, <1>7, <1>8 DEF Shape, store
<1>10. call(t)' = call(t) /\ Kind(t)' = Kind(t) BY <1>6 DEF call, Kind
<1>11. Reach(t)' = Reach(t) /\ (Exempt(t)' <=> Exempt(t)) BY <1>6, <1>10 DEF Reach, Exempt
<1>12. pc'[t] \in {"map", "check"} BY <1>8
<1>13. Writer(t)' BY <1>12 DEF Writer, Locked
<1>14. MapOK(t)'
  <2>1. CASE pc'[t] = "check"
    <3>1. \A l \in Reach(t) : map'[LodOf[l]] = t BY <1>2, <1>4, <1>7, <1>8, <2>1
    <3>2. QED BY <1>11, <2>1, <3>1 DEF MapOK, Locked
  <2>2. CASE pc'[t] = "map"
    <3>1. \E l \in Reach(t) : map'[LodOf[l]] # t BY <1>2, <1>5, <1>7, <1>8, <2>2
    <3>2. QED BY <1>11, <2>2, <3>1 DEF MapOK, Locked
  <2>3. QED BY <1>12, <2>1, <2>2
<1>15. KindOK(t)' BY <1>1, <1>6, <1>10, <1>12 DEF KindOK, Locked
<1>16. GateOK(t)' /\ RegionOK(t)' BY <1>1, <1>6, <1>13 DEF ThreadOK, GateOK, RegionOK
<1>17. PlanOK(t)' BY <1>1, <1>6, <1>10, <1>12 DEF ThreadOK, PlanOK, SeenBlock
<1>18. TouchOK(t)' BY <1>1, <1>6, <1>12 DEF ThreadOK, TouchOK, store
<1>19. AdmitOK(t)' BY <1>1, <1>6, <1>10, <1>11, <1>12 DEF ThreadOK, AdmitOK, store
<1>20. ThreadOK(t)' BY <1>14, <1>15, <1>16, <1>17, <1>18, <1>19 DEF ThreadOK
<1>21. \A u \in Threads \ {t} : \A e \in Lods : map'[e] = u <=> map[e] = u
  BY <1>1, <1>3, <1>7
<1>22. QED BY <1>1, <1>6, <1>9, <1>20, <1>21, LockingStep DEF store

LEMMA LeaveStep ==
    ASSUME VoxelDataAssumption, IInv, NEW t \in Threads, Leave(t) PROVE IInv'
<1>1. Shape /\ ThreadOK(t) /\ todo[t] # <<>> /\ pc[t] = "leave" /\ Step(t) /\ None \notin Threads
  BY DEF IInv, ThreadOK, KindOK, Leave, Step, VoxelDataAssumption
<1>2. /\ UNCHANGED <<store, map, before>> /\ Return(t)
      /\ gate' = IF gate = t THEN None ELSE gate
      /\ region'[t] = NoRegion
      /\ region' \in [Threads -> [mode : {"none", "read", "write"}, locs : SUBSET Locations]]
  BY <1>1 DEF Leave, NoRegion, Shape
<1>3. gate' # t /\ \A d \in Lods : map'[d] # t
  BY <1>1, <1>2 DEF ThreadOK, MapOK, Locked
<1>4. Shape' BY <1>1, <1>2, ReturnShape DEF Shape, store
<1>5. ThreadOK(t)' BY <1>1, <1>2, <1>3, Returned DEF NoRegion
<1>6. \A u \in Threads \ {t} : touched'[u] = touched[u] BY <1>1, <1>2 DEF Return, Shape
<1>7. \A u \in Threads \ {t} : gate' = u <=> gate = u BY <1>1, <1>2
<1>8. QED BY <1>1, <1>2, <1>4, <1>5, <1>6, <1>7, LockingStep DEF store

LEMMA WriteBlockStep ==
    ASSUME VoxelDataAssumption, IInv, NEW t \in Threads, WriteBlock(t) PROVE IInv'
<1>1. /\ Shape /\ StoreOK /\ ThreadOK(t) /\ pc[t] = "write" /\ todo[t] # <<>> /\ Step(t)
      /\ DOMAIN plan[t] # {} /\ Writer(t) /\ gate = t /\ LodOf \in [Locations -> Lods]
  BY DEF IInv, ThreadOK, KindOK, GateOK, WriteBlock, Step, Writer, Locked, VoxelDataAssumption
<1>2. PICK l \in Locations : l = Least(DOMAIN plan[t]) /\ l \in DOMAIN plan[t]
  <2>1. DOMAIN plan[t] \subseteq Locations BY <1>1 DEF Shape
  <2>2. DOMAIN plan[t] \subseteq Nat BY <2>1 DEF VoxelDataAssumption
  <2>3. QED BY <1>1, <2>1, <2>2, LeastIn
<1> DEFINE n == NextRevision(t, l)
<1>3. /\ block' = [block EXCEPT ![l] = After(plan[t][l], Base(t, l), n)]
      /\ rev' = [rev EXCEPT ![l] = n]
      /\ plan' = [plan EXCEPT ![t] = [k \in DOMAIN plan[t] \ {l} |-> plan[t][k]]]
      /\ touched' = [u \in Threads |->
            IF u # t /\ l \in DOMAIN seen[u] THEN touched[u] \cup {l} ELSE touched[u]]
      /\ UNCHANGED <<settings, closed, gate, region, map, todo, pc, seen, drafted, before>>
  BY <1>2 DEF WriteBlock, locks
<1>4. l \in Reach(t) /\ Fits(plan[t][l], Base(t, l)) /\ (Kind(t) \in Drafting => seen[t][l].rev = rev[l])
  BY <1>1, <1>2 DEF ThreadOK, PlanOK
<1>5. rev[l] \in Nat /\ n = rev[l] + 1
  BY <1>1, <1>2, <1>4 DEF NextRevision, Shape
<1>6. After(plan[t][l], Base(t, l), n) \in Blocks
  <2>1. Base(t, l) \in Blocks
    <3>1. CASE Kind(t) = "lods"
      <4>1. l \in DOMAIN seen[t] BY <1>4, <3>1 DEF Reach, Drafting
      <4>2. seen[t][l] \in Snap BY <1>1, <4>1 DEF Shape
      <4>3. QED BY <3>1, <4>2 DEF Base, SeenBlock, Snap
    <3>2. CASE Kind(t) # "lods" BY <1>1, <1>2, <3>2 DEF Base, Shape
    <3>3. QED BY <3>1, <3>2
  <2>2. n \in Nat BY <1>5
  <2>3. QED BY <1>4, <2>1, <2>2, FitsMakesBlock
<1> HIDE DEF n
<1>7. /\ rev'[l] = rev[l] + 1 /\ \A k \in Locations \ {l} : rev'[k] = rev[k] /\ block'[k] = block[k]
      /\ DOMAIN plan'[t] = DOMAIN plan[t] \ {l} /\ \A k \in DOMAIN plan'[t] : plan'[t][k] = plan[t][k]
      /\ \A u \in Threads \ {t} : plan'[u] = plan[u]
      /\ touched'[t] = touched[t]
  BY <1>1, <1>2, <1>3, <1>5 DEF Shape
<1>8. Shape'
  <2>1. block' \in [Locations -> Blocks] /\ rev' \in [Locations -> Nat]
    BY <1>1, <1>2, <1>3, <1>5, <1>6 DEF Shape
  <2>2. touched' \in [Threads -> SUBSET Locations] BY <1>1, <1>2, <1>3 DEF Shape
  <2>3. DOMAIN plan' = Threads /\ \A u \in Threads : DOMAIN plan'[u] \subseteq Locations
    <3>1. DOMAIN plan' = Threads BY <1>1, <1>3 DEF Shape
    <3>2. \A u \in Threads : DOMAIN plan'[u] \subseteq DOMAIN plan[u] BY <1>7
    <3>3. QED BY <1>1, <3>1, <3>2 DEF Shape
  <2>4. QED BY <1>1, <1>3, <2>1, <2>2, <2>3 DEF Shape
<1>9. \A k \in Locations : rev[k] \in Nat /\ rev'[k] \in Nat /\ rev[k] <= rev'[k]
  <2>1. \A k \in Locations : rev[k] \in Nat /\ rev'[k] \in Nat BY <1>1, <1>8 DEF Shape
  <2>2. QED BY <1>7, <2>1
<1>10. call(t)' = call(t) /\ Kind(t)' = Kind(t) BY <1>3 DEF call, Kind
<1>11. Reach(t)' = Reach(t) BY <1>3, <1>10 DEF Reach
<1>12. Writer(t)' BY <1>1, <1>3 DEF Writer, Locked
<1>13. ThreadOK(t)'
  <2>1. KindOK(t)' BY <1>1, <1>3, <1>10 DEF ThreadOK, KindOK
  <2>2. GateOK(t)' /\ RegionOK(t)' BY <1>1, <1>3, <1>12 DEF ThreadOK, GateOK, RegionOK
  <2>3. MapOK(t)' BY <1>1, <1>3, <1>11 DEF ThreadOK, MapOK
  <2>4. PlanOK(t)'
    <3>1. ASSUME NEW k \in DOMAIN plan'[t]
          PROVE  /\ k \in Reach(t) /\ Fits(plan'[t][k], Base(t, k)')
                 /\ Kind(t) \in Drafting => seen[t][k].rev = rev'[k]
      <4>1. k \in DOMAIN plan[t] /\ k # l /\ k \in Locations /\ plan'[t][k] = plan[t][k]
        BY <1>1, <1>7, <3>1 DEF Shape
      <4>2. Base(t, k)' = Base(t, k)
        BY <1>3, <1>7, <1>10, <4>1 DEF Base, SeenBlock
      <4>3. QED BY <1>1, <1>7, <4>1, <4>2 DEF ThreadOK, PlanOK
    <3>2. QED BY <1>1, <1>3, <1>10, <1>11, <3>1 DEF PlanOK
  <2>5. TouchOK(t)'
    <3>1. ASSUME NEW k \in DOMAIN seen[t]
          PROVE  seen[t][k].rev <= rev'[k] /\ (k \in touched[t] => seen[t][k].rev < rev'[k])
      <4>1. k \in Locations /\ seen[t][k].rev \in Nat BY <1>1 DEF Shape, Snap
      <4>2. seen[t][k].rev <= rev[k] /\ (k \in touched[t] => seen[t][k].rev < rev[k])
        BY <1>1 DEF ThreadOK, TouchOK
      <4>3. rev[k] \in Nat /\ rev'[k] \in Nat /\ rev[k] <= rev'[k] BY <1>9, <4>1
      <4>4. QED BY <4>1, <4>2, <4>3
    <3>2. QED BY <1>1, <1>3, <1>7, <3>1 DEF ThreadOK, TouchOK
  <2>6. AdmitOK(t)'
    <3>1. Exempt(t) => Exempt(t)' BY <1>1, <1>10 DEF Exempt
    <3>2. QED BY <1>1, <1>3, <1>10, <3>1 DEF ThreadOK, AdmitOK
  <2>7. QED BY <2>1, <2>2, <2>3, <2>4, <2>5, <2>6 DEF ThreadOK
<1>14. ASSUME NEW u \in Threads, u # t PROVE ThreadOK(u)'
  <2>1. Same(u) /\ ThreadOK(u) BY <1>1, <1>14, OtherThread DEF IInv
  <2>2. ~Writer(u) BY <1>1, <1>14, <2>1 DEF ThreadOK, GateOK
  <2>3. pc[u] # "write" BY <2>2 DEF Writer, Locked
  <2>4. touched'[u] = IF l \in DOMAIN seen[u] THEN touched[u] \cup {l} ELSE touched[u]
    BY <1>3, <1>14
  <2>5. \A k \in touched'[u] \cap DOMAIN seen[u] : k \in touched[u] \/ rev[k] < rev'[k]
    BY <1>5, <1>7, <2>4
  <2>6. (gate' = u <=> gate = u) /\ \A d \in Lods : map'[d] = u <=> map[d] = u BY <1>3
  <2>7. touched[u] \subseteq touched'[u] BY <2>4
  <2>8. QED BY <1>1, <1>8, <1>9, <2>1, <2>2, <2>3, <2>5, <2>6, <2>7, Undisturbed
<1>15. StoreOK'
  <2>1. ASSUME NEW k \in Locations PROVE Clean(k)' \/ Dirty(k)'
    <3>1. CASE k = l
      <4>1. ~Dirty(l) BY <1>1, <1>2 DEF Dirty
      <4>2. Clean(l) BY <1>1, <1>2, <4>1 DEF StoreOK
      <4>3. Dirty(l)' BY <1>1, <1>3, <1>4, <1>7, <1>11, <4>2 DEF Clean, Dirty
      <4>4. QED BY <3>1, <4>3
    <3>2. CASE k # l
      <4>1. rev'[k] = rev[k] /\ block'[k] = block[k] BY <1>7, <3>2
      <4>2. Clean(k) => Clean(k)' BY <1>3, <4>1 DEF Clean
      <4>3. Dirty(k) => Dirty(k)' BY <1>1, <1>3, <1>7, <1>11, <4>1 DEF Dirty
      <4>4. QED BY <1>1, <4>2, <4>3 DEF StoreOK
    <3>3. QED BY <3>1, <3>2
  <2>2. QED BY <1>1, <1>3, <2>1 DEF StoreOK
<1>16. QED BY <1>8, <1>13, <1>14, <1>15 DEF IInv

LEMMA UnlockStep ==
    ASSUME VoxelDataAssumption, IInv, NEW t \in Threads, Unlock(t) PROVE IInv'
<1>1. /\ Shape /\ StoreOK /\ ThreadOK(t) /\ pc[t] = "unlock" /\ todo[t] # <<>> /\ Step(t)
      /\ Writer(t) /\ gate = t /\ LodOf \in [Locations -> Lods] /\ None \notin Threads
  BY DEF IInv, ThreadOK, KindOK, GateOK, Unlock, Step, Writer, Locked, VoxelDataAssumption
<1>2. /\ map' = [d \in Lods |-> IF map[d] = t THEN None ELSE map[d]]
      /\ before' = [rev |-> rev, block |-> block]
      /\ pc' = [pc EXCEPT ![t] = "leave"]
      /\ UNCHANGED <<store, gate, region, todo, seen, drafted, plan, touched>>
  BY DEF Unlock, Move
<1>3. pc'[t] = "leave" /\ pc' \in [Threads -> PCs] BY <1>1, <1>2 DEF Shape, PCs
<1>4. map' \in [Lods -> Threads \cup {None}] /\ \A d \in Lods : map'[d] # t
  BY <1>1, <1>2 DEF Shape
<1>5. Shape' BY <1>1, <1>2, <1>3, <1>4 DEF Shape, store
<1>6. call(t)' = call(t) /\ Kind(t)' = Kind(t) BY <1>2 DEF call, Kind
<1>7. Kind(t) \in Drafting \cup Direct /\ Kind(t) # "read"
  BY <1>1 DEF ThreadOK, KindOK, Locked, Drafting, Direct
<1>8. ThreadOK(t)'
  <2>1. Writer(t)' BY <1>3, <1>6, <1>7 DEF Writer
  <2>2. KindOK(t)' BY <1>1, <1>2, <1>3, <1>6, <1>7 DEF ThreadOK, KindOK, Locked
  <2>3. GateOK(t)' /\ RegionOK(t)' BY <1>1, <1>2, <2>1 DEF ThreadOK, GateOK, RegionOK
  <2>4. MapOK(t)' BY <1>3, <1>4 DEF MapOK
  <2>5. PlanOK(t)' /\ TouchOK(t)' /\ AdmitOK(t)'
    BY <1>1, <1>2, <1>3 DEF ThreadOK, PlanOK, TouchOK, AdmitOK, store
  <2>6. QED BY <2>2, <2>3, <2>4, <2>5 DEF ThreadOK
<1>9. ASSUME NEW u \in Threads, u # t PROVE ThreadOK(u)'
  <2>1. Same(u) /\ ThreadOK(u) BY <1>1, <1>9, OtherThread DEF IInv
  <2>2. UNCHANGED <<block, rev, settings, closed, gate, touched>> BY <1>2 DEF store
  <2>3. \A d \in Lods : map'[d] = u <=> map[d] = u BY <1>1, <1>2, <1>9
  <2>4. ASSUME NEW l \in Locations PROVE rev[l] <= rev'[l]
    <3>1. rev'[l] = rev[l] /\ rev[l] \in Nat BY <1>1, <2>2 DEF Shape
    <3>2. QED BY <3>1
  <2>5. touched'[u] = touched[u] BY <2>2
  <2>6. QED BY <1>1, <1>5, <2>1, <2>2, <2>3, <2>4, <2>5, Undisturbed
<1>10. StoreOK'
  BY <1>1, <1>2 DEF StoreOK, Clean, Shape, store
<1>11. QED BY <1>5, <1>8, <1>9, <1>10 DEF IInv

\* No step leads out of the invariant.
LEMMA StepHolds == VoxelDataAssumption /\ IInv /\ [Next]_vars => IInv'
<1> SUFFICES ASSUME VoxelDataAssumption, IInv, [Next]_vars PROVE IInv'
  OBVIOUS
<1>1. ASSUME NEW t \in Threads, Step(t) PROVE IInv'
  <2>1. CASE PrepareFails(t)
    BY <1>1, <2>1, QuietReturn DEF PrepareFails
  <2>2. CASE Refuse(t)
    BY <1>1, <2>2, QuietReturn DEF Refuse
  <2>3. QED
    BY <1>1, <2>1, <2>2, BeginStep, PeekStep, PrepareStep, AdministerStep, EnterStep, TakeRegionStep,
       ReservationFailsStep, TakeMapStep, CopyStep, CheckStep, CheckFailsStep, WriteBlockStep,
       UnlockStep, LeaveStep DEF Step
<1>2. CASE UNCHANGED vars
  <2>1. UNCHANGED <<block, rev, settings, closed, gate, region, map, todo, pc, seen, drafted, plan, before, touched>>
    BY <1>2 DEF vars, store, locks, threads
  <2>2. Shape' BY <2>1 DEF IInv, Shape
  <2>3. \A t \in Threads : call(t)' = call(t) /\ Kind(t)' = Kind(t) /\ Reach(t)' = Reach(t)
    BY <2>1 DEF call, Kind, Reach
  <2>4. StoreOK' BY <2>1 DEF IInv, StoreOK, Clean, Dirty, Reach, Kind, call
  <2>5. ASSUME NEW t \in Threads PROVE ThreadOK(t)'
    <3>1. ThreadOK(t) BY DEF IInv
    <3>2. KindOK(t)' /\ GateOK(t)' /\ RegionOK(t)' /\ TouchOK(t)'
      BY <2>1, <2>3, <3>1 DEF ThreadOK, KindOK, GateOK, RegionOK, TouchOK, Writer
    <3>3. MapOK(t)' BY <2>1, <2>3, <3>1 DEF ThreadOK, MapOK
    <3>4. PlanOK(t)' BY <2>1, <2>3, <3>1 DEF ThreadOK, PlanOK, SeenBlock, Base
    <3>5. AdmitOK(t)' BY <2>1, <2>3, <3>1 DEF ThreadOK, AdmitOK, Exempt
    <3>6. QED BY <3>2, <3>3, <3>4, <3>5 DEF ThreadOK
  <2>6. QED BY <2>2, <2>4, <2>5 DEF IInv
<1>3. QED BY <1>1, <1>2 DEF Next

\* Nothing is read, locked or written at the start.
LEMMA InitHolds == VoxelDataAssumption /\ Init => IInv
<1> SUFFICES ASSUME VoxelDataAssumption, Init PROVE IInv
  OBVIOUS
<1>1. /\ gate = None /\ None \notin Threads
      /\ \A t \in Threads : /\ pc[t] = "idle" /\ region[t] = NoRegion /\ touched[t] = {}
                            /\ seen[t] = Nothing /\ plan[t] = Nothing
      /\ \A d \in Lods : map[d] = None
  BY DEF Init, VoxelDataAssumption
<1>2. \A t \in Threads : DOMAIN seen[t] = {} /\ DOMAIN plan[t] = {} BY <1>1 DEF Nothing
<1>3. block \in [Locations -> Blocks] /\ rev \in [Locations -> Nat]
  <2>1. New(0, TRUE, TRUE, 0) \in Blocks /\ None \in Blocks BY DEF New, Blocks
  <2>2. QED BY <2>1 DEF Init
<1>4. todo \in [Threads -> Seq(Call)]
  BY DEF Init, VoxelDataAssumption
<1>5. pc \in [Threads -> PCs] BY DEF Init, PCs
<1>6. region \in [Threads -> [mode : {"none", "read", "write"}, locs : SUBSET Locations]]
  BY DEF Init, NoRegion
<1>7. /\ settings \in Nat /\ closed \in BOOLEAN /\ map \in [Lods -> Threads \cup {None}]
      /\ drafted \in [Threads -> Nat] /\ touched \in [Threads -> SUBSET Locations]
      /\ DOMAIN seen = Threads /\ DOMAIN plan = Threads
  BY DEF Init
<1>8. Shape BY <1>1, <1>2, <1>3, <1>4, <1>5, <1>6, <1>7 DEF Shape
<1>9. StoreOK BY <1>3 DEF Init, StoreOK, Clean
<1>10. ASSUME NEW t \in Threads PROVE ThreadOK(t)
  <2>1. pc[t] = "idle" /\ DOMAIN seen[t] = {} /\ touched[t] = {} /\ gate # t
        /\ region[t].mode # "write" /\ region[t].locs = {} /\ \A d \in Lods : map[d] # t
    BY <1>1, <1>2 DEF NoRegion
  <2>2. QED BY <2>1 DEF ThreadOK, KindOK, GateOK, MapOK, RegionOK, PlanOK, TouchOK, AdmitOK, Writer, Locked
<1>11. QED BY <1>8, <1>9, <1>10 DEF IInv

-----------------------------------------------------------------------------
(* The theorems *)

\* The inductive invariant: every thread holds the locks its place in a call
\* needs, its snapshots are older than what was written since, and only the
\* holder of the gate has written what is not given back.
THEOREM Invariance == Spec => []IInv
<1>1. Init => IInv BY InitHolds, VoxelDataAssumption
<1>2. IInv /\ [Next]_vars => IInv' BY StepHolds, VoxelDataAssumption
<1>3. QED BY <1>1, <1>2, PTL DEF Spec

\* The store, its locks and the calls keep their types: an operation is never
\* applied to a block it makes no sense on.
THEOREM StoreTypes == Spec => []TypeOK
<1>1. IInv => TypeOK
  <2> SUFFICES ASSUME IInv PROVE TypeOK OBVIOUS
  <2>1. Shape /\ \A t \in Threads : pc[t] # "idle" => todo[t] # <<>> BY DEF IInv, ThreadOK, KindOK
  <2>2. QED BY <2>1 DEF Shape, TypeOK
<1>2. QED BY <1>1, Invariance, PTL

\* A mutation that begins to write (validate_then_commit and its callers) has
\* everything it read still before it, the settings included.
THEOREM CommitsOnWhatWasSeen == Spec => []CommitsMatchPreviews
<1>1. IInv => CommitsMatchPreviews
  <2> SUFFICES ASSUME IInv, NEW t \in Threads, pc[t] = "write"
               PROVE  /\ touched[t] \cap DOMAIN seen[t] = {}
                      /\ Kind(t) \in Generating => settings = drafted[t]
    BY DEF CommitsMatchPreviews
  <2>1. ThreadOK(t) BY DEF IInv
  <2>2. Kind(t) \in Generating => Kind(t) # "read" BY DEF Generating
  <2>3. QED BY <2>1, <2>2 DEF ThreadOK, TouchOK, AdmitOK
<1>2. QED BY <1>1, Invariance, PTL

\* After mutation admission closed only a transaction with the permit of the
\* shutdown writes: a writer admitted before had finished.
THEOREM ClosedStoreIsQuiet == Spec => ClosedMeansQuiet
<1>1. IInv /\ [Next]_vars =>
        [closed /\ rev' # rev => \E t \in Threads : pc[t] = "write" /\ call(t).permit]_vars
  <2> SUFFICES ASSUME IInv, Next, closed, rev' # rev
               PROVE  \E t \in Threads : pc[t] = "write" /\ call(t).permit
    BY DEF vars, store
  <2>1. PICK t \in Threads : Step(t) BY DEF Next
  <2>2. WriteBlock(t)
    BY <2>1 DEF Step, Begin, Peek, Prepare, PrepareFails, Refuse, Administer, Enter, TakeRegion,
       ReservationFails, TakeMap, Copy, Check, CheckFails, Written, Unlock, Leave, store
  <2>3. pc[t] = "write" /\ DOMAIN plan[t] # {} BY <2>2 DEF WriteBlock
  <2>4. Kind(t) # "read" BY <2>3 DEF IInv, ThreadOK, KindOK, Locked, Drafting, Direct
  <2>5. Exempt(t) BY <2>3, <2>4 DEF IInv, ThreadOK, AdmitOK
  <2>6. QED BY <2>3, <2>5 DEF Exempt
<1>2. QED BY <1>1, Invariance, PTL DEF Spec, ClosedMeansQuiet

\* No threads wait for each other in a circle, whatever LODs and locations their
\* calls are about: the holder of the gate waits for readers alone, and those
\* for maps that only a later phase of it holds.
THEOREM NoCircularWait == Spec => []NoDeadlock
<1>1. IInv => NoDeadlock
  <2> SUFFICES ASSUME IInv, NEW S \in SUBSET Threads, S # {}
               PROVE  \E t \in S : BlockedBy(t) \cap S = {}
    BY DEF NoDeadlock
  <2>1. Shape /\ None \notin Threads BY VoxelDataAssumption DEF IInv, VoxelDataAssumption
  <2>2. \A t \in Threads : KindOK(t) /\ GateOK(t) /\ MapOK(t) /\ RegionOK(t) BY DEF IInv, ThreadOK
  <2>3. \A d \in Lods : map[d] # None => map[d] = gate /\ pc[gate] \in Locked
    <3>1. SUFFICES ASSUME NEW d \in Lods, map[d] # None PROVE map[d] = gate /\ pc[gate] \in Locked
      OBVIOUS
    <3>2. map[d] \in Threads BY <2>1, <3>1 DEF Shape
    <3>3. pc[map[d]] \in Locked BY <2>2, <3>2 DEF MapOK
    <3>4. QED BY <2>2, <3>2, <3>3 DEF GateOK, Writer
  <2>4. ASSUME NEW t \in Threads, pc[t] \in {"draft", "view"} PROVE BlockedBy(t) \subseteq {gate}
    <3>1. BlockedBy(t) = {map[LodOf[l]] : l \in call(t).locs} \ {None} BY <2>4 DEF BlockedBy
    <3>2. call(t).locs \subseteq Locations BY <2>1, <2>2, <2>4, CallFacts DEF KindOK
    <3>3. \A l \in call(t).locs : LodOf[l] \in Lods BY <3>2, VoxelDataAssumption DEF VoxelDataAssumption
    <3>4. QED BY <2>3, <3>1, <3>3
  <2>5. CASE gate \in S
    <3>1. gate \in Threads /\ Writer(gate) BY <2>2, <2>5 DEF GateOK
    <3>2. CASE pc[gate] = "spatial"
      <4>1. CASE BlockedBy(gate) \cap S = {} BY <2>5, <4>1
      <4>2. CASE BlockedBy(gate) \cap S # {}
        <5>1. PICK u \in S : u \in Threads /\ Excludes(u, gate, NextRegion(gate))
          BY <3>2, <4>2 DEF BlockedBy
        <5>2. u # gate /\ region[u].locs # {} BY <5>1 DEF Excludes
        <5>3. ~Writer(u) BY <2>2, <5>1, <5>2 DEF GateOK
        <5>4. pc[u] \in {"view", "leave"} BY <2>2, <5>1, <5>2, <5>3 DEF RegionOK
        <5>5. BlockedBy(u) = {}
          <6>1. CASE pc[u] = "leave" BY <6>1 DEF BlockedBy
          <6>2. CASE pc[u] = "view"
            <7>1. \A d \in Lods : map[d] = None BY <2>3, <3>2 DEF Locked
            <7>2. BlockedBy(u) = {map[LodOf[l]] : l \in call(u).locs} \ {None} BY <6>2 DEF BlockedBy
            <7>3. call(u).locs \subseteq Locations BY <2>1, <2>2, <5>1, <6>2, CallFacts DEF KindOK
            <7>4. \A l \in call(u).locs : LodOf[l] \in Lods
              BY <7>3, VoxelDataAssumption DEF VoxelDataAssumption
            <7>5. QED BY <7>1, <7>2, <7>4
          <6>3. QED BY <5>4, <6>1, <6>2
        <5>6. QED BY <5>1, <5>5
      <4>3. QED BY <4>1, <4>2
    <3>3. CASE pc[gate] = "map"
      <4>1. BlockedBy(gate) = {map[NextMap(gate)]} \ {None} BY <3>3 DEF BlockedBy
      <4>2. NextMap(gate) \in Lods /\ map[NextMap(gate)] # gate
        <5>1. Reach(gate) \subseteq Locations /\ \A T \in SUBSET Lods : T # {} => Least(T) \in T
          BY <2>1, <2>2, <3>1, <3>3, ReachFacts, VoxelDataAssumption
        <5>2. \A l \in Reach(gate) : LodOf[l] \in Lods BY <5>1, VoxelDataAssumption DEF VoxelDataAssumption
        <5> DEFINE missing == {d \in LodsOf(Reach(gate)) : map[d] # gate}
        <5>3. missing \in SUBSET Lods BY <5>2 DEF LodsOf
        <5>4. missing # {} BY <2>2, <3>1, <3>3 DEF MapOK, LodsOf
        <5>5. NextMap(gate) = Least(missing) BY DEF NextMap
        <5> HIDE DEF missing
        <5>6. NextMap(gate) \in missing BY <5>1, <5>3, <5>4, <5>5
        <5>7. QED BY <5>3, <5>6 DEF missing
      <4>3. BlockedBy(gate) = {} BY <2>3, <4>1, <4>2
      <4>4. QED BY <2>5, <4>3
    <3>4. CASE pc[gate] \notin {"spatial", "map"}
      <4>1. pc[gate] \in {"check", "write", "unlock", "leave"} BY <3>1, <3>4 DEF Writer, Locked
      <4>2. BlockedBy(gate) = {} BY <4>1 DEF BlockedBy
      <4>3. QED BY <2>5, <4>2
    <3>5. QED BY <3>2, <3>3, <3>4
  <2>6. CASE gate \notin S
    <3>1. PICK t \in S : t \in Threads OBVIOUS
    <3>2. ~Writer(t) BY <2>2, <2>6, <3>1 DEF GateOK
    <3>3. CASE pc[t] = "spatial"
      <4>1. Kind(t) = "read" BY <3>2, <3>3 DEF Writer
      <4>2. ASSUME NEW u \in Threads, Excludes(u, t, NextRegion(t)) PROVE u = gate
        <5>1. region[u].mode = "write" BY <4>1, <4>2 DEF Excludes
        <5>2. QED BY <2>2, <4>2, <5>1 DEF RegionOK, GateOK
      <4>3. BlockedBy(t) = {u \in Threads : Excludes(u, t, NextRegion(t))} BY <3>3 DEF BlockedBy
      <4>4. QED BY <2>6, <4>2, <4>3
    <3>4. CASE pc[t] = "gate"
      <4>1. BlockedBy(t) = {gate} \ {None} BY <3>4 DEF BlockedBy
      <4>2. QED BY <2>6, <4>1
    <3>5. CASE pc[t] \in {"draft", "view"} BY <2>4, <2>6, <3>1, <3>5
    <3>6. CASE pc[t] \notin {"spatial", "gate", "draft", "view"}
      <4>1. pc[t] # "map" BY <3>2 DEF Writer, Locked
      <4>2. BlockedBy(t) = {} BY <3>6, <4>1 DEF BlockedBy
      <4>3. QED BY <4>2
    <3>7. QED BY <3>3, <3>4, <3>5, <3>6
  <2>7. QED BY <2>5, <2>6
<1>2. QED BY <1>1, Invariance, PTL

\* To its readers a store of any size changes by whole mutations.
THEOREM ReadersSeeAnAtomicStore == Spec => ImplementsAtomicStore
<1> DEFINE shownRev == Visible(rev, before.rev)
           shownBlock == Visible(block, before.block)
<1>1. IInv => shownRev = before.rev /\ shownBlock = before.block
  <2> SUFFICES ASSUME IInv PROVE shownRev = before.rev /\ shownBlock = before.block OBVIOUS
  <2>1. StoreOK /\ LodOf \in [Locations -> Lods] /\ None \notin Threads
    BY VoxelDataAssumption DEF IInv, VoxelDataAssumption
  <2>2. ASSUME NEW l \in Locations, map[LodOf[l]] = None PROVE Clean(l)
    <3>1. ~Dirty(l)
      <4>1. SUFFICES ASSUME Dirty(l) PROVE FALSE OBVIOUS
      <4>2. gate \in Threads /\ pc[gate] \in {"write", "unlock"} /\ l \in Reach(gate) BY <4>1 DEF Dirty
      <4>3. map[LodOf[l]] = gate BY <4>2 DEF IInv, ThreadOK, MapOK
      <4>4. QED BY <2>1, <2>2, <4>2, <4>3
    <3>2. QED BY <2>1, <3>1 DEF StoreOK
  <2>3. before.rev \in [Locations -> Nat] /\ before.block \in [Locations -> Blocks] BY <2>1 DEF StoreOK
  <2>4. QED BY <2>2, <2>3 DEF Visible, Clean
<1>2. Init => Store!Init
  <2> SUFFICES ASSUME Init PROVE Store!Init OBVIOUS
  <2>1. IInv BY InitHolds, VoxelDataAssumption
  <2>2. before.rev = [l \in Locations |-> 0] BY DEF Init
  <2>3. before.block \in [Locations -> Blocks] BY <2>1 DEF IInv, StoreOK
  <2>4. QED BY <1>1, <2>1, <2>2, <2>3 DEF Store!Init
<1>3. IInv /\ IInv' /\ [Next]_vars => [Store!Next]_<<shownRev, shownBlock>>
  <2> SUFFICES ASSUME IInv, IInv', [Next]_vars PROVE [Store!Next]_<<shownRev, shownBlock>> OBVIOUS
  <2>1. /\ shownRev = before.rev /\ shownBlock = before.block
        /\ shownRev' = before'.rev /\ shownBlock' = before'.block
    <3>1. shownRev = before.rev /\ shownBlock = before.block BY <1>1
    <3>2. (IInv => shownRev = before.rev /\ shownBlock = before.block)' BY <1>1, PTL
    <3>3. QED BY <3>1, <3>2
  <2>2. CASE UNCHANGED before BY <2>1, <2>2
  <2>3. CASE before' # before
    <3>1. before' = [rev |-> rev, block |-> block] /\ UNCHANGED <<rev, block>>
      <4>1. Next BY <2>3 DEF vars
      <4>2. PICK t \in Threads : Step(t) BY <4>1 DEF Next
      <4>3. Unlock(t)
        BY <2>3, <4>2 DEF Step, Begin, Peek, Prepare, PrepareFails, Refuse, Administer, Enter, TakeRegion,
           ReservationFails, TakeMap, Copy, Check, CheckFails, WriteBlock, Written, Leave
      <4>4. QED BY <4>3 DEF Unlock, store
    <3>2. before'.rev = rev /\ before'.block = block BY <3>1
    <3>3. StoreOK /\ Shape BY DEF IInv
    <3> DEFINE S == {l \in Locations : rev[l] # before.rev[l]}
    <3>4. before'.rev = [l \in Locations |-> IF l \in S THEN before.rev[l] + 1 ELSE before.rev[l]]
      <4>1. rev \in [Locations -> Nat] BY <3>3 DEF Shape
      <4>2. \A l \in Locations : rev[l] = IF l \in S THEN before.rev[l] + 1 ELSE before.rev[l]
        BY <3>3 DEF StoreOK, Clean, Dirty
      <4>3. QED BY <3>2, <4>1, <4>2
    <3>5. \A l \in Locations \ S : before'.block[l] = before.block[l]
      BY <3>2, <3>3 DEF StoreOK, Clean, Dirty
    <3>6. before'.block \in [Locations -> Blocks] BY <3>2, <3>3 DEF Shape
    <3>7. CASE S = {}
      <4>1. before'.rev = before.rev /\ before'.block = before.block
        BY <3>3, <3>4, <3>5, <3>6, <3>7 DEF StoreOK
      <4>2. QED BY <2>1, <4>1
    <3>8. CASE S # {}
      <4>1. S \subseteq Locations OBVIOUS
      <4> HIDE DEF S
      <4>2. Store!Commit(S) BY <2>1, <3>4, <3>5, <3>6 DEF Store!Commit
      <4>3. S \in (SUBSET Locations) \ {{}} BY <3>8, <4>1
      <4>4. QED BY <4>2, <4>3 DEF Store!Next
    <3>9. QED BY <3>7, <3>8
  <2>4. QED BY <2>2, <2>3
<1>4. QED BY <1>2, <1>3, Invariance, PTL DEF Spec, ImplementsAtomicStore, Store!Spec
=============================================================================
