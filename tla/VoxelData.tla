------------------------------ MODULE VoxelData -----------------------------
(***************************************************************************)
(* SharedVoxelData (storage/voxel_data.rs): the blocks of every LOD behind *)
(* one mutation gate, a spatial lock and a map lock per LOD, and a         *)
(* revision per location that outlives its block.  A call first reads what *)
(* it needs without the gate, then takes the gate, the spatial locks and   *)
(* the maps in ascending LOD order, compares the revisions it read, writes *)
(* block after block and gives everything back.                            *)
(*                                                                         *)
(* The spatial locks are what RegionLock promises of them.  Voxel data is  *)
(* named by the revision that wrote it.  Blocks always have voxels and no  *)
(* needs_lodding flag, there is no streaming, and a revision never reaches *)
(* 2^64.                                                                   *)
(***************************************************************************)
EXTENDS Integers, Sequences, FiniteSets

CONSTANTS
    Threads, Lods, Locations,
    LodOf,      \* LodOf[l]: the LOD of location l, 0 the finest
    Scenarios,  \* bound: what the threads are given to do, see Call
    None

(***************************************************************************)
(* A call: its kind, the locations it is about, for a transaction the      *)
(* operations its caller may ask for, and whether it has the permit of     *)
(* the shutdown.  A view, unview, mark or read is about one LOD, an edit,  *)
(* set, insert or replace about one block, a lods call about a block of    *)
(* LOD 0 and its ancestors, a consume call about every location.           *)
(***************************************************************************)
Drafting   == {"transaction", "edit", "set", "lods", "mark", "consume"}
Generating == {"transaction", "edit", "set", "lods"}
Direct     == {"view", "unview", "insert", "replace"}
Kinds      == Drafting \cup Direct \cup {"settings", "close", "reopen", "read"}
Operations == {"SetViewersExact", "SetViewersExactAndClearModified", "Insert",
               "Replace", "ClearModified", "Remove"}
Call == {c \in [kind : Kinds, locs : SUBSET Locations, ops : SUBSET Operations, permit : BOOLEAN] :
           c.kind = "read" => \A k, l \in c.locs : LodOf[k] = LodOf[l]}

ASSUME VoxelDataAssumption ==
    /\ Locations \subseteq Nat /\ Lods \subseteq Nat
    /\ LodOf \in [Locations -> Lods]
    /\ None \notin Threads
    /\ \A s \in Scenarios : s.todo \in [Threads -> Seq(Call)]

VARIABLES
    block,    \* block[l]: None or what is resident
    rev,      \* key_revisions
    settings, \* settings.revision
    closed,   \* mutation_admission_closed
    gate,     \* the holder of mutation_gate
    region,   \* region[t]: what thread t holds of the spatial locks, and how
    map,      \* map[d]: the writer that holds the map of LOD d
    todo,     \* todo[t]: the calls left to thread t
    pc,       \* pc[t]: where thread t is in its call
    seen,     \* seen[t]: the snapshots it has read
    drafted,  \* drafted[t]: the settings revision it read
    plan,     \* plan[t]: the blocks to write, as operations
    before,   \* the blocks and revisions at the last release of the maps
    touched   \* touched[t]: what others wrote since thread t read it

locks   == <<gate, region, map>>
threads == <<todo, pc, seen, drafted, plan>>
store   == <<block, rev, settings, closed>>
vars    == <<store, locks, threads, before, touched>>

call(t) == Head(todo[t])

NoRegion == [mode |-> "none", locs |-> {}]
Nothing  == <<>>
OnLod(S, d) == {l \in S : LodOf[l] = d}
LodsOf(S) == {LodOf[l] : l \in S}

-----------------------------------------------------------------------------
(* Blocks *)

New(viewers, modified, edited, voxels) ==
    [viewers |-> viewers, modified |-> modified, edited |-> edited, voxels |-> voxels]

Resident(b) == b # None

Snapshot(l) == [rev |-> rev[l], block |-> block[l]]

\* The operations prepare_transaction_operation accepts on a snapshot.
Accepts(b, o) ==
    CASE o.op = "Insert" -> ~Resident(b)
      [] o.op = "SetViewersExact" -> Resident(b) /\ b.viewers # o.viewers
      [] o.op \in {"ClearModified", "SetViewersExactAndClearModified"} -> Resident(b) /\ b.modified
      [] OTHER -> Resident(b)

Viewers == 0..1

TransactionOps(c, b) ==
    {o \in [op : c.ops, viewers : Viewers] :
        Accepts(b, o) /\ (o.op \in {"Replace", "ClearModified", "Remove"} => o.viewers = 0)}

Op(name) == [op |-> name, viewers |-> 0]

\* The block that operation o leaves at l, whose next revision is n.
After(o, b, n) ==
    CASE o.op = "SetViewersExact" -> [b EXCEPT !.viewers = o.viewers]
      [] o.op = "SetViewersExactAndClearModified" -> [b EXCEPT !.viewers = o.viewers, !.modified = FALSE]
      [] o.op = "Insert" -> New(o.viewers, FALSE, TRUE, n)
      [] o.op = "Replace" -> New(b.viewers, TRUE, TRUE, n)
      [] o.op \in {"ClearModified", "consume"} -> [b EXCEPT !.modified = FALSE]
      [] o.op = "Remove" -> None
      [] o.op = "edit" -> IF Resident(b) THEN New(b.viewers, TRUE, TRUE, n) ELSE New(0, TRUE, TRUE, n)
      [] o.op = "set" -> IF Resident(b) THEN [b EXCEPT !.voxels = n] ELSE New(0, FALSE, FALSE, n)
      [] o.op = "lods" -> IF Resident(b) THEN [b EXCEPT !.modified = TRUE, !.voxels = n]
                          ELSE New(0, TRUE, FALSE, n)
      [] o.op = "source" -> b
      [] o.op = "mark" -> [b EXCEPT !.modified = TRUE, !.edited = TRUE]
      [] o.op = "view" -> [b EXCEPT !.viewers = @ + 1]
      [] o.op = "unview" -> [b EXCEPT !.viewers = @ - 1]
      [] o.op = "insert" -> New(0, FALSE, FALSE, n)
      [] o.op = "replace" -> New(0, TRUE, TRUE, n)

-----------------------------------------------------------------------------
(* Calls *)

\* A scenario gives every thread its calls and says what is resident at first.
Init ==
    /\ \E s \in Scenarios :
         /\ todo = s.todo
         /\ block = [l \in Locations |-> IF l \in s.resident THEN New(0, TRUE, TRUE, 0) ELSE None]
    /\ rev = [l \in Locations |-> 0]
    /\ settings = 0 /\ closed = FALSE
    /\ gate = None
    /\ region = [t \in Threads |-> NoRegion]
    /\ map = [d \in Lods |-> None]
    /\ pc = [t \in Threads |-> "idle"]
    /\ seen = [t \in Threads |-> Nothing]
    /\ drafted = [t \in Threads |-> 0]
    /\ plan = [t \in Threads |-> Nothing]
    /\ before = [rev |-> rev, block |-> block]
    /\ touched = [t \in Threads |-> {}]

Move(t, next) == pc' = [pc EXCEPT ![t] = next]

\* The call returns.
Return(t) ==
    /\ Move(t, "idle")
    /\ todo' = [todo EXCEPT ![t] = Tail(@)]
    /\ seen' = [seen EXCEPT ![t] = Nothing]
    /\ plan' = [plan EXCEPT ![t] = Nothing]
    /\ drafted' = [drafted EXCEPT ![t] = 0]
    /\ touched' = [touched EXCEPT ![t] = {}]

Kind(t) == call(t).kind

\* What a call locks: everything its snapshots name, an unconditional one its box.
Reach(t) == IF Kind(t) \in Drafting THEN DOMAIN seen[t] ELSE call(t).locs

Least(S) == CHOOSE x \in S : \A y \in S : x <= y

Begin(t) ==
    /\ pc[t] = "idle" /\ todo[t] # <<>>
    /\ Move(t, CASE Kind(t) \in Drafting -> "draft" [] Kind(t) = "read" -> "spatial" [] OTHER -> "gate")
    /\ drafted' = [drafted EXCEPT ![t] = IF Kind(t) \in Generating THEN settings ELSE 0]
    /\ UNCHANGED <<store, locks, todo, seen, plan, before, touched>>

-----------------------------------------------------------------------------
(* Drafts: without the gate *)

Unread(t) == call(t).locs \ DOMAIN seen[t]

\* One with_lod_map: a location, for the sweeps over dirty blocks a whole LOD.
Batch(t) ==
    LET l == Least(Unread(t)) IN
    IF Kind(t) \in {"mark", "consume"} THEN OnLod(Unread(t), LodOf[l]) ELSE {l}

Peek(t) ==
    /\ pc[t] = "draft" /\ Unread(t) # {}
    /\ \A l \in Batch(t) : map[LodOf[l]] = None
    /\ seen' = [seen EXCEPT ![t] =
                  [l \in DOMAIN seen[t] \cup Batch(t) |->
                     IF l \in Batch(t) THEN Snapshot(l) ELSE seen[t][l]]]
    /\ touched' = [touched EXCEPT ![t] = @ \ Batch(t)]
    /\ UNCHANGED <<store, locks, todo, pc, drafted, plan, before>>

Fresh(t) == \A l \in DOMAIN seen[t] : seen[t][l] = Snapshot(l)

SeenBlock(t, l) == seen[t][l].block

\* The blocks a call other than a transaction will write, and how.
Planned(t) ==
    CASE Kind(t) \in {"edit", "set"} -> [l \in call(t).locs |-> Op(Kind(t))]
      [] Kind(t) = "lods" ->
           LET source == Least(call(t).locs) IN
           IF ~Resident(SeenBlock(t, source)) THEN Nothing
           ELSE [l \in call(t).locs |-> Op(IF l = source THEN "source" ELSE "lods")]
      [] Kind(t) = "mark" ->
           [l \in {k \in call(t).locs :
                      /\ Resident(SeenBlock(t, k))
                      /\ ~(SeenBlock(t, k).modified /\ SeenBlock(t, k).edited)} |-> Op("mark")]
      [] Kind(t) = "consume" ->
           [l \in {k \in call(t).locs : Resident(SeenBlock(t, k)) /\ SeenBlock(t, k).modified} |->
              Op("consume")]

\* A transaction's caller chooses operations that its snapshots allow.
Transactions(t) ==
    UNION {[S -> UNION {TransactionOps(call(t), SeenBlock(t, l)) : l \in S}] : S \in SUBSET call(t).locs}

PrepareTransaction(t) ==
    /\ Kind(t) = "transaction"
    /\ \A l \in call(t).locs : map[LodOf[l]] = None
    /\ settings = drafted[t] /\ Fresh(t)
    /\ \E p \in Transactions(t) :
         /\ \A l \in DOMAIN p : p[l] \in TransactionOps(call(t), SeenBlock(t, l))
         /\ plan' = [plan EXCEPT ![t] = p]
    /\ UNCHANGED seen

PrepareChanges(t) ==
    /\ Kind(t) # "transaction"
    /\ plan' = [plan EXCEPT ![t] = Planned(t)]
    /\ seen' = [seen EXCEPT ![t] = [l \in DOMAIN Planned(t) |-> seen[t][l]]]

Prepare(t) ==
    /\ pc[t] = "draft" /\ Unread(t) = {}
    /\ PrepareTransaction(t) \/ PrepareChanges(t)
    /\ Move(t, "gate")
    /\ UNCHANGED <<store, locks, todo, drafted, before, touched>>

\* A conflict, or no memory: nothing was changed.
PrepareFails(t) ==
    /\ pc[t] = "draft" /\ Unread(t) = {}
    /\ Return(t)
    /\ UNCHANGED <<store, locks, before>>

-----------------------------------------------------------------------------
(* Commits: under the gate *)

\* Who may write after the store was closed: a transaction with the permit.
Exempt_AnyTransaction(t) == Kind(t) = "transaction"
Exempt(t) ==
    Kind(t) = "transaction" /\ (call(t).permit \/ DOMAIN plan[t] = {})

Admitted(t) ==
    /\ closed => Exempt(t)
    /\ Kind(t) \in Generating => settings = drafted[t]

Refuse(t) ==
    /\ pc[t] = "gate" /\ gate = None
    /\ Kind(t) \notin {"close", "reopen"}
    /\ ~Admitted(t)
    /\ Return(t)
    /\ UNCHANGED <<store, locks, before>>

\* close_mutation_admission_for_shutdown, reopen_mutation_admission, set_generator
Administer(t) ==
    /\ pc[t] = "gate" /\ gate = None
    /\ \/ Kind(t) \in {"close", "reopen"} /\ closed' = (Kind(t) = "close") /\ UNCHANGED settings
       \/ Kind(t) = "settings" /\ Admitted(t) /\ settings' = settings + 1 /\ UNCHANGED closed
    /\ Return(t)
    /\ UNCHANGED <<block, rev, locks, before>>

\* The locks, in this order; validation comes last.
Phases_MapsFirst == <<"map", "spatial", "check">>
Phases == <<"spatial", "map", "check">>
NextPhase(phase) == IF phase = Phases[1] THEN Phases[2] ELSE Phases[3]

Enter(t) ==
    /\ pc[t] = "gate" /\ gate = None
    /\ Kind(t) \in (Drafting \cup Direct)
    /\ Admitted(t)
    /\ IF Reach(t) = {} THEN Return(t) /\ UNCHANGED gate
       ELSE /\ gate' = t /\ Move(t, Phases[1])
            /\ UNCHANGED <<todo, seen, drafted, plan, touched>>
    /\ UNCHANGED <<store, region, map, before>>

\* The region of thread u keeps thread t from locking the locations S.
Excludes(u, t, S) ==
    /\ u # t /\ region[u].locs \cap S # {}
    /\ region[u].mode = "write" \/ Kind(t) # "read"

\* What the next step of a spatial or map phase locks: the lowest LOD missing.
NextLod(t) == Least(LodsOf(Reach(t) \ region[t].locs))
NextRegion(t) == OnLod(Reach(t), NextLod(t))
NextMap(t) == Least({d \in LodsOf(Reach(t)) : map[d] # t})

Mode(t) == IF Kind(t) = "read" THEN "read" ELSE "write"
AfterRegions(t) == IF Kind(t) = "read" THEN "view" ELSE NextPhase("spatial")

TakeRegion(t) ==
    /\ pc[t] = "spatial"
    /\ \A u \in Threads : ~Excludes(u, t, NextRegion(t))
    /\ LET locs == region[t].locs \cup NextRegion(t) IN
         /\ region' = [region EXCEPT ![t] = [mode |-> Mode(t), locs |-> locs]]
         /\ Move(t, IF locs = Reach(t) THEN AfterRegions(t) ELSE "spatial")
    /\ UNCHANGED <<store, gate, map, todo, seen, drafted, plan, before, touched>>

\* write_prepared_fallible: no memory, the regions taken are given back.
ReservationFails(t) ==
    /\ pc[t] = "spatial" /\ Kind(t) = "transaction"
    /\ Move(t, "leave")
    /\ UNCHANGED <<store, locks, todo, seen, drafted, plan, before, touched>>

TakeMap(t) ==
    /\ pc[t] = "map"
    /\ map[NextMap(t)] = None
    /\ map' = [map EXCEPT ![NextMap(t)] = t]
    /\ Move(t, IF LodsOf(Reach(t)) \ {d \in Lods : map[d] = t} = {NextMap(t)}
               THEN NextPhase("map") ELSE "map")
    /\ UNCHANGED <<store, gate, region, todo, seen, drafted, plan, before, touched>>

\* The snapshots whose revision, and presence, must be what it was.
Compared_Operations(t) == IF Kind(t) \in Drafting THEN DOMAIN plan[t] ELSE {}
Compared(t) == IF Kind(t) \in Drafting THEN DOMAIN seen[t] ELSE {}

Valid(t) ==
    \A l \in Compared(t) :
        /\ seen[t][l].rev = rev[l]
        /\ Resident(SeenBlock(t, l)) = Resident(block[l])

ViewersSuffice_Always(l) == TRUE
ViewersSuffice(l) == Resident(block[l]) => block[l].viewers > 0

\* The plans of an unconditional call, made under the locks.
Unconditional(t) ==
    LET resident == {l \in call(t).locs : Resident(block[l])}
        absent   == call(t).locs \ resident
    IN
    CASE Kind(t) = "view" -> {[l \in resident |-> Op("view")]}
      [] Kind(t) = "unview" ->
           {[l \in resident |->
               IF block[l].viewers = 1 /\ (block[l].modified => save) THEN Op("Remove") ELSE Op("unview")]
            : save \in BOOLEAN}
      [] Kind(t) = "insert" -> {[l \in absent |-> Op("insert")]}
      [] Kind(t) = "replace" -> {[l \in call(t).locs |-> Op("replace")]}

Check(t) ==
    /\ pc[t] = "check"
    /\ Valid(t)
    /\ \/ Kind(t) \in Drafting /\ UNCHANGED plan
       \/ /\ Kind(t) \in Direct
          /\ Kind(t) = "unview" => \A l \in call(t).locs : ViewersSuffice(l)
          /\ \E p \in Unconditional(t) : plan' = [plan EXCEPT ![t] = p]
    /\ Move(t, "write")
    /\ UNCHANGED <<store, locks, todo, seen, drafted, before, touched>>

\* A conflict, an underflow of viewers, or no memory: before the first write.
CheckFails(t) ==
    /\ pc[t] = "check"
    /\ Move(t, "unlock")
    /\ UNCHANGED <<store, locks, todo, seen, drafted, plan, before, touched>>

NextRevision_ForgottenByRemove(t, l) ==
    IF plan[t][l].op = "Remove" THEN 0
    ELSE IF Kind(t) \in Drafting THEN seen[t][l].rev + 1 ELSE rev[l] + 1
NextRevision(t, l) ==
    IF Kind(t) \in Drafting THEN seen[t][l].rev + 1 ELSE rev[l] + 1

\* The propagation to coarser LODs installs the block it drafted.
Base(t, l) == IF Kind(t) = "lods" THEN SeenBlock(t, l) ELSE block[l]

WriteBlock(t) ==
    /\ pc[t] = "write" /\ DOMAIN plan[t] # {}
    /\ LET l == Least(DOMAIN plan[t])
           n == NextRevision(t, l)
       IN /\ block' = [block EXCEPT ![l] = After(plan[t][l], Base(t, l), n)]
          /\ rev' = [rev EXCEPT ![l] = n]
          /\ plan' = [plan EXCEPT ![t] = [k \in DOMAIN plan[t] \ {l} |-> plan[t][k]]]
          /\ touched' = [u \in Threads |->
                IF u # t /\ l \in DOMAIN seen[u] THEN touched[u] \cup {l} ELSE touched[u]]
    /\ UNCHANGED <<settings, closed, locks, todo, pc, seen, drafted, before>>

Written(t) ==
    /\ pc[t] = "write" /\ DOMAIN plan[t] = {}
    /\ Move(t, "unlock")
    /\ UNCHANGED <<store, locks, todo, seen, drafted, plan, before, touched>>

\* The maps go first, then the regions, the gate last.
Unlock(t) ==
    /\ pc[t] = "unlock"
    /\ map' = [d \in Lods |-> IF map[d] = t THEN None ELSE map[d]]
    /\ before' = [rev |-> rev, block |-> block]
    /\ Move(t, "leave")
    /\ UNCHANGED <<store, gate, region, todo, seen, drafted, plan, touched>>

Leave(t) ==
    /\ pc[t] = "leave"
    /\ region' = [region EXCEPT ![t] = NoRegion]
    /\ gate' = IF gate = t THEN None ELSE gate
    /\ Return(t)
    /\ UNCHANGED <<store, map, before>>

\* A mesh task reads one LOD under a read region; the map only while it copies.
Copy(t) ==
    /\ pc[t] = "view"
    /\ \A l \in call(t).locs : map[LodOf[l]] = None
    /\ Move(t, "leave")
    /\ UNCHANGED <<store, locks, todo, seen, drafted, plan, before, touched>>

Step(t) ==
    \/ Begin(t) \/ Peek(t) \/ Prepare(t) \/ PrepareFails(t)
    \/ Refuse(t) \/ Administer(t) \/ Enter(t)
    \/ TakeRegion(t) \/ ReservationFails(t) \/ TakeMap(t) \/ Copy(t)
    \/ Check(t) \/ CheckFails(t) \/ WriteBlock(t) \/ Written(t)
    \/ Unlock(t) \/ Leave(t)

Next == \E t \in Threads : Step(t)

Spec == Init /\ [][Next]_vars

-----------------------------------------------------------------------------
(* Properties *)

PCs == {"idle", "draft", "gate", "spatial", "map", "view", "check", "write", "unlock", "leave"}
Blocks == {None} \cup [viewers : Nat, modified : BOOLEAN, edited : BOOLEAN, voxels : Nat]

\* Type invariant of the store, its locks and the calls.
TypeOK ==
    /\ block \in [Locations -> Blocks] /\ rev \in [Locations -> Nat]
    /\ settings \in Nat /\ closed \in BOOLEAN
    /\ gate \in Threads \cup {None}
    /\ region \in [Threads -> [mode : {"none", "read", "write"}, locs : SUBSET Locations]]
    /\ map \in [Lods -> Threads \cup {None}]
    /\ pc \in [Threads -> PCs]
    /\ drafted \in [Threads -> Nat]
    /\ touched \in [Threads -> SUBSET Locations]
    /\ \A t \in Threads :
         /\ DOMAIN seen[t] \subseteq Locations
         /\ DOMAIN plan[t] \subseteq Locations
         /\ pc[t] # "idle" => todo[t] # <<>>

\* A mutation that begins to write has everything it read still before it: from
\* its snapshots to its first write nobody else wrote a location it observed,
\* one it only looked at included, and no settings changed.
CommitsMatchPreviews ==
    \A t \in Threads :
        pc[t] = "write" =>
            /\ touched[t] \cap DOMAIN seen[t] = {}
            /\ Kind(t) \in Generating => settings = drafted[t]

\* What a thread can read: a map that is locked for writing shows nothing new.
Visible(current, last) ==
    [l \in Locations |-> IF map[LodOf[l]] # None THEN last[l] ELSE current[l]]

Store == INSTANCE AtomicStore WITH
    rev <- Visible(rev, before.rev), block <- Visible(block, before.block)

\* To its readers the store changes by whole mutations, each of them advancing
\* the revision of exactly the blocks it wrote by one.
ImplementsAtomicStore == Store!Spec

\* Whom thread t waits for.
BlockedBy(t) ==
    CASE pc[t] = "gate" -> {gate} \ {None}
      [] pc[t] = "spatial" -> {u \in Threads : Excludes(u, t, NextRegion(t))}
      [] pc[t] = "map" -> {map[NextMap(t)]} \ {None}
      [] pc[t] \in {"draft", "view"} -> {map[LodOf[l]] : l \in call(t).locs} \ {None}
      [] OTHER -> {}

\* Readers and writers of several LODs never wait for each other in a circle.
NoDeadlock ==
    \A S \in SUBSET Threads : S # {} => \E t \in S : BlockedBy(t) \cap S = {}

\* Once mutation admission is closed for the shutdown, blocks change only by
\* transactions that hold its permit; a writer that was admitted before the
\* close has finished by then.
ClosedMeansQuiet ==
    [][closed /\ rev' # rev => \E t \in Threads : pc[t] = "write" /\ call(t).permit]_vars

=============================================================================
