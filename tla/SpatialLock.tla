----------------------------- MODULE SpatialLock ----------------------------
(***************************************************************************)
(* SpatialLock3D (thread/mod.rs): a read/write lock over 3D regions.  The  *)
(* live owners sit in a slab of slots with an index of the active ones, an *)
(* intrusive list of the free ones and a count of the locked boxes, all    *)
(* behind one mutex and one condition variable.  A guard of a single box   *)
(* finds its entry again by box and mode; the guard of a write batch keeps *)
(* the number of its slot.                                                 *)
(*                                                                         *)
(* One action is one critical section of the registry's mutex.             *)
(***************************************************************************)
EXTENDS Integers, FiniteSets, Sequences, SequencesExt

CONSTANTS
    Threads,      \* callers; a thread holds at most one guard of this lock
    Boxes,        \* the boxes that are locked
    Overlapping,  \* the pairs of boxes that intersect
    Requests,     \* what a thread may ask for
    NoRequest     \* a thread that asks for nothing, a slot that holds nothing

ASSUME BoxAssumption ==
    /\ IsFiniteSet(Threads) /\ IsFiniteSet(Boxes)
    /\ Overlapping \subseteq Boxes \X Boxes
    /\ \A a, b \in Boxes : <<a, b>> \in Overlapping => <<b, a>> \in Overlapping

ASSUME RequestAssumption ==
    /\ Requests \subseteq [mode : {"Read", "Write", "WriteBatch"}, boxes : SUBSET Boxes]
    /\ \A r \in Requests : r.mode # "WriteBatch" => \E b \in Boxes : r.boxes = {b}
    /\ NoRequest \notin Requests

VARIABLES
    slots,            \* slots[i]: an entry and its place in active_slots, or the next free slot
    active_slots,     \* the occupied slots
    first_free_slot,  \* head of the free list, 0 for none
    locked_bounds,    \* how many boxes are locked
    pc,               \* "idle", "trying", "parked" on the condition variable, "holding"
    request,          \* what the thread asks for or holds
    guard             \* the slot a write batch guard remembers

registry == <<slots, active_slots, first_free_slot, locked_bounds>>
vars == <<registry, pc, request, guard>>

-----------------------------------------------------------------------------
(* The registry *)

\* spatial_regions_can_coexist
Conflict(r, s) ==
    /\ ~(r.mode = "Read" /\ s.mode = "Read")
    /\ \E a \in r.boxes, b \in s.boxes : <<a, b>> \in Overlapping

Occupied(entry, index) == [entry |-> entry, link |-> index]
Vacant(next)           == [entry |-> NoRequest, link |-> next]

Entry(i) == slots[active_slots[i]].entry

CanAcquire_SomeBox(r) ==
    \/ r.boxes = {}
    \/ \E b \in r.boxes : \A i \in DOMAIN active_slots :
         ~Conflict([r EXCEPT !.boxes = {b}], Entry(i))
CanAcquire(r) == \A i \in DOMAIN active_slots : ~Conflict(r, Entry(i))

\* insert_reserved: the slot the new entry will use
NextSlot == IF first_free_slot = 0 THEN Len(slots) + 1 ELSE first_free_slot

Insert(r) ==
    LET new == Occupied(r, Len(active_slots) + 1) IN
    /\ slots' = IF first_free_slot = 0 THEN Append(slots, new)
                ELSE [slots EXCEPT ![first_free_slot] = new]
    /\ first_free_slot' = IF first_free_slot = 0 THEN 0 ELSE slots[first_free_slot].link
    /\ active_slots' = Append(active_slots, NextSlot)
    /\ locked_bounds' = locked_bounds + Cardinality(r.boxes)

\* Vec::swap_remove
SwapRemove(s, i) ==
    IF i = Len(s) THEN Front(s) ELSE Front([s EXCEPT ![i] = Last(s)])

\* the slot whose active index moves when the entry of index i is removed
Moved(i) == IF i < Len(active_slots) THEN {Last(active_slots)} ELSE {}

RemoveSlot(s) ==
    LET i == slots[s].link IN
    /\ slots' = [k \in DOMAIN slots |->
                   IF k = s THEN Vacant(first_free_slot)
                   ELSE IF k \in Moved(i) THEN [slots[k] EXCEPT !.link = i]
                   ELSE slots[k]]
    /\ active_slots' = SwapRemove(active_slots, i)
    /\ first_free_slot' = s
    /\ locked_bounds' = locked_bounds - Cardinality(slots[s].entry.boxes)

-----------------------------------------------------------------------------
Init ==
    /\ slots = <<>> /\ active_slots = <<>>
    /\ first_free_slot = 0 /\ locked_bounds = 0
    /\ pc = [t \in Threads |-> "idle"]
    /\ request = [t \in Threads |-> NoRequest]
    /\ guard = [t \in Threads |-> 0]

\* a thread calls lock_read, lock_write or write_prepared
Ask(t, r) ==
    /\ pc[t] = "idle"
    /\ pc' = [pc EXCEPT ![t] = "trying"]
    /\ request' = [request EXCEPT ![t] = r]
    /\ UNCHANGED <<registry, guard>>

\* the request is granted; only a batch guard keeps the slot
Grant(t, r) ==
    /\ CanAcquire(r)
    /\ Insert(r)
    /\ pc' = [pc EXCEPT ![t] = "holding"]
    /\ request' = [request EXCEPT ![t] = r]
    /\ guard' = [guard EXCEPT ![t] = IF r.mode = "WriteBatch" THEN NextSlot ELSE 0]

Acquire(t) == pc[t] = "trying" /\ Grant(t, request[t])

\* try_lock_read, try_lock_write, try_write_prepared that succeed
TryAcquire(t, r) == pc[t] = "idle" /\ Grant(t, r)

\* the condition fails: the thread waits on the condition variable
Park(t) ==
    /\ pc[t] = "trying"
    /\ ~CanAcquire(request[t])
    /\ pc' = [pc EXCEPT ![t] = "parked"]
    /\ UNCHANGED <<registry, request, guard>>

\* write_prepared_fallible: no memory for the slot, the batch is handed back
ReservationFails(t) ==
    /\ pc[t] = "trying"
    /\ request[t].mode = "WriteBatch"
    /\ CanAcquire(request[t])
    /\ pc' = [pc EXCEPT ![t] = "idle"]
    /\ request' = [request EXCEPT ![t] = NoRequest]
    /\ UNCHANGED <<registry, guard>>

\* cvar.notify_all: every parked thread tests its condition again
Notified_One(t) ==
    LET parked == {u \in Threads : pc[u] = "parked"}
        lucky  == IF parked = {} THEN {} ELSE {CHOOSE u \in parked : TRUE}
    IN [u \in Threads |-> CASE u = t -> "idle" [] u \in lucky -> "trying" [] OTHER -> pc[u]]
Notified(t) ==
    [u \in Threads |-> CASE u = t -> "idle" [] pc[u] = "parked" -> "trying" [] OTHER -> pc[u]]

\* unlock: the first active entry with the guard's box and mode
FirstMatch_ModeOnly(r) ==
    CHOOSE i \in DOMAIN active_slots :
        /\ Entry(i).mode = r.mode
        /\ \A j \in DOMAIN active_slots : Entry(j).mode = r.mode => i <= j
FirstMatch(r) ==
    CHOOSE i \in DOMAIN active_slots :
        /\ Entry(i) = r
        /\ \A j \in DOMAIN active_slots : Entry(j) = r => i <= j

\* the slot the guard of thread t gives back
Released(t) ==
    IF request[t].mode = "WriteBatch" THEN guard[t]
    ELSE active_slots[FirstMatch(request[t])]

\* a guard is dropped or released
Release(t) ==
    /\ pc[t] = "holding"
    /\ RemoveSlot(Released(t))
    /\ pc' = Notified(t)
    /\ request' = [request EXCEPT ![t] = NoRequest]
    /\ guard' = [guard EXCEPT ![t] = 0]

Next ==
    \E t \in Threads :
        \/ \E r \in Requests : Ask(t, r) \/ TryAcquire(t, r)
        \/ Acquire(t) \/ Park(t) \/ ReservationFails(t) \/ Release(t)

Spec == Init /\ [][Next]_vars

\* a thread inside a lock call runs on, and every guard is dropped at last
FairSpec == Spec /\ \A t \in Threads :
    /\ WF_vars(Acquire(t) \/ Park(t) \/ ReservationFails(t))
    /\ WF_vars(Release(t))

-----------------------------------------------------------------------------
(* Properties *)

PCs == {"idle", "trying", "parked", "holding"}

\* Type invariant of the registry and of the callers.
TypeOK ==
    /\ slots \in Seq([entry : Requests \cup {NoRequest}, link : Nat])
    /\ active_slots \in Seq(DOMAIN slots)
    /\ first_free_slot \in 0..Len(slots)
    /\ locked_bounds \in Nat
    /\ pc \in [Threads -> PCs]
    /\ request \in [Threads -> Requests \cup {NoRequest}]
    /\ guard \in [Threads -> 0..Len(slots)]

Holders == {t \in Threads : pc[t] = "holding"}

\* No two threads hold conflicting regions, whichever slot a guard gave back.
Exclusion ==
    \A t, u \in Holders : t # u => ~Conflict(request[t], request[u])

VacantSlots == {s \in DOMAIN slots : slots[s].entry = NoRequest}

\* the free list, followed n links to its end, visits every vacant slot
FreeWalk(walk, n) ==
    /\ walk[0] = first_free_slot /\ walk[n] = 0
    /\ \A k \in 1..n : walk[k - 1] # 0 /\ walk[k] = slots[walk[k - 1]].link
    /\ \A s \in VacantSlots : \E k \in 0..n : walk[k] = s

\* The slab is sound after any order of releases: active_slots and the slots'
\* indices are inverse, and the free list visits every vacant slot once.
SlabSound ==
    /\ \A i \in DOMAIN active_slots :
         Entry(i) # NoRequest /\ slots[active_slots[i]].link = i
    /\ \A s \in DOMAIN slots \ VacantSlots : \E i \in DOMAIN active_slots : active_slots[i] = s
    /\ \E walk \in [0..Cardinality(VacantSlots) -> VacantSlots \cup {0}] :
         FreeWalk(walk, Cardinality(VacantSlots))

\* the boxes that are held, each as often as it is
HeldBoxes == {h \in Holders \X Boxes : h[2] \in request[h[1]].boxes}

\* The registry holds exactly what the guards stand for: equal entries as often
\* as there are guards, each batch guard the slot of its own batch, and the
\* count of locked boxes is theirs.
GuardsMatchEntries ==
    /\ \A r \in Requests :
         Cardinality({i \in DOMAIN active_slots : Entry(i) = r})
           = Cardinality({t \in Holders : request[t] = r})
    /\ \A t \in Holders : request[t].mode = "WriteBatch" =>
         /\ slots[guard[t]].entry = request[t]
         /\ \A u \in Holders : guard[u] = guard[t] => u = t
    /\ locked_bounds = Cardinality(HeldBoxes)

\* Whatever guards are released in whatever order, the slab holds exactly what
\* they stand for and can give out every other slot again: none is lost to the
\* free list, none is freed under a guard.
SlabMatchesGuards == TypeOK /\ SlabSound /\ GuardsMatchEntries

\* A thread sleeps only while somebody holds what it waits for: no release is
\* missed, so the waiters are never all asleep beside a free region.
ParkedIsBlocked == \A t \in Threads : pc[t] = "parked" => ~CanAcquire(request[t])

Waits(t) == pc[t] \in {"trying", "parked"}

\* A caller waits for ever only if some other thread keeps taking and releasing
\* guards: the lock is not fair, but nobody is left asleep when the others stop.
OnlyStarvedByOthers ==
    \A t \in Threads :
        \/ Waits(t) ~> ~Waits(t)
        \/ \E u \in Threads \ {t} : []<>(pc[u] = "holding") /\ []<>(pc[u] # "holding")

Region == INSTANCE RegionLock WITH
    holds <- [t \in Threads |-> IF pc[t] = "holding" THEN request[t] ELSE NoRequest]

\* The slab, its free list and the condition variable implement RegionLock.
ImplementsRegionLock == Region!Spec
=============================================================================
