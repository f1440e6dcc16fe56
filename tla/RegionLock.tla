----------------------------- MODULE RegionLock -----------------------------
(***************************************************************************)
(* What SpatialLock3D promises: threads hold regions for reading or        *)
(* writing, two holders conflict when their regions overlap and one of     *)
(* them writes, and no two conflicting holders exist at once.  A write     *)
(* batch is held as a whole or not at all.                                 *)
(***************************************************************************)
CONSTANTS Threads, Requests, Conflict(_, _), NoRequest

VARIABLE holds   \* holds[t]: what thread t holds

Init == holds = [t \in Threads |-> NoRequest]

Acquire(t, r) ==
    /\ holds[t] = NoRequest
    /\ \A u \in Threads : holds[u] # NoRequest => ~Conflict(holds[u], r)
    /\ holds' = [holds EXCEPT ![t] = r]

Release(t) ==
    /\ holds[t] # NoRequest
    /\ holds' = [holds EXCEPT ![t] = NoRequest]

Next == \E t \in Threads : Release(t) \/ \E r \in Requests : Acquire(t, r)

Spec == Init /\ [][Next]_holds
=============================================================================
