------------------------------ MODULE TaskPool ------------------------------
(***************************************************************************)
(* What the thread pool of voxel-core promises its users, without workers, *)
(* locks, permits or refreshes: every submitted task is run by one worker  *)
(* at a time, at most one serial task runs at any moment, a task reaches a *)
(* terminal state once, and the owner gets each completion back once.      *)
(* TaskRunner implements this specification.                               *)
(***************************************************************************)
CONSTANTS Tasks, Serial, Postponing

VARIABLE phase   \* phase[t]: where task t is in its life

Phases == {"absent", "pending", "running", "completed", "returned"}

In(p) == {t \in Tasks : phase[t] = p}

Move(S, p) == phase' = [t \in Tasks |-> IF t \in S THEN p ELSE phase[t]]

Init == phase = [t \in Tasks |-> "absent"]

\* a batch of new tasks is linked
Submit(S) == S \subseteq In("absent") /\ Move(S, "pending")

\* a worker takes t; the serial lane admits one task at a time
Start(t) ==
    /\ t \in In("pending")
    /\ t \in Serial => In("running") \cap Serial = {}
    /\ Move({t}, "running")

\* a task that asked to be postponed waits again
Requeue(t) == t \in In("running") \cap Postponing /\ Move({t}, "pending")

\* a running task ends
Finish(t) == t \in In("running") /\ Move({t}, "completed")

\* a refresh found waiting tasks cancelled
Discard(S) == S \subseteq In("pending") /\ Move(S, "completed")

\* the owner drains what is completed
Return(S) == S \subseteq In("completed") /\ Move(S, "returned")

Next ==
    \/ \E S \in SUBSET Tasks : Submit(S) \/ Discard(S) \/ Return(S)
    \/ \E t \in Tasks : Start(t) \/ Requeue(t) \/ Finish(t)

Spec == Init /\ [][Next]_phase
=============================================================================
