----------------------------- MODULE SaveLedger -----------------------------
(***************************************************************************)
(* What the save journal promises: a captured revision is owed until the   *)
(* stream has made it, or a newer one, durable; what is durable never goes *)
(* back, and it is only ever a revision that was owed.                     *)
(***************************************************************************)
EXTENDS Naturals

CONSTANT Keys

VARIABLES
    owed,      \* the captured revisions that are not known to be durable
    durable    \* the durable revision

Init ==
    /\ owed = [k \in Keys |-> {}]
    /\ durable = [k \in Keys |-> 0]

\* newer revisions of some blocks are captured
Capture ==
    /\ \A k \in Keys : \/ owed'[k] = owed[k]
                       \/ \E v \in owed'[k] : /\ owed'[k] = owed[k] \cup {v}
                                              /\ \A u \in owed[k] \cup {durable[k]} : u < v
    /\ UNCHANGED durable

\* the stream makes what was written so far durable
Flush ==
    /\ \A k \in Keys : durable'[k] >= durable[k] /\ durable'[k] \in owed[k] \cup {durable[k]}
    /\ UNCHANGED owed

\* durable revisions are forgotten
Settle ==
    /\ \A k \in Keys : /\ owed'[k] \subseteq owed[k]
                       /\ \A v \in owed[k] \ owed'[k] : v <= durable[k]
    /\ UNCHANGED durable

Next == Capture \/ Flush \/ Settle

Spec == Init /\ [][Next]_<<owed, durable>>
=============================================================================
