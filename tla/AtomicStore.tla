----------------------------- MODULE AtomicStore ----------------------------
(***************************************************************************)
(* What SharedVoxelData promises whoever reads a block and its revision:   *)
(* a mutation happens at once, it advances the revision of every block it  *)
(* writes by one, of no other, and removed blocks keep theirs.             *)
(***************************************************************************)
EXTENDS Integers

CONSTANTS Locations, Blocks

VARIABLES rev, block

Init == rev = [l \in Locations |-> 0] /\ block \in [Locations -> Blocks]

Commit(S) ==
    /\ rev' = [l \in Locations |-> IF l \in S THEN rev[l] + 1 ELSE rev[l]]
    /\ block' \in [Locations -> Blocks]
    /\ \A l \in Locations \ S : block'[l] = block[l]

Next == \E S \in (SUBSET Locations) \ {{}} : Commit(S)

Spec == Init /\ [][Next]_<<rev, block>>
=============================================================================
