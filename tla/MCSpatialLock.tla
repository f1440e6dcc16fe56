---------------------------- MODULE MCSpatialLock ---------------------------
(* Instances of SpatialLock for TLC: three boxes in a row, the middle one    *)
(* meeting both others.                                                      *)
EXTENDS SpatialLock

CONSTANTS left, middle, right

ThreeBoxes == {left, middle, right}
Row == {<<b, b>> : b \in ThreeBoxes}
         \cup {<<left, middle>>, <<middle, left>>, <<middle, right>>, <<right, middle>>}

Ask1(m, b) == [mode |-> m, boxes |-> {b}]
Batch(S)   == [mode |-> "WriteBatch", boxes |-> S]

\* readers and writers of every box, a batch whose boxes are disjoint, one
\* whose boxes overlap each other, and an empty one
AllRequests ==
    {Ask1(m, b) : m \in {"Read", "Write"}, b \in {left, right}}
      \cup {Ask1("Read", middle), Batch({left, right}), Batch({left, middle}), Batch({})}

ThreadSymmetry == Permutations(Threads)
=============================================================================
