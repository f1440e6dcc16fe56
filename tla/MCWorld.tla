------------------------------- MODULE MCWorld ------------------------------
(* Instances of Replication for TLC: two blocks of LOD 0 and the block of    *)
(* LOD 1 above the first of them, three threads, and what they are given to  *)
(* do.  Every scenario lets two or three calls race that share a location,   *)
(* a LOD, the settings or the admission; the last ones let the peer, the     *)
(* network and the client act as well.                                       *)
EXTENDS Replication

CONSTANTS a, b, c

Three == {a, b, c}
Row == 1..3
RowLod == [l \in Row |-> IF l = 3 THEN 1 ELSE 0]
TwoLods == {0, 1}

\* One mesh, built from both blocks of LOD 0.
OneMesh == {1}
BothBlocks == [m \in OneMesh |-> {1, 2}]

Do(kind, locs) == [kind |-> kind, locs |-> locs, ops |-> {}, permit |-> FALSE]
Transact(locs, ops) == [Do("transaction", locs) EXCEPT !.ops = ops]
Permitted(call_) == [call_ EXCEPT !.permit = TRUE]

Nobody == [areas |-> 0, polls |-> 0, rejoins |-> 0, losses |-> 0, views |-> 0,
           demands |-> 0, edits |-> 0]

Scenario(of_a, of_b, of_c, resident, allowance) ==
    [todo |-> [t \in Three |-> CASE t = a -> of_a [] t = b -> of_b [] t = c -> of_c],
     resident |-> resident, budget |-> allowance]

\* Calls that race at one store.
Races == {
    \* a transaction of each kind of operation against an edit and against viewers
    Scenario(<<Transact({1, 2}, {"Insert", "Replace", "Remove"})>>, <<Do("edit", {1})>>, <<Do("mark", {1, 2})>>, {1}, Nobody),
    Scenario(<<Transact({1, 3}, {"SetViewersExact", "SetViewersExactAndClearModified", "ClearModified"})>>,
             <<Do("view", {1, 2})>>, <<Do("read", {1, 2})>>, {1, 3}, Nobody),
    \* a block removed and inserted again while an edit of it is prepared
    Scenario(<<Transact({1}, {"Remove"}), Transact({1}, {"Insert"})>>, <<Do("edit", {1})>>, <<>>, {1}, Nobody),
    \* propagation to the coarser LOD against an edit of its source and a reader of each LOD
    Scenario(<<Do("lods", {1, 3})>>, <<Do("edit", {1}), Do("lods", {1, 3})>>, <<Do("read", {3})>>, {1, 3}, Nobody),
    Scenario(<<Do("lods", {1, 3})>>, <<Do("set", {3})>>, <<Do("read", {1, 2})>>, {1}, Nobody),
    \* sweeps over dirty blocks
    Scenario(<<Do("mark", {1, 2})>>, <<Do("consume", {1, 2, 3})>>, <<Do("edit", {2})>>, {1, 3}, Nobody),
    \* viewers, insertions and the eviction of the last viewer's block
    Scenario(<<Do("view", {1, 2}), Do("unview", {1, 2})>>, <<Do("insert", {2}), Do("replace", {1})>>,
             <<Transact({1, 2}, {"SetViewersExact", "Remove"})>>, {1}, Nobody),
    \* the generator changes under calls that generated with the old one
    Scenario(<<Do("settings", {})>>, <<Do("set", {1})>>, <<Transact({2}, {"Insert"})>>, {}, Nobody),
    \* shutdown: the final transaction of its owner against late writers
    Scenario(<<Do("close", {}), Permitted(Transact({1}, {"Remove"}))>>,
             <<Do("edit", {1})>>, <<Transact({1}, {"Replace"})>>, {1}, Nobody),
    Scenario(<<Do("close", {}), Do("reopen", {})>>, <<Do("edit", {1}), Do("view", {1})>>, <<>>, {1}, Nobody)}

\* A server, a peer whose area moves, a bad network and a client.
Replicated == {
    Scenario(<<Do("edit", {1}), Do("edit", {1})>>, <<>>, <<>>, {1},
             [Nobody EXCEPT !.areas = 2, !.polls = 2, !.losses = 1]),
    Scenario(<<Do("edit", {1})>>, <<>>, <<>>, {1}, [Nobody EXCEPT !.areas = 3, !.polls = 2]),
    Scenario(<<Do("edit", {1})>>, <<Transact({1}, {"Remove"}), Transact({1}, {"Insert"})>>, <<>>, {1},
             [Nobody EXCEPT !.areas = 1, !.polls = 2]),
    Scenario(<<Do("lods", {1, 3})>>, <<>>, <<>>, {1},
             [Nobody EXCEPT !.areas = 1, !.polls = 2, !.rejoins = 1]),
    Scenario(<<>>, <<>>, <<>>, {1}, [Nobody EXCEPT !.areas = 1, !.polls = 1, !.views = 4])}

\* The client alone: its terrain pages and is edited, no server.
Paged == {Scenario(<<>>, <<>>, <<>>, {}, [Nobody EXCEPT !.views = 4, !.edits = 1])}

\* The client's meshes, under edits of its own and under the server's.
Meshed == {
    Scenario(<<>>, <<>>, <<>>, {}, [Nobody EXCEPT !.views = 2, !.demands = 2, !.edits = 1]),
    Scenario(<<>>, <<>>, <<>>, {}, [Nobody EXCEPT !.views = 3, !.demands = 2]),
    Scenario(<<>>, <<>>, <<>>, {1}, [Nobody EXCEPT !.areas = 1, !.polls = 1, !.views = 2, !.demands = 1])}

WorldScenarios == Races \cup Replicated \cup Paged \cup Meshed
ReplicatedScenarios == Replicated
=============================================================================
