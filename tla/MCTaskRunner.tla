---------------------------- MODULE MCTaskRunner ----------------------------
(* Instances of TaskRunner for TLC: the batches of each run. *)
EXTENDS TaskRunner

CONSTANTS w1, w2, t1, t2, t3, b1, b2

TwoWorkers   == {w1, w2}
OneWorker    == {w1}
ThreeTasks   == {t1, t2, t3}
OneBatch     == {b1}
TwoBatches   == {b1, b2}

\* one batch of two tasks and one of one
PairAndOne == (b1 :> <<t1, t2>>) @@ (b2 :> <<t3>>)
AllInOne   == (b1 :> <<t1, t3, t2>>)

\* the workers differ only in their name
WorkerSymmetry == Permutations(Workers)
=============================================================================
