-------------------------- MODULE MCWorkerBarrier --------------------------
(* Small instances of WorkerBarrier for TLC.                               *)
EXTENDS WorkerBarrier, TLC

CONSTANTS w1, w2, w3

TwoWorkers   == {w1, w2}
ThreeWorkers == {w1, w2, w3}
WorkerSymmetry == Permutations(Workers)
=============================================================================
