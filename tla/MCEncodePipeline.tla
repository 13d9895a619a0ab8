-------------------------- MODULE MCEncodePipeline --------------------------
(* Instances of EncodePipeline for TLC. *)
EXTENDS EncodePipeline, TLC

CONSTANTS w1, w2

OneWorker == {w1}
TwoWorkers == {w1, w2}
WorkerSymmetry == Permutations(TwoWorkers)
=============================================================================
