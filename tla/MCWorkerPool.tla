---------------------------- MODULE MCWorkerPool ----------------------------
(* Constants of WorkerPool for TLC: three tasks, counts 0, 2 and 4.        *)
EXTENDS WorkerPool

MCWorkerCounts == {0, 2, 4}
=============================================================================
