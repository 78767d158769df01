---------------------------- MODULE MCWorkerPool ----------------------------
(* The worker pool for TLC. Descriptor numbers are model values: the code only *)
(* ever compares them, so they may be permuted in the runs without liveness.   *)
EXTENDS WorkerPool, TLC

FdSymmetry == Permutations(Fd)
=============================================================================
