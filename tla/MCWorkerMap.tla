---------------------------- MODULE MCWorkerMap ----------------------------
(* map() over the worker pool, for TLC. *)
EXTENDS WorkerMap
=============================================================================
