----------------------------- MODULE MCWorkerPool -----------------------------
(* Small instances of WorkerPool for TLC.  No symmetry: fairness is checked. *)
EXTENDS WorkerPool
=============================================================================
