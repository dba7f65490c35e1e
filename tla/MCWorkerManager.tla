-------------------------- MODULE MCWorkerManager --------------------------
(* Instances of WorkerManager for TLC. *)
EXTENDS WorkerManager

CONSTANTS w1, h1, h2, r1

=============================================================================
