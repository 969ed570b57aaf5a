--------------------------- MODULE MCWorkerShutdown ---------------------------
(* Instances of WorkerShutdown for TLC. *)
EXTENDS WorkerShutdown, TLC

=============================================================================
