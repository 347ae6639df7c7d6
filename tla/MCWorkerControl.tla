-------------------------- MODULE MCWorkerControl --------------------------
(***************************************************************************)
(* One machine: two handlers that may overlap, two cache directories.      *)
(***************************************************************************)
EXTENDS WorkerControl
=============================================================================
