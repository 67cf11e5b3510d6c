-------------------------- MODULE MCWorkerRedeploy --------------------------
(***************************************************************************)
(* TLC instances of WorkerRedeploy.                                        *)
(***************************************************************************)
EXTENDS WorkerRedeploy

=============================================================================
