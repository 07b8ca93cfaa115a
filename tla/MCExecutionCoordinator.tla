------------------------ MODULE MCExecutionCoordinator ------------------------
(* Model-checking instance of ExecutionCoordinator. *)
EXTENDS ExecutionCoordinator
=============================================================================
