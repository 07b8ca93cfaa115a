--------------------------- MODULE MCExecutionStore ---------------------------
(* Model-checking instance of ExecutionStore. *)
EXTENDS ExecutionStore
=============================================================================
