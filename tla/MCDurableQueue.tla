---------------------------- MODULE MCDurableQueue ----------------------------
(* Model-checking instance of DurableQueue: no job's id is the id of r1. *)
EXTENDS DurableQueue
CONSTANTS r2
Others == [j \in JobId |-> r2]

\* Bound of the run: the jobs are claimed twice in all, both times the first one
\* when a process crashes or a job is cancelled.
FewClaims ==
  /\ job[1].gen + job[2].gen <= 2
  /\ events > 0 => job[2].gen = 0
=============================================================================
