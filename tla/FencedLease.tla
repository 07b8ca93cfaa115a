----------------------------- MODULE FencedLease -----------------------------
(***************************************************************************)
(* What the execution store promises about one ExecutionJob, without       *)
(* clocks, rows or queries: a job is granted to one worker at a time, each *)
(* grant carries a new, larger generation, a holder may yield the job or   *)
(* close it, and a closed job is never granted again.                      *)
(***************************************************************************)
EXTENDS Naturals

CONSTANTS
  JobId,    \* identities of ExecutionJob rows
  Worker,   \* worker processes
  NoWorker  \* nobody

VARIABLES
  phase,    \* phase[j]: "absent", "free", "held" or "closed"
  holder,   \* holder[j]: the worker j is granted to while it is held
  gen       \* gen[j]: how many times j has been granted

vars == <<phase, holder, gen>>

Init ==
  /\ phase = [j \in JobId |-> "absent"]
  /\ holder = [j \in JobId |-> NoWorker]
  /\ gen = [j \in JobId |-> 0]

Create(j) ==
  /\ phase[j] = "absent"
  /\ phase' = [phase EXCEPT ![j] = "free"]
  /\ UNCHANGED <<holder, gen>>

\* Held jobs may be granted anew: the previous holder lost its lease.
Grant(j, w) ==
  /\ phase[j] \in {"free", "held"}
  /\ phase' = [phase EXCEPT ![j] = "held"]
  /\ holder' = [holder EXCEPT ![j] = w]
  /\ gen' = [gen EXCEPT ![j] = @ + 1]

Yield(j) ==
  /\ phase[j] = "held"
  /\ phase' = [phase EXCEPT ![j] = "free"]
  /\ holder' = [holder EXCEPT ![j] = NoWorker]
  /\ UNCHANGED gen

Close(j) ==
  /\ phase[j] \in {"free", "held"}
  /\ phase' = [phase EXCEPT ![j] = "closed"]
  /\ holder' = [holder EXCEPT ![j] = NoWorker]
  /\ UNCHANGED gen

Next ==
  \E j \in JobId :
    \/ Create(j)
    \/ \E w \in Worker : Grant(j, w)
    \/ Yield(j)
    \/ Close(j)

Spec == Init /\ [][Next]_vars
=============================================================================
