---------------------------- MODULE ExecutionStore ----------------------------
(***************************************************************************)
(* The ExecutionJob table and the statements PrismaExecutionStore runs on  *)
(* it (src/execution/executionStore.ts).  Every statement is one action    *)
(* with arbitrary arguments, so that whatever the callers do (the          *)
(* coordinator, the HTTP routes, the work queue, several processes at      *)
(* once) is a behaviour of this module, and what holds here holds for all  *)
(* of them.  ExecutionCoordinator composes these actions into the calls    *)
(* the program really makes.                                               *)
(*                                                                         *)
(* Time.  Rows carry leaseUntil and callers compare it with a Date.now()   *)
(* they captured before the statement runs.  The model keeps the distance  *)
(* between leaseUntil and the present, `left', and each statement takes    *)
(* the age of the timestamp its caller captured.  Distances below          *)
(* -(MaxDelay + 1) cannot be told apart by any caller, so they are one     *)
(* value and time needs no bound.                                          *)
(*                                                                         *)
(* attempt and leaseGeneration are only ever incremented, together, by     *)
(* the claim statement: `gen' stands for both.                             *)
(***************************************************************************)
EXTENDS Integers

CONSTANTS
  Run,            \* AgentRun ids
  Key,            \* idempotency keys callers may supply
  Worker,         \* worker ids (one per process)
  None,           \* SQL NULL / an omitted argument
  MaxJobs,        \* bound: rows in the table
  MaxGeneration,  \* bound: claims of one job
  LeaseDuration,  \* leaseDurationMs in ticks
  MaxDelay        \* bound: age, in ticks, of a timestamp when its statement runs

ASSUME NoneAssumption == None \notin Worker \cup Int \cup Run \cup Key
ASSUME BoundsAssumption ==
  /\ MaxJobs \in Nat
  /\ MaxGeneration \in Nat
  /\ LeaseDuration \in Nat
  /\ MaxDelay \in Nat

JobId == 1..MaxJobs
Generation == 0..MaxGeneration
Age == 0..MaxDelay
Oldest == -(MaxDelay + 1)

Status == {"ABSENT", "QUEUED", "RUNNING", "WAITING", "COMPLETED", "FAILED"}
Active == {"QUEUED", "RUNNING", "WAITING"}
Terminal == {"COMPLETED", "FAILED"}

Row == [status : Status,
        run    : Run \cup {None},
        key    : Key \cup {None},
        worker : Worker \cup {None},
        left   : (Oldest..LeaseDuration) \cup {None},
        gen    : Generation]

AbsentRow == [status |-> "ABSENT", run |-> None, key |-> None,
              worker |-> None, left |-> None, gen |-> 0]

VARIABLES
  job,     \* the table: job[j] is a Row, AbsentRow before it is created
  grantee  \* history: grantee[j][g], the worker whose claim made g the generation

storeVars == <<job, grantee>>

StoreInit ==
  /\ job = [j \in JobId |-> AbsentRow]
  /\ grantee = [j \in JobId |-> [g \in Generation |-> None]]

-----------------------------------------------------------------------------
(* What the WHERE clauses ask. *)

\* leaseUntil < now, for a timestamp captured `age' ticks ago; NULL is never less.
Expired(j, age) == job[j].left # None /\ job[j].left < -age

\* Mutant: a running job may be claimed whether or not its lease expired.
ClaimableUnexpired(j, g, age) ==
  job[j].gen = g /\ job[j].status \in {"QUEUED", "WAITING", "RUNNING"}

\* Mutant: a failed job may be claimed for another try.
ClaimableFailed(j, g, age) ==
  /\ job[j].gen = g
  /\ \/ job[j].status \in {"QUEUED", "WAITING", "FAILED"}
     \/ job[j].status = "RUNNING" /\ Expired(j, age)

\* The claim's WHERE: the generation that was read, and a claimable status.
Claimable(j, g, age) ==
  /\ job[j].gen = g
  /\ \/ job[j].status \in {"QUEUED", "WAITING"}
     \/ job[j].status = "RUNNING" /\ Expired(j, age)

\* The WHERE of renewLease, markCompleted and markWaiting.
Fenced(j, w, g) ==
  /\ job[j].status = "RUNNING"
  /\ job[j].worker = w
  /\ job[j].gen = g

\* The WHERE of markFailed: worker and generation only if supplied, no status.
FailMatches(j, w, g) ==
  /\ job[j].status # "ABSENT"
  /\ w # None => job[j].worker = w
  /\ g # None => job[j].gen = g

\* acquireNextJobAtomically's candidates.
Candidates(age) ==
  {j \in JobId : \/ job[j].status = "QUEUED"
                 \/ job[j].status = "RUNNING" /\ Expired(j, age)}

\* recoverExpiredLeases.
ExpiredJobs(age) == {j \in JobId : job[j].status = "RUNNING" /\ Expired(j, age)}

ActiveJobsOf(r) == {j \in JobId : job[j].run = r /\ job[j].status \in Active}

\* The row the next create uses; rows are created in id order (createdAt, id).
Fresh(j) ==
  /\ job[j].status = "ABSENT"
  /\ \A i \in JobId : i < j => job[i].status # "ABSENT"

\* idempotencyKey is UNIQUE: a create with a taken key raises P2002.
KeyTaken(k) == k # None /\ \E i \in JobId : job[i].key = k

-----------------------------------------------------------------------------
(* The statements. *)

Create(j, r, k) ==
  /\ Fresh(j)
  /\ ~KeyTaken(k)
  /\ job' = [job EXCEPT ![j] = [@ EXCEPT !.status = "QUEUED", !.run = r, !.key = k]]
  /\ UNCHANGED grantee

\* Mutant: the claim does not raise the generation.
ClaimLeaseSameGeneration(j, w, g, age) ==
  /\ g < MaxGeneration
  /\ Claimable(j, g, age)
  /\ job' = [job EXCEPT ![j] = [@ EXCEPT !.status = "RUNNING", !.worker = w,
                                        !.left = LeaseDuration - age]]
  /\ grantee' = [grantee EXCEPT ![j] = [@ EXCEPT ![g + 1] = w]]

ClaimLease(j, w, g, age) ==
  /\ g < MaxGeneration
  /\ Claimable(j, g, age)
  /\ job' = [job EXCEPT ![j] = [@ EXCEPT !.status = "RUNNING",
                                        !.worker = w,
                                        !.left = LeaseDuration - age,
                                        !.gen = job[j].gen + 1]]
  /\ grantee' = [grantee EXCEPT ![j] = [@ EXCEPT ![g + 1] = w]]

\* Mutant: a renewal adds to the lease instead of restarting it.
RenewLeaseAccumulates(j, w, g, age) ==
  /\ Fenced(j, w, g)
  /\ job' = [job EXCEPT ![j] = [@ EXCEPT !.left = job[j].left + LeaseDuration]]
  /\ UNCHANGED grantee

\* renewLease does not ask whether the lease has expired.
RenewLease(j, w, g, age) ==
  /\ Fenced(j, w, g)
  /\ job' = [job EXCEPT ![j] = [@ EXCEPT !.left = LeaseDuration - age]]
  /\ UNCHANGED grantee

\* workerId stays on a completed row.
MarkCompleted(j, w, g) ==
  /\ Fenced(j, w, g)
  /\ job' = [job EXCEPT ![j] = [@ EXCEPT !.status = "COMPLETED", !.left = None]]
  /\ UNCHANGED grantee

\* Mutant: the paused job keeps its lease.
MarkWaitingKeepsLease(j, w, g) ==
  /\ Fenced(j, w, g)
  /\ job' = [job EXCEPT ![j] = [@ EXCEPT !.status = "WAITING", !.worker = None]]
  /\ UNCHANGED grantee

MarkWaiting(j, w, g) ==
  /\ Fenced(j, w, g)
  /\ job' = [job EXCEPT ![j] = [@ EXCEPT !.status = "WAITING", !.worker = None,
                                        !.left = None]]
  /\ UNCHANGED grantee

MarkFailed(j, w, g) ==
  /\ FailMatches(j, w, g)
  /\ job' = [job EXCEPT ![j] = [@ EXCEPT !.status = "FAILED", !.left = None]]
  /\ UNCHANGED grantee

\* A tick of the clock seen by leases: leaseUntil comes one tick closer.
Aged(x) == IF x = None \/ x = Oldest THEN x ELSE x - 1

AgeLeases == job' = [j \in JobId |-> [job[j] EXCEPT !.left = Aged(@)]]

Tick == AgeLeases /\ UNCHANGED grantee

StoreNext ==
  \/ Tick
  \/ \E j \in JobId :
       \/ \E r \in Run, k \in Key \cup {None} : Create(j, r, k)
       \/ \E w \in Worker, g \in Generation, age \in Age :
            ClaimLease(j, w, g, age) \/ RenewLease(j, w, g, age)
       \/ \E w \in Worker, g \in Generation :
            MarkCompleted(j, w, g) \/ MarkWaiting(j, w, g)
       \/ \E w \in Worker \cup {None}, g \in Generation \cup {None} :
            MarkFailed(j, w, g)

StoreSpec == StoreInit /\ [][StoreNext]_storeVars

-----------------------------------------------------------------------------
(* Properties. *)

TypeOK ==
  /\ job \in [JobId -> Row]
  /\ grantee \in [JobId -> [Generation -> Worker \cup {None}]]

\* A running job belongs to the worker that was granted its current
\* generation and has a lease, an idle one belongs to nobody, and no
\* generation beyond the current one has been handed out: what the fencing
\* token comparison of renewLease, markCompleted and markWaiting rests on.
LeaseOwnership ==
  \A j \in JobId :
    /\ job[j].status = "RUNNING" =>
         /\ job[j].gen > 0
         /\ job[j].worker = grantee[j][job[j].gen]
         /\ job[j].worker \in Worker
         /\ job[j].left # None
    /\ job[j].status # "RUNNING" => job[j].left = None
    /\ job[j].status \in {"ABSENT", "QUEUED", "WAITING"} => job[j].worker = None
    /\ \A g \in Generation : g > job[j].gen => grantee[j][g] = None

\* A lease that has not expired is never taken over: while leaseUntil is in
\* the future no other claim can raise the generation, whatever stale
\* timestamp or generation the claimant read before its UPDATE.
LiveLeaseNotStolen ==
  [][\A j \in JobId :
       (job[j].status = "RUNNING" /\ job[j].left >= 0)
         => job'[j].gen = job[j].gen]_storeVars

\* A generation is granted to one worker, once: no claim reuses a fencing
\* token that an earlier claim was given.
GenerationGrantedOnce ==
  [][\A j \in JobId, g \in Generation :
       grantee[j][g] # None => grantee'[j][g] = grantee[j][g]]_storeVars

\* The store implements the abstract lease: generations only grow, only a
\* grant changes the holder, and a COMPLETED or FAILED job is never QUEUED,
\* RUNNING or WAITING again.
Phase(s) == CASE s = "ABSENT" -> "absent"
              [] s \in {"QUEUED", "WAITING"} -> "free"
              [] s = "RUNNING" -> "held"
              [] OTHER -> "closed"

Lease == INSTANCE FencedLease WITH
  NoWorker <- None,
  phase    <- [j \in JobId |-> Phase(job[j].status)],
  holder   <- [j \in JobId |-> IF job[j].status = "RUNNING" THEN job[j].worker ELSE None],
  gen      <- [j \in JobId |-> job[j].gen]

ImplementsFencedLease == Lease!Spec
=============================================================================
