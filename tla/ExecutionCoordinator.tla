------------------------- MODULE ExecutionCoordinator -------------------------
(***************************************************************************)
(* The worker processes that share the ExecutionJob table                  *)
(* (src/execution/executionCoordinator.ts).  Each worker is one Node       *)
(* process: its maps change only between awaits, and each await of a store *)
(* statement is a point where every other call, of this worker or another, *)
(* may run.  A slot is one asynchronous call in flight; its record says    *)
(* what it is awaiting and what it has read so far.                        *)
(*                                                                         *)
(* The orchestrator and the ground-truth audit are reduced to what the     *)
(* coordinator sees of them: the status an orchestration returns, and      *)
(* whether a verified mutation of the run is in the database.              *)
(***************************************************************************)
EXTENDS ExecutionStore, FiniteSets

CONSTANTS
  Slot,         \* bound: asynchronous calls in flight in one worker
  Route,        \* entry points in use: "runSync", "runAsync", "resume", "direct"
  MaxRequests,  \* bound: calls of the entry points
  Mortal,       \* bound: the workers that may crash or shut down
  MaxAttempts,  \* maxAttempts of a job
  Concurrency,  \* concurrency of a worker
  MaxFaults     \* bound: statements that fail or answer a tick late

ASSUME CoordinatorAssumption ==
  /\ Route \subseteq {"runSync", "runAsync", "resume", "direct"}
  /\ Mortal \subseteq Worker
  /\ {MaxRequests, MaxFaults, Concurrency} \subseteq Nat
  /\ MaxAttempts \in Nat \ {0}

VARIABLES
  proc,     \* proc[p]: the call in slot p
  active,   \* active[w]: activeJobs
  token,    \* token[w][j]: activeJobGenerations
  timer,    \* timer[w][j]: generation the heartbeat timer of j renews
  beat,     \* beat[w][j]: the renewLease call in flight, if any
  polls,    \* polls[w]: processNextAvailableJobs passed its check, find not issued
  mode,     \* mode[w]: "up", "draining" (isShuttingDown), "stopped", "down"
  run,      \* run[r]: status of the AgentRun
  verified, \* verified[r]: an executed and verified mutation is on record
  requests, \* entry-point calls made so far
  faults    \* statements that failed, or whose answer stalled, so far

memory == <<active, token, timer>>
business == <<run, verified>>
counts == <<requests, faults>>
vars == <<storeVars, proc, memory, beat, polls, mode, business, counts>>

Proc == Worker \X Slot
WorkerOf(p) == p[1]
RunStatus == {"ACTIVE", "WAITING", "COMPLETED", "ESCALATED"}

\* Rows as a scan returned them.
Snapshot == [job : JobId, gen : Generation, owner : Worker \cup {None}]

DirectPc == {"direct", "directRead", "directMark"}
ClaimPc == {"claimRead", "claimUpdate", "claimReread"}
ExecutePc == {"execRead", "orchestrate", "markWaiting", "markCompleted", "markFailed"}
RecoverPc == {"recoverInspect", "recoverReconcile", "recoverComplete", "recoverFail"}
Pc == {"idle", "enqueueFind", "enqueueCreate"}
        \cup DirectPc \cup ClaimPc \cup ExecutePc \cup RecoverPc

Call == [pc    : Pc,
         why   : Route \cup {"waited", "finished", "async", "poll", "recover", None},
         run   : Run \cup {None},
         job   : JobId \cup {None},
         gen   : Generation \cup {None},
         owner : Worker \cup {None},
         age   : Age,
         todo  : SUBSET Snapshot]

Idle == [pc |-> "idle", why |-> None, run |-> None, job |-> None, gen |-> None,
         owner |-> None, age |-> 0, todo |-> {}]

NoBeat == [gen |-> None, age |-> 0]
NoTokens == [j \in JobId |-> None]

Init ==
  /\ StoreInit
  /\ proc = [p \in Proc |-> Idle]
  /\ active = [w \in Worker |-> {}]
  /\ token = [w \in Worker |-> NoTokens]
  /\ timer = [w \in Worker |-> NoTokens]
  /\ beat = [w \in Worker |-> [j \in JobId |-> NoBeat]]
  /\ polls = [w \in Worker |-> FALSE]
  /\ mode = [w \in Worker |-> "up"]
  /\ run = [r \in Run |-> "ACTIVE"]
  /\ verified = [r \in Run |-> FALSE]
  /\ requests = 0
  /\ faults = 0

\* A statement fails, or a process stalls over its answer.
Fault == faults < MaxFaults /\ faults' = faults + 1

-----------------------------------------------------------------------------
(* What a call does between two awaits. *)

Becomes(p, c) == proc' = [proc EXCEPT ![p] = c]

\* The recovery loop's next job: findMany gives no order.
ToNextStale(p, todo) ==
  IF todo = {} THEN Becomes(p, Idle)
  ELSE \E s \in todo :
         Becomes(p, [Idle EXCEPT !.pc = "recoverInspect", !.why = "recover",
                                 !.job = s.job, !.gen = s.gen, !.owner = s.owner,
                                 !.todo = todo \ {s}])

\* acquireNextJobAtomically's next candidate, in createdAt, id order.
ToNextCandidate(p, todo) ==
  IF todo = {} THEN Becomes(p, Idle)
  ELSE \E s \in todo :
         /\ \A t \in todo : s.job <= t.job
         /\ Becomes(p, [Idle EXCEPT !.pc = "claimRead", !.why = "poll", !.job = s.job,
                                    !.gen = s.gen, !.todo = todo \ {s}])

\* executeJobLocally is done; only the recovery loop awaits it for more.
Return(p, c) ==
  IF c.why = "recover" THEN ToNextStale(p, c.todo) ELSE Becomes(p, Idle)

\* processNextAvailableJobs is called: its capacity check is synchronous.
CallPoll(w) ==
  polls' = [polls EXCEPT ![w] =
              @ \/ (mode[w] = "up" /\ Cardinality(active'[w]) < Concurrency)]

\* The lease is held: activeJobs and the heartbeat of j start.
Start(p, c, act, tok, g) ==
  LET w == WorkerOf(p)
  IN  /\ active' = [active EXCEPT ![w] = act \cup {c.job}]
      /\ token' = [token EXCEPT ![w] = tok]
      /\ timer' = [timer EXCEPT ![w] = [@ EXCEPT ![c.job] = g]]
      /\ Becomes(p, [c EXCEPT !.pc = "execRead", !.gen = g, !.age = 0,
                              !.why = IF @ = "async" THEN None ELSE @])

\* executeJobLocally up to its first await, called when the worker's maps are
\* act and tok.  A job this worker is already executing is not claimed again.
Execute(p, c, act, tok) ==
  LET w == WorkerOf(p)
      held == c.job \in act /\ tok[c.job] # None
  IN  \/ /\ mode[w] = "up" /\ held
         /\ Start(p, c, act, tok, tok[c.job])
      \/ /\ mode[w] # "up" \/ ~held
         /\ active' = [active EXCEPT ![w] = act]
         /\ token' = [token EXCEPT ![w] = tok]
         /\ UNCHANGED timer
         /\ IF mode[w] = "up"
              THEN Becomes(p, [c EXCEPT !.pc = "claimRead", !.gen = None, !.age = 0])
              ELSE Return(p, c)

\* acquireLeaseAtomically returned acquired = false.
NotAcquired(p, c) ==
  CASE c.why = "poll" -> ToNextCandidate(p, c.todo)
    [] c.why # "poll" -> Return(p, c)

-----------------------------------------------------------------------------
(* Entry points: enqueueRun, resumeRun and the HTTP routes that call them. *)

Request(p, r, route) ==
  /\ proc[p].pc = "idle"
  /\ mode[WorkerOf(p)] # "down"
  /\ requests < MaxRequests
  /\ route = "resume" => run[r] # "COMPLETED"
  /\ requests' = requests + 1
  /\ Becomes(p, [Idle EXCEPT !.pc = IF route = "direct" THEN "direct" ELSE "enqueueFind",
                             !.why = route, !.run = r])
  /\ UNCHANGED <<storeVars, memory, beat, polls, mode, business, faults>>

\* The synchronous HTTP route runs the orchestrator first and makes a job after.
DirectRun(p) ==
  /\ proc[p].pc = "direct"
  /\ \E s \in RunStatus \ {"ACTIVE"} :
       /\ run' = [run EXCEPT ![proc[p].run] = s]
       /\ verified' = [verified EXCEPT ![proc[p].run] = @ \/ s = "COMPLETED"]
       /\ Becomes(p, [proc[p] EXCEPT !.pc = "enqueueFind",
                        !.why = IF s = "WAITING" THEN "waited" ELSE "finished"])
  /\ UNCHANGED <<storeVars, memory, beat, polls, mode, counts>>

\* Its markWaiting or markCompleted is ExecutionRepository's, which reads the
\* row for the worker and the generation the caller left out; a job nobody
\* holds gives the worker '', which matches no row.
DirectRead(p) ==
  LET c == proc[p]
      row == job[c.job]
  IN  /\ c.pc = "directRead"
      /\ IF row.worker = None
           THEN Becomes(p, Idle)
           ELSE Becomes(p, [c EXCEPT !.pc = "directMark", !.owner = row.worker,
                                     !.gen = row.gen])
      /\ UNCHANGED <<storeVars, memory, beat, polls, mode, business, counts>>

DirectMark(p) ==
  LET c == proc[p]
  IN  /\ c.pc = "directMark"
      /\ \/ c.why = "waited" /\ MarkWaiting(c.job, c.owner, c.gen)
         \/ c.why = "finished" /\ MarkCompleted(c.job, c.owner, c.gen)
         \/ ~Fenced(c.job, c.owner, c.gen) /\ UNCHANGED storeVars
      /\ Becomes(p, Idle)
      /\ UNCHANGED <<memory, beat, polls, mode, business, counts>>

\* enqueueJob returned j.
Enqueued(p, j) ==
  LET w == WorkerOf(p)
      c == [proc[p] EXCEPT !.job = j, !.run = None]
  IN  CASE c.why \in {"runSync", "resume"} ->
             Execute(p, c, active[w], token[w]) /\ UNCHANGED polls
        [] c.why = "runAsync" ->
             Becomes(p, Idle) /\ UNCHANGED memory /\ CallPoll(w)
        [] c.why \in {"waited", "finished"} ->
             Becomes(p, [c EXCEPT !.pc = "directRead"]) /\ UNCHANGED <<memory, polls>>

\* findFirst of an active job of the run.
EnqueueFind(p) ==
  LET found == ActiveJobsOf(proc[p].run)
  IN  /\ proc[p].pc = "enqueueFind"
      /\ \/ \E j \in found : Enqueued(p, j)
         \/ /\ found = {}
            /\ Becomes(p, [proc[p] EXCEPT !.pc = "enqueueCreate"])
            /\ UNCHANGED <<memory, polls>>
      /\ UNCHANGED <<storeVars, beat, mode, business, counts>>

\* create: nothing makes the run unique among active jobs.
EnqueueCreate(p) ==
  /\ proc[p].pc = "enqueueCreate"
  /\ \E j \in JobId : Create(j, proc[p].run, None) /\ Enqueued(p, j)
  /\ UNCHANGED <<beat, mode, business, counts>>

-----------------------------------------------------------------------------
(* acquireLeaseAtomically: read, conditional update, read again. *)

\* Mutant: the generation the caller expects is not compared with the row's.
ClaimReadAnyGeneration(p) ==
  LET c   == proc[p]
      row == job[c.job]
  IN  /\ c.pc = "claimRead"
      /\ IF row.status \in Active
           THEN Becomes(p, [c EXCEPT !.pc = "claimUpdate", !.gen = row.gen])
           ELSE NotAcquired(p, c)
      /\ UNCHANGED <<storeVars, memory, beat, polls, mode, business, counts>>

ClaimRead(p) ==
  LET c   == proc[p]
      row == job[c.job]
      ok  == (c.gen = None \/ c.gen = row.gen) /\ row.status \in Active
  IN  /\ c.pc = "claimRead"
      /\ IF ok THEN Becomes(p, [c EXCEPT !.pc = "claimUpdate", !.gen = row.gen])
               ELSE NotAcquired(p, c)
      /\ UNCHANGED <<storeVars, memory, beat, polls, mode, business, counts>>

ClaimUpdate(p) ==
  LET c == proc[p]
  IN  /\ c.pc = "claimUpdate"
      /\ \/ /\ ClaimLease(c.job, WorkerOf(p), c.gen, c.age)
            /\ Becomes(p, [c EXCEPT !.pc = "claimReread", !.age = 0])
         \/ /\ ~Claimable(c.job, c.gen, c.age)
            /\ NotAcquired(p, c)
            /\ UNCHANGED storeVars
      /\ UNCHANGED <<memory, beat, polls, mode, business, counts>>

\* The generation a claimant works with is the one this read returns.
ClaimReread(p) ==
  LET c   == proc[p]
      w   == WorkerOf(p)
      g   == job[c.job].gen
      tok == [token[w] EXCEPT ![c.job] = g]
  IN  /\ c.pc = "claimReread"
      /\ CASE c.why = "poll" ->
                /\ Execute(p, [c EXCEPT !.why = "async", !.todo = {}], active[w], tok)
                /\ CallPoll(w)
           [] c.why = "recover" ->
                /\ Execute(p, c, active[w] \cup {c.job}, tok)
                /\ UNCHANGED polls
           [] c.why \notin {"poll", "recover"} ->
                /\ Start(p, c, active[w], tok, g)
                /\ UNCHANGED polls
      /\ UNCHANGED <<storeVars, beat, mode, business, counts>>

-----------------------------------------------------------------------------
(* executeJobLocally with the lease held. *)

RunOf(p) == job[proc[p].job].run

\* The run is read; RESOLVED, ESCALATED and FAILED are the states the code
\* takes for final, and a resolved run is stored as COMPLETED.
ExecRead(p) ==
  LET c == proc[p]
  IN  /\ c.pc = "execRead"
      /\ Becomes(p, [c EXCEPT !.pc = IF run[RunOf(p)] = "ESCALATED"
                                       THEN "markCompleted" ELSE "orchestrate"])
      /\ UNCHANGED <<storeVars, memory, beat, polls, mode, business, counts>>

\* The orchestrator executes and verifies an action.
OrchestratorVerifies(p) ==
  /\ proc[p].pc = "orchestrate"
  /\ verified' = [verified EXCEPT ![RunOf(p)] = TRUE]
  /\ UNCHANGED <<storeVars, proc, memory, beat, polls, mode, run, counts>>

\* It returns the status it left the run in; COMPLETED needs a verified action.
OrchestratorReturns(p) ==
  LET r == RunOf(p)
  IN  /\ proc[p].pc = "orchestrate"
      /\ \E s \in {"WAITING", "COMPLETED", "ESCALATED"} :
           /\ s = "COMPLETED" => verified[r]
           /\ run' = [run EXCEPT ![r] = s]
           /\ Becomes(p, [proc[p] EXCEPT !.pc = IF s = "WAITING" THEN "markWaiting"
                                                                 ELSE "markCompleted"])
      /\ UNCHANGED <<storeVars, memory, beat, polls, mode, verified, counts>>

OrchestratorThrows(p) ==
  /\ proc[p].pc = "orchestrate"
  /\ Becomes(p, [proc[p] EXCEPT !.pc = "markFailed"])
  /\ UNCHANGED <<storeVars, memory, beat, polls, mode, business, counts>>

\* Mutant: the finally block leaves the heartbeat running.
CleanupKeepsTimer(p) ==
  LET c == proc[p]
      w == WorkerOf(p)
  IN  /\ active' = [active EXCEPT ![w] = @ \ {c.job}]
      /\ token' = [token EXCEPT ![w] = [@ EXCEPT ![c.job] = None]]
      /\ CallPoll(w)
      /\ Return(p, c)
      /\ UNCHANGED <<timer, beat, mode, business, requests>>

\* Mutant: the finally block leaves the job in activeJobs.
CleanupKeepsActive(p) ==
  LET c == proc[p]
      w == WorkerOf(p)
  IN  /\ timer' = [timer EXCEPT ![w] = [@ EXCEPT ![c.job] = None]]
      /\ token' = [token EXCEPT ![w] = [@ EXCEPT ![c.job] = None]]
      /\ UNCHANGED active
      /\ CallPoll(w)
      /\ Return(p, c)
      /\ UNCHANGED <<beat, mode, business, requests>>

\* The finally block: it clears what is recorded for the job, whichever
\* execution of the job recorded it, and calls processNextAvailableJobs.
Cleanup(p) ==
  LET c == proc[p]
      w == WorkerOf(p)
  IN  /\ timer' = [timer EXCEPT ![w] = [@ EXCEPT ![c.job] = None]]
      /\ active' = [active EXCEPT ![w] = @ \ {c.job}]
      /\ token' = [token EXCEPT ![w] = [@ EXCEPT ![c.job] = None]]
      /\ CallPoll(w)
      /\ Return(p, c)
      /\ UNCHANGED <<beat, mode, business, requests>>

FinishWaiting(p) ==
  LET c == proc[p] IN
  /\ c.pc = "markWaiting"
  /\ \/ MarkWaiting(c.job, WorkerOf(p), c.gen)
     \/ ~Fenced(c.job, WorkerOf(p), c.gen) /\ UNCHANGED storeVars
  /\ Cleanup(p)
  /\ UNCHANGED faults

FinishCompleted(p) ==
  LET c == proc[p] IN
  /\ c.pc = "markCompleted"
  /\ \/ MarkCompleted(c.job, WorkerOf(p), c.gen)
     \/ ~Fenced(c.job, WorkerOf(p), c.gen) /\ UNCHANGED storeVars
  /\ Cleanup(p)
  /\ UNCHANGED faults

FinishFailed(p) ==
  LET c == proc[p] IN
  /\ c.pc = "markFailed"
  /\ \/ MarkFailed(c.job, WorkerOf(p), c.gen)
     \/ ~FailMatches(c.job, WorkerOf(p), c.gen) /\ UNCHANGED storeVars
  /\ Cleanup(p)
  /\ UNCHANGED faults

-----------------------------------------------------------------------------
(* Heartbeats: the interval calls renewLease, and acts on its answer. *)

HeartbeatSend(w, j) ==
  /\ timer[w][j] # None
  /\ beat[w][j] = NoBeat
  /\ beat' = [beat EXCEPT ![w] = [@ EXCEPT ![j] = [gen |-> timer[w][j], age |-> 0]]]
  /\ UNCHANGED <<storeVars, proc, memory, polls, mode, business, counts>>

\* A refused renewal stops the job's timer, even one started since.
HeartbeatAnswer(w, j) ==
  LET b == beat[w][j]
  IN  /\ b # NoBeat
      /\ \/ RenewLease(j, w, b.gen, b.age) /\ UNCHANGED timer
         \/ /\ ~Fenced(j, w, b.gen)
            /\ timer' = [timer EXCEPT ![w] = [@ EXCEPT ![j] = None]]
            /\ UNCHANGED storeVars
      /\ beat' = [beat EXCEPT ![w] = [@ EXCEPT ![j] = NoBeat]]
      /\ UNCHANGED <<proc, active, token, polls, mode, business, counts>>

-----------------------------------------------------------------------------
(* processNextAvailableJobs and recoverStaleJobs. *)

SnapshotsOf(jobs) ==
  {[job |-> j, gen |-> job[j].gen, owner |-> job[j].worker] : j \in jobs}

PollFind(p) ==
  LET w == WorkerOf(p)
  IN  /\ polls[w] /\ proc[p].pc = "idle" /\ mode[w] # "down"
      /\ polls' = [polls EXCEPT ![w] = FALSE]
      /\ ToNextCandidate(p, SnapshotsOf(Candidates(0)))
      /\ UNCHANGED <<storeVars, memory, beat, mode, business, counts>>

\* The timer that calls recoverStaleJobs, where start() has armed it, is cleared
\* only at the end of a shutdown.
RecoverFind(p) ==
  /\ proc[p].pc = "idle"
  /\ mode[WorkerOf(p)] \in {"up", "draining"}
  /\ ExpiredJobs(0) # {}
  /\ ToNextStale(p, SnapshotsOf(ExpiredJobs(0)))
  /\ UNCHANGED <<storeVars, memory, beat, polls, mode, business, counts>>

\* Mutant: maxAttempts is not consulted.
RetryUnbounded(p, c) == Becomes(p, [c EXCEPT !.pc = "claimRead", !.owner = None])

\* Take the scanned job over, or give it up.
Retry(p, c) ==
  Becomes(p, [c EXCEPT !.pc = IF c.gen < MaxAttempts THEN "claimRead" ELSE "recoverFail",
                       !.owner = None])

\* Mutant: the stale job goes back to the queue in place of being claimed.
RecoverInspectRequeues(p) ==
  LET c == proc[p]
  IN  /\ c.pc = "recoverInspect"
      /\ ToNextStale(p, c.todo)
      /\ job' = [job EXCEPT ![c.job] = [@ EXCEPT !.status = "QUEUED", !.worker = None,
                                                !.left = None]]
      /\ UNCHANGED <<grantee, memory, beat, polls, mode, business, counts>>

\* The audit of the run decides; attempts are those of the scanned row.
RecoverInspect(p) ==
  LET c == proc[p]
  IN  /\ c.pc = "recoverInspect"
      /\ \/ /\ verified[RunOf(p)]
            /\ Becomes(p, [c EXCEPT !.pc = "recoverReconcile"])
         \/ /\ ~verified[RunOf(p)]
            /\ Retry(p, c)
      /\ UNCHANGED <<storeVars, memory, beat, polls, mode, business, counts>>

RecoverReconcile(p) ==
  LET c == proc[p]
  IN  /\ c.pc = "recoverReconcile"
      /\ run' = [run EXCEPT ![RunOf(p)] = "COMPLETED"]
      /\ Becomes(p, [c EXCEPT !.pc = "recoverComplete"])
      /\ UNCHANGED <<storeVars, memory, beat, polls, mode, verified, counts>>

RecoverComplete(p) ==
  LET c == proc[p]
      w == IF c.owner = None THEN WorkerOf(p) ELSE c.owner
  IN  /\ c.pc = "recoverComplete"
      /\ \/ MarkCompleted(c.job, w, c.gen)
         \/ ~Fenced(c.job, w, c.gen) /\ UNCHANGED storeVars
      /\ ToNextStale(p, c.todo)
      /\ UNCHANGED <<memory, beat, polls, mode, business, counts>>

\* Mutant: not even the scanned generation.
RecoverFailUnfenced(p) ==
  LET c == proc[p]
  IN  /\ c.pc = "recoverFail"
      /\ MarkFailed(c.job, None, None)
      /\ ToNextStale(p, c.todo)
      /\ UNCHANGED <<memory, beat, polls, mode, business, counts>>

\* No worker and no status in the WHERE: only the scanned generation.
RecoverFail(p) ==
  LET c == proc[p]
  IN  /\ c.pc = "recoverFail"
      /\ \/ MarkFailed(c.job, None, c.gen)
         \/ ~FailMatches(c.job, None, c.gen) /\ UNCHANGED storeVars
      /\ ToNextStale(p, c.todo)
      /\ UNCHANGED <<memory, beat, polls, mode, business, counts>>

-----------------------------------------------------------------------------
(* Statements that fail. *)

\* What the statement a call awaits does to the table.
Statement(p) ==
  LET c == proc[p]
      w == WorkerOf(p)
  IN  \/ c.pc = "enqueueCreate" /\ \E j \in JobId : Create(j, c.run, None)
      \/ c.pc = "claimUpdate" /\ ClaimLease(c.job, w, c.gen, c.age)
      \/ c.pc = "markWaiting" /\ MarkWaiting(c.job, w, c.gen)
      \/ c.pc = "markCompleted" /\ MarkCompleted(c.job, w, c.gen)
      \/ c.pc = "markFailed" /\ MarkFailed(c.job, w, c.gen)
      \/ c.pc = "directMark" /\ c.why = "waited" /\ MarkWaiting(c.job, c.owner, c.gen)
      \/ c.pc = "directMark" /\ c.why = "finished" /\ MarkCompleted(c.job, c.owner, c.gen)
      \/ /\ c.pc = "recoverComplete"
         /\ MarkCompleted(c.job, IF c.owner = None THEN w ELSE c.owner, c.gen)
      \/ c.pc = "recoverFail" /\ MarkFailed(c.job, None, c.gen)

\* The statement is not run, or it is and only its answer is lost.
MaybeRun(p) == Statement(p) \/ UNCHANGED storeVars

\* Nothing on the way catches: an entry point or a poll ends where it is, and so
\* does the recovery loop with the jobs it has not reached.
CallThrows(p) ==
  /\ Fault
  /\ proc[p].pc \in {"direct", "enqueueFind", "enqueueCreate", "directRead", "directMark",
                    "recoverComplete", "recoverFail"} \cup ClaimPc
  /\ MaybeRun(p)
  /\ Becomes(p, Idle)
  /\ UNCHANGED <<memory, beat, polls, mode, business, requests>>

ReconcileThrows(p) ==
  /\ Fault
  /\ proc[p].pc = "recoverReconcile"
  /\ \/ run' = [run EXCEPT ![RunOf(p)] = "COMPLETED"]
     \/ UNCHANGED run
  /\ Becomes(p, Idle)
  /\ UNCHANGED <<storeVars, memory, beat, polls, mode, verified, requests>>

\* In executeJobLocally's try block: the catch marks the job failed, even one
\* whose outcome is already recorded.
ExecutionThrows(p) ==
  /\ Fault
  /\ proc[p].pc \in {"execRead", "markWaiting", "markCompleted"}
  /\ MaybeRun(p)
  /\ Becomes(p, [proc[p] EXCEPT !.pc = "markFailed"])
  /\ UNCHANGED <<memory, beat, polls, mode, business, requests>>

\* A failed read of the run is caught: an execution that has its input from the
\* request goes on without the run's status.
RunUnread(p) ==
  /\ Fault
  /\ proc[p].pc = "execRead"
  /\ proc[p].why \in {"runSync", "resume"}
  /\ Becomes(p, [proc[p] EXCEPT !.pc = "orchestrate"])
  /\ UNCHANGED <<storeVars, memory, beat, polls, mode, business, requests>>

\* In the catch block: the finally block still runs.
FailedUnrecorded(p) ==
  /\ Fault
  /\ proc[p].pc = "markFailed"
  /\ MaybeRun(p)
  /\ Cleanup(p)

\* A failed inspection is caught and taken for a run with nothing on record.
InspectionFails(p) ==
  /\ Fault
  /\ proc[p].pc = "recoverInspect"
  /\ Retry(p, proc[p])
  /\ UNCHANGED <<storeVars, memory, beat, polls, mode, business, requests>>

PollFails(w) ==
  /\ Fault
  /\ polls[w]
  /\ polls' = [polls EXCEPT ![w] = FALSE]
  /\ UNCHANGED <<storeVars, proc, memory, beat, mode, business, requests>>

\* The interval ignores an error, and goes on.
HeartbeatFails(w, j) ==
  LET b == beat[w][j]
  IN  /\ Fault
      /\ b # NoBeat
      /\ RenewLease(j, w, b.gen, b.age) \/ UNCHANGED storeVars
      /\ beat' = [beat EXCEPT ![w] = [@ EXCEPT ![j] = NoBeat]]
      /\ UNCHANGED <<proc, memory, polls, mode, business, requests>>

-----------------------------------------------------------------------------
(* Shutdown, crashes, time. *)

MayStop(w) == w \in Mortal /\ mode[w] = "up"

ShutdownBegin(w) ==
  /\ MayStop(w)
  /\ mode' = [mode EXCEPT ![w] = "draining"]
  /\ UNCHANGED <<storeVars, proc, memory, beat, polls, business, counts>>

\* Drained, or out of grace: the timers and activeJobGenerations are cleared.
ShutdownStop(w) ==
  /\ mode[w] = "draining"
  /\ mode' = [mode EXCEPT ![w] = "stopped"]
  /\ timer' = [timer EXCEPT ![w] = NoTokens]
  /\ token' = [token EXCEPT ![w] = NoTokens]
  /\ UNCHANGED <<storeVars, proc, active, beat, polls, business, counts>>

\* The process ends; a restarted process is another worker id.
Crash(w) ==
  /\ MayStop(w) \/ mode[w] \in {"draining", "stopped"}
  /\ mode' = [mode EXCEPT ![w] = "down"]
  /\ proc' = [p \in Proc |-> IF WorkerOf(p) = w THEN Idle ELSE proc[p]]
  /\ active' = [active EXCEPT ![w] = {}]
  /\ token' = [token EXCEPT ![w] = NoTokens]
  /\ timer' = [timer EXCEPT ![w] = NoTokens]
  /\ beat' = [beat EXCEPT ![w] = [j \in JobId |-> NoBeat]]
  /\ polls' = [polls EXCEPT ![w] = FALSE]
  /\ UNCHANGED <<storeVars, business, counts>>

HoldsTimestamp(c) == c.pc \in {"claimRead", "claimUpdate"}

\* The read after a claim, or the find of a poll, is not back yet.
Stalled == \/ \E p \in Proc : proc[p].pc = "claimReread"
           \/ \E w \in Worker : polls[w]

TimePasses ==
  /\ Tick
  /\ IF Stalled THEN Fault ELSE UNCHANGED faults
  /\ \A p \in Proc : HoldsTimestamp(proc[p]) => proc[p].age < MaxDelay
  /\ \A w \in Worker, j \in JobId : beat[w][j] # NoBeat => beat[w][j].age < MaxDelay
  /\ proc' = [p \in Proc |-> IF HoldsTimestamp(proc[p])
                               THEN [proc[p] EXCEPT !.age = @ + 1] ELSE proc[p]]
  /\ beat' = [w \in Worker |-> [j \in JobId |->
                IF beat[w][j] # NoBeat THEN [beat[w][j] EXCEPT !.age = @ + 1]
                                       ELSE NoBeat]]
  /\ UNCHANGED <<memory, polls, mode, business, requests>>

-----------------------------------------------------------------------------
Enqueue(p) == EnqueueFind(p) \/ EnqueueCreate(p)
Claim(p) == ClaimRead(p) \/ ClaimUpdate(p) \/ ClaimReread(p)
Orchestrate(p) == OrchestratorVerifies(p) \/ OrchestratorReturns(p) \/ OrchestratorThrows(p)
Finish(p) == FinishWaiting(p) \/ FinishCompleted(p) \/ FinishFailed(p)
Recover(p) == \/ RecoverInspect(p) \/ RecoverReconcile(p)
              \/ RecoverComplete(p) \/ RecoverFail(p)

Direct(p) == DirectRun(p) \/ DirectRead(p) \/ DirectMark(p)
Fail(p) == \/ CallThrows(p) \/ ReconcileThrows(p) \/ ExecutionThrows(p)
           \/ RunUnread(p) \/ FailedUnrecorded(p) \/ InspectionFails(p)

Next ==
  \/ \E p \in Proc :
       \/ \E r \in Run, route \in Route : Request(p, r, route)
       \/ Direct(p) \/ Enqueue(p) \/ Claim(p)
       \/ ExecRead(p) \/ Orchestrate(p) \/ Finish(p)
       \/ PollFind(p) \/ RecoverFind(p) \/ Recover(p) \/ Fail(p)
  \/ \E w \in Worker, j \in JobId :
       HeartbeatSend(w, j) \/ HeartbeatAnswer(w, j) \/ HeartbeatFails(w, j)
  \/ \E w \in Worker : PollFails(w) \/ ShutdownBegin(w) \/ ShutdownStop(w) \/ Crash(w)
  \/ TimePasses

Spec == Init /\ [][Next]_vars

-----------------------------------------------------------------------------
(* Properties. *)

CoordinatorTypeOK ==
  /\ TypeOK
  /\ proc \in [Proc -> Call]
  /\ active \in [Worker -> SUBSET JobId]
  /\ token \in [Worker -> [JobId -> Generation \cup {None}]]
  /\ timer \in [Worker -> [JobId -> Generation \cup {None}]]
  /\ beat \in [Worker -> [JobId -> [gen : Generation \cup {None}, age : Age]]]
  /\ polls \in [Worker -> BOOLEAN]
  /\ mode \in [Worker -> {"up", "draining", "stopped", "down"}]
  /\ run \in [Run -> RunStatus]
  /\ verified \in [Run -> BOOLEAN]
  /\ requests \in 0..MaxRequests
  /\ faults \in 0..MaxFaults

Executing(p) == proc[p].pc \in ExecutePc

\* The coordinator touches the table only through the store's statements, so
\* whatever holds of the store holds here.
UsesStore == StoreSpec

\* Fencing: the outcome of generation g of a job is written by a call that was
\* handed g, never by an executor or a recovery scan left over from an earlier
\* generation.  An executor that was handed a generation granted to another worker
\* (its second read after a claim came late, or the job was given back and claimed
\* again before it) writes no outcome at all: the worker in the WHERE stops it.
FencedOutcome ==
  [][\A j \in JobId :
       job[j].status = "RUNNING" /\ job'[j].status # "RUNNING" =>
         \E p \in Proc :
           /\ proc[p].job = j
           /\ proc[p].gen = job[j].gen
           /\ \/ /\ proc[p].pc \in {"markWaiting", "markCompleted", "markFailed"}
                 /\ WorkerOf(p) = grantee[j][job[j].gen]
              \/ proc[p].pc \in {"recoverComplete", "recoverFail", "directMark"}]_vars

\* maxAttempts binds the takeovers: past it a generation is made by the claim of
\* a request or of a poll, never by a recovery loop, whatever it has scanned and
\* however the job was claimed and lost since.
RecoveryWithinAttempts ==
  [][\A j \in JobId :
       job'[j].gen # job[j].gen /\ job[j].gen >= MaxAttempts =>
         \E p \in Proc : /\ proc[p].pc = "claimUpdate" /\ proc[p].job = j
                         /\ proc[p].why # "recover"
                         /\ proc'[p].pc # "claimUpdate"]_vars

\* Retries end: with requests that execute what they enqueue, a request adds its
\* own claim of the job and that of the poll its execution ends with, each of
\* the MaxAttempts - 1 takeovers the recovery loop may make adds the same two, a
\* statement that fails or stalls adds two more, and nothing else claims it, however often
\* leases are lost in between.
ClaimsBounded ==
  \A j \in JobId : job[j].gen <= 2 * (MaxRequests + MaxFaults + MaxAttempts - 1)

\* Capacity comes back: a worker that is up counts a job in activeJobs only
\* while a call of it executes the job, whatever the calls that shared or
\* lost the job's lease did.
CapacityReturned ==
  \A w \in Worker, j \in JobId :
    mode[w] = "up" /\ j \in active[w]
      => \E s \in Slot : Executing(<<w, s>>) /\ proc[<<w, s>>].job = j

\* No heartbeat outlives its execution: a timer that went on renewing would
\* keep a job that nobody executes out of the recovery loop's reach.
NoOrphanHeartbeat ==
  \A w \in Worker, j \in JobId :
    timer[w][j] # None
      => \E s \in Slot : Executing(<<w, s>>) /\ proc[<<w, s>>].job = j
=============================================================================
