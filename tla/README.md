# Verification of ResolveX

ResolveX (`src/`) is an autonomous customer-resolution service: it takes a
support ticket, lets an agent investigate it, decide on a remedy (a refund, a
replacement, a cancellation, a coupon, an escalation), executes and verifies the
remedy, and stops for a manager's approval or the customer's consent where its
policies ask for one. Every ticket is worked on by an *AgentRun*; every AgentRun
is carried through the system by an *ExecutionJob*, which worker processes claim
with a lease and a generation number (a fencing token).

This directory holds TLA+ models of the system, the TLC runs that check them and
the TLAPS proofs of what holds for every instance.

## 1. The system

| Component | State | Operations | Hard behaviour |
|---|---|---|---|
| Execution store (`execution/executionStore.ts`) | `ExecutionJob` rows: status, workerId, leaseUntil, leaseGeneration, attempt, idempotencyKey | enqueueJob, acquireLeaseAtomically, acquireNextJobAtomically, renewLease, markCompleted/Waiting/Failed, recoverExpiredLeases | conditional updates whose WHERE was computed from an earlier read; clocks |
| Execution coordinator (`execution/executionCoordinator.ts`, `db/repositories/executionRepository.ts`) | per process: activeJobs, activeJobGenerations, heartbeatTimers, isShuttingDown | enqueueRun, resumeRun, executeJobLocally, the poll, the heartbeat, recoverStaleJobs, shutdown | every `await` is an interleaving point; several processes; crashes; stalled executors |
| Durable queue (`execution/durableQueue.ts`) | job rows; dead letters and cancellations in memory | enqueue, claim, acknowledge, reject, requeue, cancel | late acknowledgements and rejections, lost replies, memory lost at a restart; nothing in `src/` drives it |
| Orchestrator and run lifecycle (`agents/orchestrator`, `db/repositories/agentStateRepository.ts`) | AgentRun, traces, action records | run, resumeRun, replan, reconcile | pause and resume, a transition guard, lost updates |
| Action execution (`agents/action`, `tools/`, `utils/retryPolicy.ts`) | orders, refunds, stock, coupons, ActionRecords, ToolExecutions | execute, verify, retry with verification first | idempotency under concurrency, lost acknowledgements, crashes and retries |
| Notifications (`notifications/`, `db/repositories/notificationRepository.ts`) | Notification rows | create or find, claim, send, mark, retry | delivery claimed by a process that dies, late results |
| Policy governance (`db/repositories/policyRepository.ts`) | policies and versions | create, submit, approve, activate, retire, roll back | transactions of concurrent administrators, at READ COMMITTED |
| Intent, investigation and decision agents, policy evaluation (`agents/intent`, `agents/investigation`, `agents/decision`, `policy/`) | none: functions of the message and the tables | analyze, investigate, evaluate, decide | tools that fail, gates in three places that should agree |
| Integrations (`integrations/`) | circuit breakers, IntegrationOperation rows, the sandbox's memory | execute, verify, report | late results, timeouts of unknown outcome, redirects, retries |
| Rate limiters (`utils/rateLimiter.ts`, `backend/distributedRateLimiter.ts`, `observability/tenantFairness.ts`) | windows and buckets in memory | checkRateLimit, checkLimit, consumeTokens | windows at their boundary |
| AI budgets, model routing, backpressure, retry classification (`ai/`, `observability/`) | counters in memory | checks without a caller | none that the code decides: see section 7 |
| Incidents (`observability/incidentManager.ts`) | Incident rows | create, acknowledge, resolve, close | deduplication and transitions by read and write |
| Cases (`cases/`) | none (views) | mapStatus, timeline | agreement of views with the run |
| API, authentication, AI providers, user interface, evaluation | | | outside the models |

How they interact: the HTTP routes call the coordinator (`enqueueRun` for the asynchronous route,
`resumeRun` for approvals and consents) or, for the synchronous route, run the
orchestrator directly and make a job afterwards; the coordinator claims jobs in
the store and calls the orchestrator; the orchestrator calls the tools, which
write the business tables; the recovery loop reads the audit of those tables and
closes, retries or fails the jobs whose lease ran out.

What makes each part correct: the store never grants a live lease twice and never grants
a generation twice; a worker process writes outcomes only with the generation it was
handed, gives its capacity back, stops its heartbeats, and stops retrying; a job of the
queue stays with its newest claim, and what is done is reopened only by its own claim;
the run's status follows its guard and agrees with its audit; a refund is paid once per
key, and no success is reported that nothing stands behind; a run is resolved only with
evidence, and nobody takes up a run that a human has refused; no gate is passed that
another place would have closed; a notification says what is so and is tried a bounded
number of times; transactions on a policy that do not overlap leave one active version,
and a run keeps the policies it began with; an external operation is carried out once
and recorded truthfully; breakers and limits hold at their boundaries.

## 2. The modules

| Module | Models | Kind |
|---|---|---|
| `FencedLease` | what the store promises about a job: absent, free, held by one worker, closed | abstract specification |
| `ExecutionStore` | the ExecutionJob table, one action per statement, with arbitrary arguments | component |
| `ExecutionStoreProofs` | theorems about `ExecutionStore` | proofs |
| `ExecutionCoordinator` | the worker processes, one action per stretch of code between two awaits; extends `ExecutionStore` and uses its actions | component, composed with the store |
| `ExecutionCoordinatorProofs` | theorems about `ExecutionCoordinator`; extends those about the store | proofs |
| `OnceLedger` | what the refund tool promises: a key is performed once, and confirmed only on account of what was done under it or under a key that vouches for it | abstract specification |
| `ActionExecution` | the action executor, its retries, and the five business tools over their tables | component |
| `ActionExecutionProofs` | theorems about `ActionExecution` | proofs |
| `DurableQueue` | the work queue, called by anybody; extends `ExecutionStore` and uses its actions | component, composed with the store |
| `DurableQueueProofs` | theorems about `DurableQueue`; extends those about the store | proofs |
| `AgentRun` | the life of a run: the orchestrator, the answers of humans, replanning, reconciliation, the routes that call one agent | component |
| `AgentRunProofs` | theorems about `AgentRun` | proofs |
| `Decisions` | what a case gets: intent, facts, policies, decision, gates | component, data in place of control |
| `Notifications` | notifications of a run, with the operator's retry | component |
| `NotificationsProofs` | theorems about `Notifications` | proofs |
| `PolicyGovernance` | change control of policies and their pinning to runs | component |
| `PolicyProofs` | theorems about `PolicyGovernance` and about `Decisions`, whose definitions are named apart so that one module may extend both | proofs |
| `CircuitBreaker` | the breaker as functions from state to state | operators |
| `Integrations` | an external operation: breaker, record, adapter, client, provider | component, uses `CircuitBreaker` |
| `AdmissionControl` | the three limiters | component |
| `BoundaryProofs` | theorems about `Integrations` and `AdmissionControl`, whose definitions are named apart so that one module may extend both | proofs |
| `MC...` | instances for TLC: sets of requests, messages and policies, and symmetry | model checking |

How they fit: `ExecutionCoordinator` takes the orchestrator as its result;
`AgentRun` is that orchestrator, whose calls of one run may overlap, and takes the
decision as a choice and the action as its outcome; `Decisions` says which decisions there
are, `ActionExecution` which outcomes. `Notifications` takes the run as a status
that moves.

### ExecutionStore

`job[j]` is a row. `left` is `leaseUntil` minus the present; a statement that
compares or writes `leaseUntil` does so with a `Date.now()` its caller captured
before, so the action takes that timestamp's `age`. Values of `left` that no
caller can distinguish (older than `MaxDelay + 1`) are one value, which makes
time unbounded at no cost. `attempt` and `leaseGeneration` are incremented by
the same statement and by nothing else, so `gen` stands for both. `grantee` is a
history variable: which worker's claim made a generation current.

The actions take arbitrary arguments: any worker, any generation, any age. What
holds of this module therefore holds of any program that uses the statements.
`ExecutionStateMachine` (the table of allowed transitions) is consulted by no
statement and is therefore only a property here.

### ExecutionCoordinator

`proc[<<w, s>>]` is an asynchronous call in flight in process `w`: what it is
awaiting (`pc`) and the locals it will still use. The code between two awaits is
one action; JavaScript runs it without interruption. `Execute` is the
synchronous first part of `executeJobLocally` and is called by `Enqueued` (the
entry points), by the poll and by the recovery loop, with the maps as the caller
left them. `Cleanup` is its `finally` block. The heartbeat of a job is the timer
(`timer`), which carries the generation it was started with, and the renewal in
flight (`beat`).

Any statement may fail, before or after the database has carried it out, and go where
the code's `catch` takes it: an enqueue or a claim throws out of the call
(`CallThrows`), an outcome that throws is followed by `markFailed` (`ExecutionThrows`),
an execution that cannot read its run goes on with what the request brought
(`RunUnread`), a failed inspection finds nothing (`InspectionFails`), a recovery loop
ends (`ReconcileThrows`, `CallThrows`), and a timer goes on after a renewal that threw
(`HeartbeatFails`). And its answer may be late: the clock may move between a claim and
the read that follows, or between a poll and its query (`Stalled`). `faults` counts
both; `MaxFaults` bounds them. All four routes may be used: `runSync`, `runAsync`,
`resume` and `direct`, the synchronous route that runs the orchestrator first and marks
a job afterwards.

Abstractions: the orchestrator is its result (`OrchestratorReturns`,
`OrchestratorThrows`) and whether it has left a verified mutation
(`OrchestratorVerifies`), which is what the recovery loop's audit asks; the
final AgentRun statuses ESCALATED and FAILED are one, because the coordinator
treats them alike, and a resolved run is stored as COMPLETED, which the
coordinator's list of final statuses lacks. Idempotency keys are in the store's
model; the coordinator's routes pass none. The FailureInjector hooks do nothing
outside tests. A process that restarts has another worker id, so a crash is
final here.

### ActionExecution

A call `c` is one `ActionExecutor.execute`; `pc[c]` is the query it is about to
make: `check` (checkIdempotency), `lookup` (issueRefund's own look at the
transactions), `read` (rows and eligibility), `commit` (the `$transaction`),
`salvage` (createReplacement's catch), `record` (formatSuccess or formatError),
`confirm` (the retry policy's verifyFirst), `verify`, and `verified` or `refuted`
(recordVerification). Each query is a step of its own, so calls interleave
everywhere but inside a transaction. `attempt[c]` counts the tries of
`executeWithRetry`. An attempt commits at most one transaction, so
`<<call, attempt>>` names the ActionRecord it creates and the row that record
refers to: `action[a]`.

What may go wrong at each step: a read fails (`ReadThrows`, which is what makes
the retry policy retry: the tools turn every other error into a result), a
transaction rolls back (`RollBack`) or commits without its acknowledgement
(`Committed`, remembered in the history variable `lost`), the record of an
execution or a verification cannot be written and the error is swallowed
(`RecordExecution`, `MarkVerified`), the process dies (`Crash`). A client or a
recovered job that tries again is another call with the same key.

Requests are the decisions the agents reach: an existing order, customer and
ticket, a key, and what the gates ask (`needs`) and are given (`has`).
`KeyPrefixes` says which keys occur in the text of others, since an ActionRecord
is looked up by `metadata contains key`: the key K of a run is contained in the key
K-replan-n of its replans (`AgentOrchestrator.ts:697`, `:1026`), and a record of the
latter then stands for the former. The order a replacement creates is not itself the
object of a later request; that its status may have changed by the time it is
verified is left open (`MayHaveMoved`). issueRefund's branches for a
transaction without an ActionRecord are left out: both rows are committed
together (`RefundBooked` shows they are never apart). All errors are retryable:
no Prisma error has one of the codes or texts isRetryable refuses.

### DurableQueue

Nothing in `src/` drives the queue, and the tests make single calls, so the callers are
arbitrary. A client submits runs (`entry`); a worker claims (`call`); whoever a claim
gave a job and a generation (`hands`) may renew, acknowledge and reject it whenever and
as often as it likes, also after it has lost the lease, after a restart, or after it
acknowledged. A statement that fails or matches no row changes nothing, so the model
leaves it out; a reply that is lost after its statement took effect only changes what
the caller does next, which is arbitrary, but for a claim, a permanent rejection and a
requeue, whose later steps then do not happen (`ClaimEnds`, `EnqueueEnds` and the
branches of `Try` and `RejectPermanent`). `dead` and `cancelled` are a process's memory and are lost
when it restarts. Every other effect is an action of `ExecutionStore`, but for the
transient rejection (`RequeueTransient`), which updates a row without asking for
its status. `ended[j][g]` is a history: what statements of the generation `g` made of
`j`. `Named[j]` is the run whose id is the job's own: `requeue` passes the
job's id where a run's is expected. Priorities and metrics are left out.

### AgentRun

`call[c]` is a call in flight: of the orchestrator (`run`, `resumeRun` by an
approval, a rejection, a consent or plainly), of `reconcileAgentRun`, or of one
agent by itself (the routes at `server.ts` 534 to 660, kind `alone`). `pc` names
the next write or read that others can see; agents and tools between them are
nondeterministic results. Each write of the run's row may fail and be forgotten
where the code forgets it (`Write`), and the process may die between any two steps
(`Dies`). Calls of one run overlap freely: a second resume in the process that executes
the job takes no lease (`executionCoordinator.ts:196-209`), the synchronous route has
none, and two enqueues make two jobs. `rejected[r]` says that a refusal stands in the
row, and a call's `late` that one was written while it was in flight (histories).
`Gates` gives where a decision may lead: an approval, a consent, an
action, an escalation; which one is `Decisions`' subject, and what a client's
token and consent are worth is left open. `audit[r]` is what actions of a run were
found to be. `StateTransitionGuard` is translated as the code consults it.

`CaseStatus` is `CaseManager.mapStatus` of the latest run and the ticket. Calls
that name no run write to none and are left out; so are the traces.

### Decisions

A message is the set of groups of words the classifier looks for; `ByWords` is
the list of patterns, `ByAI` what the AI may answer. Facts are what each tool found
or, when it failed, left out. Policies are records of conditions and approvals;
`Applicable`, `Candidates` and `Selected` are the evaluator and the engine. The case
goes through `run` (`step`), possibly waits for an answer, is resumed (which
decides anew, from new facts), is executed behind the executor's gates, and
recovers. Amounts are numbers that matter only by comparison with `Limit` and with
the order's total. Entities, confidence and wording are left out, except where a
decision depends on one.

### Notifications

`call[c]` is a dispatch or an operator's retry, at one query after another: the
evidence for a resolution, the creation by idempotency key, the claim, the
delivery, the result. Nobody waits for a dispatch, so the run moves on
(`RunMoves`) meanwhile. Deaths and failed writes are possible anywhere.

### PolicyGovernance

A policy is a header row and versions. Every operation of the repository first reads the
version and checks its status, and then writes; `call[c]` holds what was read. The
`$transaction`s of activateVersion and retireVersion name no isolation level, so on
PostgreSQL each of their statements sees what is committed when it begins. An activation
finds the active versions (`FindActive`), retires each of them once it has the row's
lock (`RetireOther`) and activates its own (`ActivateVersion`, which also commits); a
retirement looks for another active version (`LookForActive`) and retires its own and,
if there was none, the header (`RetireVersion`). What an open transaction has written
becomes visible when it commits, and a write waits for the locks of the others (`Free`).
`outrun` and `muddled` are histories: the calls past whose open transaction another one
on the policy committed, and the policies such a call has written, until an activation
that was not outrun.

A run's evaluation fetches the policies in effect, pins them, and applies them
(`stage`, `fetched`, `pinned`, `used`), one evaluation of a run at a time; an empty pin
is none. There is one tenant. Administrators have the role ADMIN, which the separation
of duties exempts (`policyRepository.ts:340`).

### Integrations and CircuitBreaker

Nothing in `src/` wires the layer to the tools; the caller is the one of
INTEGRATIONS.md, section 4, and `tests/step2_integrations.test.ts`: it asks the
breaker, records the operation, executes it, reports and records the outcome, and
verifies it. `mode` chooses between the sandbox's fakes, which remember
the answer of a key, and the HTTP adapters with their client: attempts, retries,
redirects that turn a POST into a GET, timeouts after which the request may still
arrive (`late`), lost answers. Providers share nothing, so a behaviour has one.
The provider carries out a key once (`seen`), as the adapters ask of it.

### AdmissionControl

Each limiter is a synchronous function and an action; whoever calls it does so at any
time. `src/` calls one of them, `RateLimiter` (`authMiddleware.ts:18`); the other two
stand ready for a caller. Timestamps are distances to the present, capped where no
comparison can tell more, so time is unbounded. What happens several times is counted
cumulatively: `stamps[a]` is how many timestamps of the sliding window are at most `a`
ticks old (those of a tick are not told apart, nor does the limiter), and likewise for
the histories. `told`, `passed`, `entered` and `spent` are histories that the
properties compare the limiters with. The keys of a limiter share nothing, so one client
and one tenant stand for all.

## 3. The runs

| Run | Question | Bounds |
|---|---|---|
| `store` | Do the statements keep the fencing discipline, with any arguments and timestamps up to a tick old? | 2 workers, 2 jobs of one run, one key, 2 claims per job, lease of one tick |
| `takeover` | Do two processes that lose leases to each other, stall and see statements fail write only fenced outcomes, keep to maxAttempts, and stop retrying? | 2 processes with one call in flight each, one request over any of the four routes, 2 attempts, one statement that fails or answers late, the first process may crash or shut down |
| `one_worker` | Do activeJobs and timers follow the executions when several calls of one process share a job? | 1 process, 2 calls in flight, 2 requests over the asynchronous, the resuming and the synchronous route, one failing or late statement, shutdown and crash |
| `actions` | Do the refund ledger and the audit agree, are answers truthful, do calls end, and are refunds performed once per key and confirmed only for something? | 2 calls, 2 tries each, 6 requests over the five kinds of action and the approval gate, 5 keys of which two are those of a replan and contain another, one order (open or delivered), one coupon code, one unit in stock |
| `policies` | Do administrators whose statements interleave at READ COMMITTED leave one active version, unless their transactions overlap, and a run's policies alone? | 1 seeded policy, 2 versions, two calls at once or a call beside a run, one tick |
| `agent_run` | Is every resolution verified, and does nobody take up a refused run, however calls overlap and fail? | 1 run, 2 calls, of which at least one is the orchestrator's, 1 replan |
| `decisions` | Do the gates of run and executor agree, is a risky refund answered for, is a wish respected? | 7 messages, AI answers of 2 issues, amounts 0 and 5, totals 8 and 25, limit 10, 3 sets of policies |
| `high_refund` | Is a refund over the limit always answered for? It is not. | as `decisions`, and nobody names an amount |
| `notifications` | Are resolutions grounded, is SENT true, are tries bounded? | 2 events, 2 calls, 2 attempts, 1 retry by an operator |
| `integrations` | Has a key one effect, is the record true, does the breaker count? | 2 callers, 2 keys, 1 unit, 1 retry, 1 redirect, 4 calls in the sandbox or 2 over HTTP, 1 lost write, thresholds 2 and 2 |
| `queue` | Does a claimed job stay with its newest claim until that claim ends it, and does what is done stay done, whatever the callers do? | 2 workers, 1 client, 2 runs, 2 jobs, 2 claims in all, 1 crash or cancellation, in the first worker |
| `admission` | Do the limits hold over every stretch of time, and does a named wait suffice? | 2 callers of the sliding window and any number of the others, a window of 3 ticks, limits of 2, a bucket of 2 refilled by 1 per tick, charges of up to 2 |

`takeover` and `one_worker` bound the claims of a job by `MaxGeneration`, 7 and 9, which in
`takeover` is above what `ClaimsBounded` allows (6), so that it cuts no behaviour off, and
in `one_worker` above the 8 that the same formula gives and no behaviour of the run exceeds.
`MaxFaults = 1` is enough for each hazard that a failing or stalling statement causes:
they are about what is done after one. In `takeover` and `queue` only the first of two
workers is disturbed (`Mortal`, `Disturbed`): they are interchangeable, so this stands
for either. One job is enough for two processes to conflict about: the store's statements
touch one row each. Two calls are enough for two executions to share a job's
bookkeeping. A lease of one tick and callers that act within the tick are the
shortest instance in which a lease can expire under a live executor; the
timestamps' ages are exercised by `store`, where they matter.

`actions` has two calls because its hazards are between a call and one that
repeats it or competes for the same row, and two tries because the second is the
first that verifies before it acts; refunds, the stock and the coupon code are
each scarce enough that the second of two calls is refused. Each key is used for
one kind of action; the coupon's and the escalation's are those of a replan of the
refund and of the replacement, whose keys they contain.

`policies` needs two calls because each hazard is a read of one between the read
and the write of another; two versions are the least for one to replace another,
one tick lets a version begin or end to be in effect. While a run evaluates its policies
there is one call beside it (`TwoAtOnce`): what an evaluation reads is what is
committed, whichever calls did it. In `agent_run` one run is
enough because calls of different runs share only the ticket and the order's
refund, which a reconciliation of the same run sees as well; a third call adds no
pair. Of two calls at once at least one is the orchestrator's and both have a row
(`RowsAtOnce`): the others write once or twice, and a call without a row writes to
none. In `decisions` every case is walked through alone; the amounts are
those that a comparison tells apart: an order under and over the limit, a
small amount asked for or none. `notifications` takes the one event behind the
gate and one that is not; two attempts are the least for a row to fail and be
tried again. `integrations` takes two calls more in the sandbox, whose memory only
shows on repetition. In `queue` a lease, which may run out at any tick, is lost once, to
the other worker or to the same one; both claims may be of one job or one of each, and
when a process crashes or a job is cancelled they are of the first (`FewClaims`).
`admission` lets one request be admitted, one refused and one waited for, and the window
has an inner boundary.

Where the system may really stop, a run does not check deadlock: the cases of
`decisions` and `high_refund` end, and the counted calls of `integrations` run out.

Fairness is assumed in one module. In `ActionExecution` a call that has begun goes on
(`FairSpec`): an await returns, with an answer or an error, and JavaScript resumes the
function; nothing makes a call begin or crash. From this `CallsEnd` follows.

Nothing else states liveness, because nothing in the code would make it true. The
recovery of stale jobs and the poll for new ones are armed by
`ExecutionCoordinator.start()`, which the server never calls (below); no code drives the
work queue; and nothing takes up a run, a notification, a version or an external
operation by itself once its call has ended. In `ExecutionCoordinator` the recovery loop is
an action that may happen, so what is said of it holds where somebody does start it.

### Disagreements between the code and what is said of it

`high_refund` ends in a counterexample. A customer wants money back and names no amount,
and the order cannot be read. The decision carries the amount 0, which passes the gates;
the executor finds no amount in the candidate, falls back to the default order and
refunds its total, however high, and nobody was asked (`ActionExecutor.ts:175`, `:182`).
README.md:80 says that refunds over 10,000 halt for an approval.

What else was met while translating is listed here with the place where it
happens and the sentence it contradicts, if there is one. Where the part is
modelled, the behaviour is in the model, and the properties are stated so that
they hold of what the code does.

Jobs and their execution:

- nothing in the server calls `start()`, so the deployed service neither polls on a
  timer nor recovers a stale job (executionCoordinator.ts:63, EXECUTION.md:106,
  RELEASE_READINESS.md:73);
- the recovery loop scans a stale job, its executor completes it, and the loop
  fails it: COMPLETED becomes FAILED (executionCoordinator.ts:453,
  DISTRIBUTED_EXECUTION.md:87); so does an executor whose markCompleted took effect
  and lost its answer (executionCoordinator.ts:311);
- `maxAttempts` binds the recovery loop only: a poll or a request claims a stale job
  whatever its attempts (executionStore.ts:154);
- a refused renewal of an execution that lost its lease stops the timer that a later
  execution of the job in the same process has started
  (executionCoordinator.ts:376);
- two enqueues of a run both find no active job and both create one, and two
  processes execute the run (executionStore.ts:73, EXECUTION.md:85);
- a second resume in the process that executes the job takes no lease and executes
  it as well (executionCoordinator.ts:198,
  tests/phase18_distributed_execution.test.ts:376);
- a job whose process dies before claiming it is never claimed: the poll looks for
  stale jobs, not queued ones (executionCoordinator.ts:74,
  DISTRIBUTED_EXECUTION.md:42);
- a shutdown out of grace releases no lease (EXECUTION.md:120);
- a poll claims a job that was paused for a human between its scan and its claim
  (executionStore.ts:197);
- a worker that stalls after its claim reads, and goes on with, the generation of
  the worker that replaced it, so that two execute one generation
  (executionStore.ts:188, DISTRIBUTED_EXECUTION.md:61); the outcome of only one of
  them is taken (`FencedOutcome`);
- the synchronous route completes a job another call is executing, with the token
  it reads from the row (DISTRIBUTED_EXECUTION.md:61); if it marks waiting a job that
  another process has just claimed and not read again, the job is claimed anew, the
  first claimant reads the second's generation, and both execute with it
  (executionRepository.ts:88);
- a job claimed by the poll is claimed again by the same worker, refused, and
  stays RUNNING without heartbeat until its lease runs out (EXECUTION.md:97);
- two synchronous requests exceed `concurrency`, which only the poll respects
  (EXECUTION.md:128).

The work queue:

- `reject` keeps the job's id as the dead letter's run (durableQueue.ts:180), which
  `requeue` enqueues, so the run of a dead letter is not executed again; the dead letter
  is removed before the new job exists, so a failure in between loses it
  (durableQueue.ts:203);
- a transient rejection asks for no status and no attempts: it retries beyond
  `maxAttempts`, and when an acknowledgement is committed, its reply lost and the
  timeout reported as a transient error, the COMPLETED job is queued again
  (durableQueue.ts:171);
- a permanent rejection by a worker that lost its lease makes a dead letter of a
  job another worker holds;
- a cancelled job is acknowledged as COMPLETED; cancellations and dead letters are
  known to one process and lost with it; priorities are not looked at (test 3.8).

Actions:

- two refunds of one order under different keys are both found eligible before
  either is inserted, and together exceed its total (actionTools.ts:91,
  policyTools.ts:98);
- two calls with one key both pass the idempotency check and both ship a
  replacement; the tables have no constraint that would stop the second
  (actionTools.ts:212, RELEASE_READINESS.md:89);
- a replacement writes a stock computed from a stale read (actionTools.ts:238), so
  two replacements at once take one unit from the stock;
- a refund whose commit was not acknowledged is recorded as failed under its key,
  and its repetition is refused from that record, although the money was paid
  (tools/base.ts:107, tests/postgresql_integration.test.ts:824);
- the ground-truth check of a retry looks for a key as a part of recorded text, and
  finds a coupon given under K-replan-1 when asked about the refund K
  (agentStateRepository.ts:580, retryPolicy.ts:136);
- `checkIdempotency` does not compare the tool's name, and a resumed run always
  uses the key `resume-{runId}` (AgentOrchestrator.ts:933), so a recorded failure
  answers every later resume;
- RELEASE_READINESS.md:74 speaks of a unique `ActionRecord.actionKey`; the schema
  has none.

The life of a run:

- reconcile never recognises a run that waits for a human, since rows store
  ACTION_PENDING (agentStateRepository.ts:600), and escalates or completes it;
  a reconcile that overlaps a call overwrites COMPLETED with ESCALATED;
- `resumeRun` gives consents a default approval token, and a consent given to a run
  that waits for an approval counts as one; a manager's approval of a substitution
  counts as the customer's consent (AgentOrchestrator.ts:928, README.md:81);
- `resumeRun`'s fallback escalation asks the guard for a transition from
  TOOL_EXECUTION that its table lacks, and throws (AgentOrchestrator.ts:1078); what
  the executor withholds leaves the row at TOOL_EXECUTION; replanning writes
  DECISION_FORMULATION, which the guard does not know there;
- two calls of the orchestrator on one run overlap (a second answer in the process
  that executes the job, the synchronous route, two jobs of one run): an approval that
  was taken before a refusal was written is carried out beside it, and may make the
  run wait again (executionCoordinator.ts:196-209);
- `run` with an existing run's id asks for no final status;
- the count of replans is read and written in two statements, and a write that
  fails is forgotten, so the limit may not bite;
- the one-agent routes look at no row and take no lease: a refused or completed
  run can be acted on by a service or an administrator; `RejectionHolds` speaks of the
  orchestrator's calls, and of those that were not in flight when the refusal came;
- `CaseManager.mapStatus` compares with statuses no row has, so a waiting case shows
  its ticket's status.

Decisions:

- the approvals that policies ask of cancellations are not looked at;
- without an order, a refund goes to the default order `ord-phone-24999` over 24999
  and a replacement to a default product;
- the fallback refunds on messages that ask for a coupon, information or nothing
  that can be resolved;
- `checkPolicy` throws when only partly matching policies exist;
- a run that is resumed reads its message anew, in another way if the AI fails or
  its budget is used up, so that an answer may have been given to another
  decision;
- the confidence that the output validator lowers is ignored, since the classifier
  looks at the AI's own;
- the investigation's eligibility check reads the current headers, the engine the
  versions pinned to the run.

Notifications:

- a row that is SENDING when its process dies is never tried again, nor is a QUEUED
  one whose dispatcher died or whose attempts are used up;
- a retry that has read FAILED puts back a row that was sent meanwhile, and it is
  delivered twice (notificationDispatcher.ts:17: "exactly-once per run/event");
- a second pause of a run for an approval is the first one's idempotency hit;
- a row whose run could not be stored gets another key when it is retried.

Policies:

- two activations at READ COMMITTED each miss the version the other is about to make
  active, and both stay ACTIVE; a retirement that saw another active version, or an
  activation that overlaps one, can leave an ACTIVE version under an inactive header, which
  `getActivePolicies` does not find (policyRepository.ts:465-506, 559-582, without an
  isolationLevel);
- an approval or a submission that read earlier demotes a version that was
  activated meanwhile; an activation in flight makes a retired version ACTIVE again;
  an edit may land after the submission; two creations of one key both succeed;
- rolling back activates a retired version that was never approved
  (policyRepository.ts:626), and a death in it leaves a RETIRED version APPROVED;
- with no version in effect every active header applies; retiring the draft of a
  policy without active versions deactivates the policy;
- a pin that cannot be read is replaced by the default tenant's current policies.

Integrations:

- `err.isUnknownOutcome ?? (status >= 500)` never falls through, so a 5xx after an
  effect is recorded as FAILED (HttpPaymentAdapter.ts:92), and so is a timeout
  followed by a 4xx;
- 301, 302 and 303 turn a POST into a GET whose 200 counts as success; `CompletedWasDone` excepts these;
- the fakes remember a simulated failure under its key for good, and `setMode` makes
  them forget everything;
- results of calls that began before the breaker opened count as probes in HALF_OPEN;
- the client's timeout does not cover reading the body; a read with a mutation's
  context shares its idempotency key;
- verification of shipping, CRM, messages and stock returns true without evidence
  (INTEGRATIONS.md:16); a second refund is verified by the first, and over HTTP the
  amount is not compared.

Limiters and budgets:

- `DistributedRateLimiter` is in the memory of a process, although its header claims
  restarts and several instances; a dimension type that has no configuration of its own
  gets DEFAULT_API, and the four types of its signature have none
  (distributedRateLimiter.ts:58, :62; test 14.6 passes the name of a configuration
  instead);
- `RateLimiter` still refuses at the `resetTime` it names (`now > resetTime`,
  rateLimiter.ts:24), so `WaitSuffices` speaks of the sliding window only;
- `consumeTokens` and `acquireRunSlot` have different default limits, and a request
  larger than the bucket is never admitted;
- run slots, the AI budgets of `aiResourceGovernance.ts` with the router that asks them,
  `consumeTokens`, `checkLimit`, `recordTenantActivity`, the retry classification and both
  pressure controllers are asked by nothing in `src/` before it acts (`server.ts:1795` is
  a GET that reads a budget).

## 4. What is proved

`ExecutionStoreProofs`, for any sets of runs, keys and workers, any number of
jobs and claims, any lease duration and any age of timestamps, from
`NoneAssumption` (NULL is no worker, run, key or number) and `BoundsAssumption`
(the bounds are natural numbers):

- `StoreTypeCorrect`: `TypeOK` is inductive. It is proved, and not run.
- `StoreLeaseOwnership`: a RUNNING row's worker is the grantee of its generation
  and has a lease; idle rows have none; no generation above the current one has
  been granted. Inductive together with `TypeOK`; the last conjunct is what makes
  the grant of `gen + 1` new.
- `StoreLiveLeaseNotStolen`: a claim of a RUNNING row needs `left < -age`, so
  none succeeds while `left >= 0`, however old the claimant's timestamp.
- `StoreGenerationGrantedOnce`: from the last conjunct of `LeaseOwnership`.
- `StoreImplementsFencedLease`: every statement is a step or a stutter of
  `FencedLease` under the mapping at the end of `ExecutionStore`.

`ExecutionCoordinatorProofs`, for any workers, calls in flight, routes, attempts and
requests as well, from the same assumptions:

- `CoordinatorTypeCorrect`: `TypeInv` adds to the type that a call knows the arguments
  of the statement it awaits (`Prepared`): the reads come before the writes on every
  path.
- `CoordinatorUsesStore`: hence each step is a statement of the store with arguments of
  its type, or leaves the table alone. This carries every theorem about the store over
  to the processes; `CoordinatorImplementsLease` is one.
- `HeartbeatsEnd`, `CapacityComesBack`: a step of a call leaves its worker's maps alone
  (`Quiet`), starts one execution (`Starts`) or ends one (`Ends`), and an execution
  that ends takes timer and map entry along, for every execution of the job by that
  worker. So what a map names is being executed (`MapsInv`).
- `OutcomesFenced`: `RowStep` says what a call can do to a row: create it, claim it, or
  give it an outcome with the generation it was handed; what an executor writes also asks
  for the row's worker, who is the grantee of its generation by `LeaseOwnership`. Two
  workers may execute one generation (section 3); the theorem says that only the one it
  was granted to has its outcome taken, with any stalls, failures and routes.
- `RecoveryStaysWithin`: a recovery loop never makes a generation past `maxAttempts`. The
  loop compares `maxAttempts` with the row it scanned, which may be old; `Within` says
  that its claim carries the generation it scanned and is below the limit, and the
  UPDATE's own comparison of generations does the rest (`ClaimsWithinStep`).

`ActionExecutionProofs`, for any calls, keys, orders, requests, key texts, stock
and number of tries, from `RequestAssumption`, `AmountAssumption` and
`NoneAssumption`:

- `TypeCorrect`, `RefundsBooked`, `FailureIsClean` and `ExecutedIsBacked` are the
  four invariants of `actions`. None is inductive alone. `IInv` adds: what a stage
  says of a call's locals (`Begun`; that a replacement about to commit has seen
  stock is why the stock stays a natural number); that a try has no record before
  it commits (`Unspent`; two commits never write the same record); that a success
  held by a call or recorded in a ToolExecution names a committed action
  (`Backed`); that a record's kind and key were asked for together (`FromRequest`); and
  where the call of a committed action can be (`Accounted`, which is why FAILED cannot
  follow a commit unless its acknowledgement was lost).
  `TableStep` says once what a step can do to the records: nothing, mark one, or
  create one.
- `Refinement`: refunds implement `OnceLedger`, for any keys. What confirms a refund
  is a record of its own key or of one whose text contains it, which `OnceLedger` calls
  `Vouches`: that a replan's coupon confirms a refund is part of what is promised, since
  the code does it (section 3). What the abstract ledger excludes is a second refund of
  a key, and a confirmation with nothing behind it.

`DurableQueueProofs`, for any workers, clients, runs, jobs, crashes and cancellations, from
the store's assumptions and `QueueAssumption`:

- `HeldByTheNewest` and `DoneStays` are proved together, each being needed for the other:
  `Inv` adds that a generation has made nothing of a job before it is granted
  (`NotAhead`) and that a job without a row was never claimed (`Unclaimed`). A statement
  either ends nothing, and then leaves generation and status alone or makes a new claim,
  or it carries the row's worker and generation, and then it is recorded in `ended`.
  A claim needs a status that is not final, or a lease that ran out on a RUNNING row.

`AgentRunProofs`, for any runs, calls and limits, from `RunAssumption`:

- `TypeCorrect`: `RunTypeOK` with `RowExists` (a call names a run that has a row).
- `RefusalHolds`: with any overlap, an orchestrating call on a run whose refusal stands
  is one that was in flight when the refusal was written. `RInv` adds that a refused row
  waits for no one, and where the calls that are not the orchestrator's can be; a call
  that could make the row wait again is late (`OnlyPauses`), and then the refusal no
  longer stands.
- `VerifiedBeforeResolved`: with any overlap, resolved means verified. `VInv` adds
  that the ticket is only closed with a verified action (`TicketVerified`) and what
  a call about to complete its run has seen (`Knows`).

`PolicyProofs`, about `PolicyGovernance`, for any policies, legacy ones included, from
`PolicyAssumption`:

- `TypeCorrect`, `OneActive`, `ActiveFound`: with any number of open transactions, whose
  statements interleave. `IInv` adds that a version has a header (`Rooted`), that what a
  call has read and is about to write refers to rows that are there (`Grounded`), and
  that what an open transaction saw of the other versions is still so unless another one
  committed meanwhile (`Informed`). That nothing is removed (`Grows`) is what keeps a
  call's reading from going stale altogether. The theorems except a policy that an outrun
  transaction has written (`muddled`): there two versions do stay ACTIVE, until an
  activation that is not outrun.
- `PoliciesKept`: the action property, from `UsedIsPinned`.
- `SubmittedForGood`: a submitted version never becomes a draft again and keeps its
  approval. By `Grounded` a call that writes a status writes it to a row that exists; a
  draft is only written where there is no row (`Forward`).

and about `Decisions`, for any messages, amounts, totals, sets of policies, limit and
answers of the AI, from `DecisionAssumption` (a policy's priority is a natural number,
as `validateDefinition` makes it, and NULL is no product):

- `GatesAlwaysAgree`, `RiskyRefundsWait` and `WishesRespected` are the three invariants
  of `decisions`. None is inductive: each needs what the engine's decision guarantees
  whatever the facts (`Decides`). `CInv` adds that a decision which was taken is about
  the facts and the intent of the case now (`DecidedOnFacts`, also after a replan and
  an answer), that what is about to be carried out lacks no answer (`Cleared`), and
  that what was carried out is what was decided (`DoneAsDecided`).
- They rest on lemmas about the operators: every candidate list contains every action
  that can be asked for and a human who may always be handed the case, and the lists
  have the shape `Sound` states (`CandidatesSound`); the sort finds a candidate
  (`SelectedIsCandidate`, from the well-foundedness of the natural numbers); and the
  candidate the executor looks up never asks for an approval the decision does not ask
  for, nor for the consent that only the recovery's substitution asks for
  (`DecideDecides`), because the replacement that is out of stock comes before its
  substitute in the list.

`NotificationsProofs`, for any events, calls, attempts and retries, from
`NotificationAssumption`:

- `TypeCorrect`, `ResolutionProved`, `SentDelivered`, `TriesAreBounded`: `Inv` adds
  what each stage of a call knows (`CallOK`: a call past the gate had a completed run
  and evidence, a call past the delivery has delivered) and `Budget`, which counts the
  attempts that retries have given back; `TriesBounded` itself is not inductive,
  since a retry resets the row's attempts.

`BoundaryProofs`, about `Integrations` for any calls, keys, stock, retries and
redirects, and any set of operations the adapter has, from `ThresholdAssumption`
(the breaker's thresholds are positive), `IntegrationAssumption` (the bounds are natural
numbers) and `NoStatusAssumption` (NULL is no outcome and no status):

- `IntegrationTypeCorrect`, `EffectsOnce`, `CompletionIsTrue` and `VerificationIsTrue`
  are the four invariants of `integrations`, from one invariant, `EffectInv`. What
  was done is what the fake or the provider remembers (`MemoryOK`): in the sandbox an
  operation without a memory was not carried out, over HTTP a key was seen exactly if
  it was. What a call reports and a row records was carried out, or was redirected
  (`CallsOK`, `RowsOK`). What the provider holds says which operations were carried
  out (`ProviderInv`), and an order that was cancelled and a refund that was paid stay
  so (`Stable`), which is why a verification stays true.
- `BreakerIsSound`: the breaker opens and closes only after its threshold of outcomes
  in a row. Its counters are at most the length of the present row of failures or
  successes (`Counts`), although they also count outcomes of calls that began in another
  state.

About `AdmissionControl`, for any number of callers and any limits, from
`AdmissionAssumption`:

- `RatesHold` and `WaitsSuffice`, from `RateInv`, which relates each limiter to the
  history of what it let through. What passed since a record was made is what it
  counted, so two records' worth is the most a window sees (`RecordInv`). The timestamps
  are those of the admitted requests, and of those that were there at a refusal fewer
  than the limit remain once the oldest has left (`WindowInv`). What was spent before
  the last refill and what the bucket holds do not exceed what it held and what flowed in
  (`BucketInv`). The assumption that the two request limits are positive is needed: a
  new record admits its first request unchecked, so a limit of zero would let it pass.

## 5. What is only model-checked

- `CallsEnd` is liveness, which is out of the prover's reach, as is `ENABLED`.
- `ClaimsBounded`: with several jobs, or the asynchronous route, whose poll comes back for
  jobs the same worker still executes, the bound does not hold in this form, and a proof
  for one job alone would say little more than the run does. What binds each takeover,
  for any number of jobs, is `RecoveryStaysWithin`.
- `HighRefundAnswered` does not hold; the run shows it.

Every other invariant and action property that a run checks is stated by a theorem of
section 4, without hypotheses about the instance.

## 6. Abstractions all modules share

Texts, prices in full, wording, traces, logs and metrics are left out. An identity is a
model value. A database statement is atomic, as are the `$transaction`s of the tools and that of createPolicy, which read nothing that
another writes: what the tools go by, they read before. Those of activateVersion and
retireVersion read what another may be changing, and are modelled statement by
statement. The code between two awaits is not interrupted. Where a caught error is forgotten, the action has a
disjunct in which nothing is written. FailureInjector does nothing outside tests.
Counters that only grow are bounded by a named constant (`Max...`), in the guards of
the actions that would go beyond. History variables (grantee, ended, rejected, late, outrun,
muddled, lost, tries, delivered, done, passed and their like) are read by properties and bounds, not by the
code's guards.

## 7. What is not modelled

- Run slots, the AI budgets of `aiResourceGovernance.ts`, the model router that asks
  them, the retry classification and backpressure: nothing in `src/` asks them before it
  acts, and a model would have to invent who does. The budget that is enforced, the
  number of AI calls of a run (`AIService.ts:33-54`), is read, raised and compared in one
  synchronous step before the call, so within a process it holds by construction; it is
  in memory, so a run that goes on in another process has its allowance again.
- Incidents: no step of the workflow reads them. The code has hazards of its own here: an
  incident is created if a read finds no open duplicate, without a lock, so two may be
  created; a transition is read, checked and written, so of two at once one is lost and
  a CLOSED incident may be overwritten; its timeline is read, extended and written back.
- The read-only API: summaries, timelines, lists, diffs, previews and metrics of every
  component. They format what they read. So are `sendNotification` and
  `updateTicket` of the tools, which no agent runs.
- `PolicyEngine.evaluateAndPin`, `forceState` of the breaker and the change of mode
  at run time, which only tests call.
- Authentication and request security; AI providers, prompts and guardrails, of which
  `Decisions` keeps the possible answers; observability; the user interface;
  evaluation and test support; the generated database client.
