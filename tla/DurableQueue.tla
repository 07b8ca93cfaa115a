----------------------------- MODULE DurableQueue -----------------------------
(***************************************************************************)
(* DurableWorkQueue over the ExecutionJob table.  No code of the repository *)
(* drives the queue, so its callers are arbitrary: clients submit runs at   *)
(* any time, a worker claims whenever it likes, and whoever has been given  *)
(* a job and its generation may renew, acknowledge or reject it at any      *)
(* time, more than once and in any order.  Every statement may fail, and    *)
(* every reply may be lost after its statement has taken effect.            *)
(*                                                                         *)
(* The dead letters and the cancellations are in the memory of a process;   *)
(* the rest are statements of ExecutionStore, and one of the queue's own.   *)
(***************************************************************************)
EXTENDS ExecutionStore, Functions
CONSTANTS
  Client,      \* who enqueues and requeues
  Named,       \* Named[j]: the run that has the id of the job j
  MaxEvents,   \* bound: crashes and cancellations of one behaviour
  Disturbed    \* bound: the processes they happen in

ASSUME QueueAssumption ==
  Named \in [JobId -> Run] /\ MaxEvents \in Nat

VARIABLES
  entry,     \* entry[c]: what the enqueue of the client c is at
  call,      \* call[w]: what the claim of the worker w is at
  hands,     \* hands[w]: the jobs, with their generations, that claims of w returned
  dead,      \* dead[w]: deadLetterQueue of the process w
  cancelled, \* cancelled[w]: canceledJobs of the process w
  ended,     \* ended[j][g]: what statements of the generation g made of j (history)
  events     \* crashes and cancellations so far (history)

memory == <<dead, cancelled, events>>
vars == <<storeVars, entry, call, hands, memory, ended>>

Outcome == {"completed", "failed", "requeued"}

Idle == [pc |-> "idle"]
At(w, pc) == call[w].pc = pc
Becomes(w, c) == call' = [call EXCEPT ![w] = c]
Asks(c, e) == entry' = [entry EXCEPT ![c] = e]

Init ==
  /\ StoreInit
  /\ entry = [c \in Client |-> Idle]
  /\ call = [w \in Worker |-> Idle]
  /\ hands = [w \in Worker |-> {}]
  /\ dead = [w \in Worker |-> {}]
  /\ cancelled = [w \in Worker |-> {}]
  /\ ended = [j \in JobId |-> [g \in Generation |-> {}]]
  /\ events = 0

-----------------------------------------------------------------------------
(* enqueue: the newest job of the run answers a repeated key; otherwise it is  *)
(* enqueueJob of the store.  The row of a run that has none is left out.       *)

JobsOf(r) == {j \in JobId : job[j].run = r}
Repeated(r, k) ==
  k # None /\ \E j \in JobsOf(r) : job[j].key = k /\ \A i \in JobsOf(r) : i <= j

CallEnqueue(r, k) == [pc |-> "find", run |-> r, key |-> k]

Enqueue(c, r, k) ==
  /\ entry[c] = Idle
  /\ ~Repeated(r, k)
  /\ Asks(c, CallEnqueue(r, k))
  /\ UNCHANGED <<storeVars, call, hands, memory, ended>>

EnqueueFind(c) ==
  /\ entry[c].pc = "find"
  /\ Asks(c, IF KeyTaken(entry[c].key) \/ ActiveJobsOf(entry[c].run) # {} THEN Idle
             ELSE [entry[c] EXCEPT !.pc = "create"])
  /\ UNCHANGED <<storeVars, call, hands, memory, ended>>

\* MaxJobs is a bound.
EnqueueCreate(c) ==
  /\ entry[c].pc = "create"
  /\ \E j \in JobId, r \in Run, k \in Key \cup {None} :
       r = entry[c].run /\ k = entry[c].key /\ Create(j, r, k)
  /\ Asks(c, Idle)
  /\ UNCHANGED <<call, hands, memory, ended>>

\* A taken key is answered with the job that has it; a failure is thrown.
EnqueueEnds(c) ==
  /\ entry[c] # Idle
  /\ Asks(c, Idle)
  /\ UNCHANGED <<storeVars, call, hands, memory, ended>>

-----------------------------------------------------------------------------
(* claim *)

\* acquireNextJobAtomically: the candidates and their generations ...
Scan(w, age) ==
  /\ At(w, "idle")
  /\ Becomes(w, [pc |-> "try", found |-> [j \in Candidates(age) |-> job[j].gen]])
  /\ UNCHANGED <<storeVars, entry, hands, memory, ended>>

\* ... are tried in their order.  The reply of the grant may be lost.
Try(w, j, age) ==
  /\ At(w, "try")
  /\ LET f == call[w].found IN
       /\ j \in DOMAIN f /\ \A i \in DOMAIN f : j <= i
       /\ \/ /\ ClaimLease(j, w, f[j], age)
             /\ Becomes(w, [pc |-> "read", job |-> j]) \/ Becomes(w, Idle)
          \/ /\ ~Claimable(j, f[j], age) \/ f[j] = MaxGeneration
             /\ Becomes(w, [pc |-> "try", found |-> [i \in DOMAIN f \ {j} |-> f[i]]])
             /\ UNCHANGED storeVars
  /\ UNCHANGED <<entry, hands, memory, ended>>

\* The claimed row is read again, whoever has it by then, and given to the
\* caller; a job that was cancelled in this process is acknowledged instead.
Read(w, j) ==
  /\ At(w, "read") /\ call[w].job = j
  /\ IF j \in cancelled[w]
       THEN Becomes(w, [pc |-> "ack", job |-> j, gen |-> job[j].gen]) /\ UNCHANGED hands
       ELSE Becomes(w, Idle) /\ hands' = [hands EXCEPT ![w] = @ \cup {<<j, job[j].gen>>}]
  /\ UNCHANGED <<storeVars, entry, memory, ended>>

\* Nothing was found, or a statement failed.
ClaimEnds(w) ==
  /\ ~At(w, "idle")
  /\ Becomes(w, Idle)
  /\ UNCHANGED <<storeVars, entry, hands, memory, ended>>

Cancel(w, j) ==
  /\ job[j].status # "ABSENT"
  /\ w \in Disturbed /\ events < MaxEvents
  /\ events' = events + 1
  /\ cancelled' = [cancelled EXCEPT ![w] = @ \cup {j}]
  /\ UNCHANGED <<storeVars, entry, call, hands, dead, ended>>

-----------------------------------------------------------------------------
(* heartbeat, acknowledge and reject; one that fails or matches no row changes *)
(* nothing.                                                                    *)

Ends(j, g, o) == ended' = [ended EXCEPT ![j][g] = @ \cup {o}]

Heartbeat(w, j, g, age) ==
  /\ <<j, g>> \in hands[w]
  /\ RenewLease(j, w, g, age)
  /\ UNCHANGED <<entry, call, hands, memory, ended>>

Acknowledge(w, j, g) ==
  /\ <<j, g>> \in hands[w]
  /\ MarkCompleted(j, w, g) /\ Ends(j, g, "completed")
  /\ UNCHANGED <<entry, call, hands, memory>>

\* claim's own acknowledgement of a cancelled job.
Discard(w, j, g) ==
  /\ At(w, "ack") /\ call[w].job = j /\ call[w].gen = g
  /\ MarkCompleted(j, w, g) /\ Ends(j, g, "completed")
  /\ Becomes(w, Idle)
  /\ UNCHANGED <<entry, hands, memory>>

\* Mutant: the generation is not compared.
RequeueOfWorker(j, w, g) ==
  /\ job[j].worker = w
  /\ job' = [job EXCEPT ![j] = [@ EXCEPT !.status = "QUEUED", !.left = None]]
  /\ UNCHANGED grantee

\* The statement of a transient failure: its WHERE asks for no status, so that
\* it also queues a job its holder has completed or given up.
RequeueTransient(j, w, g) ==
  /\ job[j].worker = w /\ job[j].gen = g
  /\ job' = [job EXCEPT ![j] = [@ EXCEPT !.status = "QUEUED", !.left = None]]
  /\ UNCHANGED grantee

RejectTransient(w, j, g) ==
  /\ <<j, g>> \in hands[w]
  /\ RequeueTransient(j, w, g) /\ Ends(j, g, "requeued")
  /\ UNCHANGED <<entry, call, hands, memory>>

\* A permanent failure is a dead letter, whether or not the job was still the
\* worker's, unless the statement throws; it may do so after it took effect.
RejectPermanent(w, j, g) ==
  /\ <<j, g>> \in hands[w]
  /\ \/ /\ MarkFailed(j, w, g) /\ Ends(j, g, "failed")
        /\ UNCHANGED dead \/ dead' = [dead EXCEPT ![w] = @ \cup {j}]
     \/ /\ ~FailMatches(j, w, g) /\ UNCHANGED <<storeVars, ended>>
        /\ dead' = [dead EXCEPT ![w] = @ \cup {j}]
  /\ UNCHANGED <<entry, call, hands, cancelled, events>>

\* requeue forgets the dead letter and then enqueues the run that has the id of
\* the job, under a key of its own.
Requeue(c, w, j) ==
  /\ entry[c] = Idle
  /\ j \in dead[w]
  /\ dead' = [dead EXCEPT ![w] = @ \ {j}]
  /\ Asks(c, CallEnqueue(Named[j], None))
  /\ UNCHANGED <<storeVars, call, hands, cancelled, ended, events>>

\* A generation that was handed out remains known: statements that were sent
\* arrive, and a worker's id is an argument.
Crash(w) ==
  /\ w \in Disturbed /\ events < MaxEvents
  /\ events' = events + 1
  /\ dead' = [dead EXCEPT ![w] = {}]
  /\ cancelled' = [cancelled EXCEPT ![w] = {}]
  /\ Becomes(w, Idle)
  /\ UNCHANGED <<storeVars, entry, hands, ended>>

Pass == Tick /\ UNCHANGED <<entry, call, hands, memory, ended>>

-----------------------------------------------------------------------------
Submitting ==
  \E c \in Client :
    \/ \E r \in Run \ Range(Named), k \in Key \cup {None} : Enqueue(c, r, k)
    \/ EnqueueFind(c) \/ EnqueueCreate(c) \/ EnqueueEnds(c)
    \/ \E w \in Worker, j \in JobId : Requeue(c, w, j)

Working ==
  \E w \in Worker :
    \/ ClaimEnds(w) \/ Crash(w)
    \/ \E age \in Age : Scan(w, age)
    \/ \E j \in JobId :
         \/ Read(w, j) \/ Cancel(w, j)
         \/ \E age \in Age : Try(w, j, age)
         \/ \E g \in Generation :
              \/ \E age \in Age : Heartbeat(w, j, g, age)
              \/ Acknowledge(w, j, g) \/ Discard(w, j, g)
              \/ RejectTransient(w, j, g) \/ RejectPermanent(w, j, g)

Next == Pass \/ Submitting \/ Working

Spec == Init /\ [][Next]_vars

-----------------------------------------------------------------------------
(* Properties *)

\* Whatever displaced holders, clients and an operator do, a job that was claimed
\* stays with its newest claim until a statement of that claim's own generation
\* completes, fails or requeues it.
HeldUntilFinished ==
  \A j \in JobId :
    job[j].gen > 0 /\ ended[j][job[j].gen] = {} => job[j].status = "RUNNING"

\* A job that was completed or failed is never claimed or queued again, unless the
\* claim that closed it rejects it as transient afterwards (whose WHERE asks no
\* status): no stale candidate, late statement or requeued dead letter reopens it.
DoneStaysDone ==
  \A j \in JobId, g \in Generation :
    ended[j][g] # {} /\ "requeued" \notin ended[j][g] =>
      job[j].gen = g /\ job[j].status \in Terminal
=============================================================================
