----------------------- MODULE ExecutionCoordinatorProofs -----------------------
(***************************************************************************)
(* Proofs about the worker processes, for every number of workers, calls   *)
(* in flight, runs and jobs.                                               *)
(***************************************************************************)
EXTENDS ExecutionCoordinator, ExecutionStoreProofs

USE DEF counts

-----------------------------------------------------------------------------
(* Types, and what a call has read by the time it awaits a statement. *)

\* The arguments of the statement a call awaits are known.
Prepared(c) ==
  /\ c.pc \in {"direct", "enqueueFind", "enqueueCreate"} => c.run \in Run
  /\ c.pc \in {"enqueueFind", "enqueueCreate"} =>
       c.why \in {"runSync", "runAsync", "resume", "waited", "finished"}
  /\ c.pc \notin {"idle", "direct", "enqueueFind", "enqueueCreate"} => c.job \in JobId
  /\ c.pc \in ExecutePc \cup RecoverPc \cup {"claimUpdate", "directMark"} =>
       c.gen \in Generation
  /\ c.pc = "directMark" => c.owner \in Worker

PreparedCall == {c \in Call : Prepared(c)}

\* The type invariant with what makes it inductive.
TypeInv ==
  /\ CoordinatorTypeOK
  /\ \A p \in Proc : Prepared(proc[p])
  /\ \A w \in Worker, j \in JobId : beat[w][j] # NoBeat => beat[w][j].gen \in Generation

LEMMA IdlePrepared == Idle \in PreparedCall
  BY NoneAssumption, BoundsAssumption
  DEF Idle, PreparedCall, Prepared, Call, Pc, DirectPc, ClaimPc, ExecutePc, RecoverPc, Age

LEMMA WorkerOfType == \A p \in Proc : WorkerOf(p) \in Worker
  BY DEF Proc, WorkerOf

LEMMA SnapshotsType ==
  ASSUME TypeOK, NEW jobs \in SUBSET JobId
  PROVE  SnapshotsOf(jobs) \in SUBSET Snapshot
  BY DEF SnapshotsOf, Snapshot, TypeOK, Row

\* A call that turns to the next stale job, or ends, is prepared.
LEMMA ToNextStalePrepared ==
  ASSUME NEW p \in Proc, NEW todo \in SUBSET Snapshot, ToNextStale(p, todo)
  PROVE  \E c \in PreparedCall : Becomes(p, c) /\ c.pc \in {"idle", "recoverInspect"}
<1>1. CASE todo = {}
  BY <1>1, IdlePrepared DEF ToNextStale, Idle
<1>2. CASE todo # {}
  <2>1. PICK s \in todo :
          Becomes(p, [Idle EXCEPT !.pc = "recoverInspect", !.why = "recover",
                                  !.job = s.job, !.gen = s.gen, !.owner = s.owner,
                                  !.todo = todo \ {s}])
    BY <1>2 DEF ToNextStale
  <2>2. s \in Snapshot /\ todo \ {s} \in SUBSET Snapshot
    OBVIOUS
  <2>3. [Idle EXCEPT !.pc = "recoverInspect", !.why = "recover",
                     !.job = s.job, !.gen = s.gen, !.owner = s.owner,
                     !.todo = todo \ {s}] \in PreparedCall
    BY <2>2, IdlePrepared
    DEF Snapshot, Idle, PreparedCall, Prepared, Call, Pc, RecoverPc, ExecutePc, DirectPc, ClaimPc
  <2>4. QED
    BY <2>1, <2>3 DEF Idle
<1>3. QED
  BY <1>1, <1>2

LEMMA ToNextCandidatePrepared ==
  ASSUME NEW p \in Proc, NEW todo \in SUBSET Snapshot, ToNextCandidate(p, todo)
  PROVE  \E c \in PreparedCall : Becomes(p, c) /\ c.pc \in {"idle", "claimRead"}
<1>1. CASE todo = {}
  BY <1>1, IdlePrepared DEF ToNextCandidate, Idle
<1>2. CASE todo # {}
  <2>1. PICK s \in todo :
          Becomes(p, [Idle EXCEPT !.pc = "claimRead", !.why = "poll", !.job = s.job,
                                  !.gen = s.gen, !.todo = todo \ {s}])
    BY <1>2 DEF ToNextCandidate
  <2>2. s \in Snapshot /\ todo \ {s} \in SUBSET Snapshot
    OBVIOUS
  <2>3. [Idle EXCEPT !.pc = "claimRead", !.why = "poll", !.job = s.job,
                     !.gen = s.gen, !.todo = todo \ {s}] \in PreparedCall
    BY <2>2, IdlePrepared
    DEF Snapshot, Idle, PreparedCall, Prepared, Call, Pc, RecoverPc, ExecutePc, DirectPc, ClaimPc
  <2>4. QED
    BY <2>1, <2>3 DEF Idle
<1>3. QED
  BY <1>1, <1>2

LEMMA ReturnPrepared ==
  ASSUME NEW p \in Proc, NEW c \in Call, Return(p, c)
  PROVE  \E d \in PreparedCall : Becomes(p, d) /\ d.pc \in {"idle", "recoverInspect"}
<1>1. c.todo \in SUBSET Snapshot
  BY DEF Call
<1>2. CASE c.why = "recover"
  BY <1>1, <1>2, ToNextStalePrepared DEF Return
<1>3. CASE c.why # "recover"
  <2>1. Becomes(p, Idle) /\ Idle.pc = "idle"
    BY <1>3 DEF Return, Idle
  <2>2. QED
    BY <2>1, IdlePrepared
<1>4. QED
  BY <1>2, <1>3

LEMMA NotAcquiredPrepared ==
  ASSUME NEW p \in Proc, NEW c \in Call, NotAcquired(p, c)
  PROVE  \E d \in PreparedCall :
           Becomes(p, d) /\ d.pc \in {"idle", "recoverInspect", "claimRead"}
  BY ToNextCandidatePrepared, ReturnPrepared DEF NotAcquired, Call

\* What one process remembers, and what it has scheduled.
MemoryType ==
  /\ active \in [Worker -> SUBSET JobId]
  /\ token \in [Worker -> [JobId -> Generation \cup {None}]]
  /\ timer \in [Worker -> [JobId -> Generation \cup {None}]]

\* Starting an execution leaves the call and the maps well-formed.
LEMMA StartPrepared ==
  ASSUME NEW p \in Proc, NEW c \in Call, c.job \in JobId, MemoryType,
         NEW act \in SUBSET JobId, NEW tok \in [JobId -> Generation \cup {None}],
         NEW g \in Generation, Start(p, c, act, tok, g)
  PROVE  /\ MemoryType'
         /\ \E d \in PreparedCall :
              Becomes(p, d) /\ d.pc = "execRead" /\ d.job = c.job /\ d.gen = g
<1> DEFINE d == [c EXCEPT !.pc = "execRead", !.gen = g, !.age = 0,
                          !.why = IF @ = "async" THEN None ELSE @]
<1>1. d \in PreparedCall
  <2>1. "execRead" \in Pc /\ 0 \in Age
    BY BoundsAssumption DEF Pc, ExecutePc, Age
  <2>2. d \in Call
    BY <2>1 DEF Call
  <2>3. d.pc = "execRead" /\ d.job = c.job /\ d.gen = g
    BY DEF Call
  <2>4. QED
    BY <2>2, <2>3 DEF PreparedCall, Prepared
<1>2. Becomes(p, d) /\ d.pc = "execRead" /\ d.job = c.job /\ d.gen = g
  BY DEF Start, Call
<1>3. act \cup {c.job} \in SUBSET JobId
  OBVIOUS
<1>4. \A w \in Worker : [timer[w] EXCEPT ![c.job] = g] \in [JobId -> Generation \cup {None}]
  BY DEF MemoryType
<1>5. MemoryType'
  BY <1>3, <1>4, WorkerOfType DEF Start, MemoryType
<1>6. QED
  BY <1>1, <1>2, <1>5

\* So does the first part of executeJobLocally.
LEMMA ExecutePrepared ==
  ASSUME NEW p \in Proc, NEW c \in Call, c.job \in JobId, MemoryType,
         NEW act \in SUBSET JobId, NEW tok \in [JobId -> Generation \cup {None}],
         Execute(p, c, act, tok)
  PROVE  /\ MemoryType'
         /\ \E d \in PreparedCall :
              /\ Becomes(p, d)
              /\ \/ /\ c.job \in act
                    /\ d.pc = "execRead" /\ d.job = c.job /\ d.gen = tok[c.job]
                    /\ Start(p, c, act, tok, tok[c.job])
                 \/ /\ d.pc \in {"claimRead", "idle", "recoverInspect"}
                    /\ mode[WorkerOf(p)] # "up" \/ ~(c.job \in act /\ tok[c.job] # None)
                    /\ active' = [active EXCEPT ![WorkerOf(p)] = act]
                    /\ token' = [token EXCEPT ![WorkerOf(p)] = tok]
                    /\ timer' = timer
<1>1. CASE /\ mode[WorkerOf(p)] = "up" /\ c.job \in act /\ tok[c.job] # None
           /\ Start(p, c, act, tok, tok[c.job])
  <2>1. tok[c.job] \in Generation
    BY <1>1
  <2>2. QED
    BY <1>1, <2>1, StartPrepared
<1>2. CASE /\ mode[WorkerOf(p)] # "up" \/ ~(c.job \in act /\ tok[c.job] # None)
           /\ active' = [active EXCEPT ![WorkerOf(p)] = act]
           /\ token' = [token EXCEPT ![WorkerOf(p)] = tok]
           /\ UNCHANGED timer
           /\ IF mode[WorkerOf(p)] = "up"
                THEN Becomes(p, [c EXCEPT !.pc = "claimRead", !.gen = None, !.age = 0])
                ELSE Return(p, c)
  <2>1. MemoryType'
    BY <1>2, WorkerOfType DEF MemoryType
  <2> DEFINE d == [c EXCEPT !.pc = "claimRead", !.gen = None, !.age = 0]
  <2>2. "claimRead" \in Pc /\ 0 \in Age
    BY BoundsAssumption DEF Pc, ClaimPc, Age
  <2>3. d \in Call
    BY <2>2 DEF Call
  <2>4. d.pc = "claimRead" /\ d.job = c.job
    BY DEF Call
  <2>5. d \in PreparedCall
    BY <2>3, <2>4 DEF PreparedCall, Prepared, ExecutePc, RecoverPc
  <2> HIDE DEF d
  <2>6. \E e \in PreparedCall :
          Becomes(p, e) /\ e.pc \in {"claimRead", "idle", "recoverInspect"}
    <3>1. CASE Becomes(p, d)
      BY <2>4, <2>5, <3>1
    <3>2. CASE Return(p, c)
      BY <3>2, ReturnPrepared
    <3>3. QED
      BY <1>2, <3>1, <3>2 DEF d
  <2>7. QED
    BY <1>2, <2>1, <2>6
<1>3. QED
  BY <1>1, <1>2 DEF Execute

LEMMA CallPollType ==
  ASSUME NEW w \in Worker, polls \in [Worker -> BOOLEAN], CallPoll(w)
  PROVE  polls' \in [Worker -> BOOLEAN]
<1>1. (polls[w] \/ (mode[w] = "up" /\ Cardinality(active'[w]) < Concurrency)) \in BOOLEAN
  OBVIOUS
<1>2. QED
  BY <1>1 DEF CallPoll

\* A call that has its job executes it, polls, or marks it.
LEMMA EnqueuedPrepared ==
  ASSUME TypeInv, NEW p \in Proc, NEW j \in JobId,
         proc[p].pc \in {"enqueueFind", "enqueueCreate"}, Enqueued(p, j)
  PROVE  /\ MemoryType'
         /\ polls' \in [Worker -> BOOLEAN]
         /\ \E d \in PreparedCall : Becomes(p, d)
<1> DEFINE w == WorkerOf(p)
           c == [proc[p] EXCEPT !.job = j, !.run = None]
<1>t. /\ MemoryType /\ polls \in [Worker -> BOOLEAN]
      /\ proc[p] \in Call /\ w \in Worker
      /\ Prepared(proc[p])
  BY WorkerOfType DEF TypeInv, CoordinatorTypeOK, MemoryType
<1>c. c \in Call /\ c.job = j /\ c.why = proc[p].why
  BY <1>t DEF Call
<1>m. active[w] \in SUBSET JobId /\ token[w] \in [JobId -> Generation \cup {None}]
  BY <1>t DEF MemoryType
<1>1. c.why \in {"runSync", "runAsync", "resume", "waited", "finished"}
  BY <1>t, <1>c DEF Prepared
<1>2. CASE c.why \in {"runSync", "resume"}
  <2>1. Execute(p, c, active[w], token[w]) /\ UNCHANGED polls
    BY <1>2 DEF Enqueued
  <2>2. QED
    BY <2>1, <1>t, <1>c, <1>m, ExecutePrepared
<1>3. CASE c.why = "runAsync"
  <2>1. Becomes(p, Idle) /\ UNCHANGED memory /\ CallPoll(w)
    BY <1>3 DEF Enqueued
  <2>2. QED
    BY <2>1, <1>t, IdlePrepared, CallPollType DEF MemoryType, memory
<1>4. CASE c.why \in {"waited", "finished"}
  <2>1. Becomes(p, [c EXCEPT !.pc = "directRead"]) /\ UNCHANGED <<memory, polls>>
    BY <1>4 DEF Enqueued
  <2> DEFINE d == [c EXCEPT !.pc = "directRead"]
  <2>2. d \in Call
    BY <1>c DEF Call, Pc, DirectPc
  <2>3. d.pc = "directRead" /\ d.job = j
    BY <1>c DEF Call
  <2>4. d \in PreparedCall
    BY <2>2, <2>3 DEF PreparedCall, Prepared, ExecutePc, RecoverPc
  <2>5. QED
    BY <2>1, <2>4, <1>t DEF MemoryType, memory
<1>5. QED
  BY <1>1, <1>2, <1>3, <1>4

-----------------------------------------------------------------------------
(* Steps of a call: each is a statement of the store or leaves the table    *)
(* alone, and keeps the types.                                              *)

\* The statements that give a job an outcome.
OutcomePc == {"markWaiting", "markCompleted", "markFailed",
              "recoverComplete", "recoverFail", "directMark"}

CallStep(p) ==
  /\ [StoreNext]_storeVars
  /\ \E d \in PreparedCall : Becomes(p, d)
  /\ MemoryType'
  /\ polls' \in [Worker -> BOOLEAN]
  /\ UNCHANGED <<beat, mode>>
  /\ (run \in [Run -> RunStatus])'
  /\ (verified \in [Run -> BOOLEAN])'
  /\ (requests \in 0..MaxRequests)'
  /\ (faults \in 0..MaxFaults)'

\* What the step lemmas below use of the invariant.
LEMMA TypeInvFacts ==
  ASSUME TypeInv
  PROVE  /\ TypeOK /\ MemoryType
         /\ proc \in [Proc -> Call]
         /\ \A p \in Proc : proc[p] \in Call /\ Prepared(proc[p]) /\ proc[p] \in PreparedCall
         /\ polls \in [Worker -> BOOLEAN]
         /\ run \in [Run -> RunStatus]
         /\ verified \in [Run -> BOOLEAN]
         /\ requests \in 0..MaxRequests
         /\ faults \in 0..MaxFaults
  BY DEF TypeInv, CoordinatorTypeOK, MemoryType, PreparedCall

LEMMA RequestStep ==
  ASSUME TypeInv, NEW p \in Proc, NEW r \in Run, NEW route \in Route, Request(p, r, route)
  PROVE  CallStep(p)
<1> DEFINE d == [Idle EXCEPT !.pc = IF route = "direct" THEN "direct" ELSE "enqueueFind",
                             !.why = route, !.run = r]
<1>1. d \in Call /\ d.run = r /\ d.why = route
      /\ d.pc = IF route = "direct" THEN "direct" ELSE "enqueueFind"
  <2>1. Idle \in Call
    BY IdlePrepared DEF PreparedCall
  <2>2. (IF route = "direct" THEN "direct" ELSE "enqueueFind") \in Pc
    BY DEF Pc, DirectPc
  <2>3. route \in Route \cup {"waited", "finished", "async", "poll", "recover", None}
    OBVIOUS
  <2>4. QED
    BY <2>1, <2>2, <2>3 DEF Call
<1>2. d \in PreparedCall
  <2> HIDE DEF d
  <2>1. route \in {"runSync", "runAsync", "resume", "direct"}
    BY CoordinatorAssumption
  <2>2. d.pc \in {"direct", "enqueueFind"} /\ (d.pc = "enqueueFind" => d.why # "direct")
    BY <1>1
  <2>3. QED
    BY <1>1, <2>1, <2>2 DEF PreparedCall, Prepared, ExecutePc, RecoverPc
<1>3. Becomes(p, d) /\ requests < MaxRequests /\ requests' = requests + 1
      /\ UNCHANGED <<storeVars, memory, beat, polls, mode, business, faults>>
  BY DEF Request
<1>4. requests' \in 0..MaxRequests
  BY <1>3, TypeInvFacts, CoordinatorAssumption
<1>5. QED
  BY <1>2, <1>3, <1>4, TypeInvFacts DEF CallStep, MemoryType, memory, business

LEMMA DirectStep ==
  ASSUME TypeInv, NEW p \in Proc, Direct(p)
  PROVE  CallStep(p)
<1> DEFINE c == proc[p]
<1>t. c \in Call /\ Prepared(c)
  BY TypeInvFacts
<1>1. CASE DirectRun(p)
  <2>1. PICK s \in RunStatus \ {"ACTIVE"} :
          /\ run' = [run EXCEPT ![c.run] = s]
          /\ verified' = [verified EXCEPT ![c.run] = @ \/ s = "COMPLETED"]
          /\ Becomes(p, [c EXCEPT !.pc = "enqueueFind",
                           !.why = IF s = "WAITING" THEN "waited" ELSE "finished"])
    BY <1>1 DEF DirectRun
  <2> DEFINE d == [c EXCEPT !.pc = "enqueueFind",
                            !.why = IF s = "WAITING" THEN "waited" ELSE "finished"]
  <2>2. c.run \in Run
    BY <1>1, <1>t DEF DirectRun, Prepared
  <2>3. d \in Call /\ d.pc = "enqueueFind" /\ d.run = c.run /\ d.why \in {"waited", "finished"}
    BY <1>t DEF Call, Pc
  <2>4. d \in PreparedCall
    BY <2>2, <2>3 DEF PreparedCall, Prepared, ExecutePc, RecoverPc
  <2>5. verified' \in [Run -> BOOLEAN]
    BY <2>1, <2>2, TypeInvFacts
  <2>6. QED
    BY <1>1, <2>1, <2>4, <2>5, TypeInvFacts DEF DirectRun, CallStep, MemoryType, memory
<1>2. CASE DirectRead(p)
  <2>1. c.job \in JobId
    BY <1>2, <1>t DEF DirectRead, Prepared
  <2>2. job[c.job] \in Row
    BY <2>1, TypeInvFacts DEF TypeOK
  <2>3. CASE job[c.job].worker = None
    BY <1>2, <2>3, IdlePrepared, TypeInvFacts
    DEF DirectRead, CallStep, MemoryType, memory, business
  <2>4. CASE job[c.job].worker # None
    <3> DEFINE d == [c EXCEPT !.pc = "directMark", !.owner = job[c.job].worker,
                              !.gen = job[c.job].gen]
    <3>1. job[c.job].worker \in Worker /\ job[c.job].gen \in Generation
      BY <2>2, <2>4 DEF Row
    <3>2. d \in Call /\ d.pc = "directMark" /\ d.owner \in Worker /\ d.gen \in Generation
          /\ d.job = c.job
      BY <1>t, <3>1 DEF Call, Pc, DirectPc
    <3>3. d \in PreparedCall
      BY <2>1, <3>2 DEF PreparedCall, Prepared
    <3>4. Becomes(p, d)
      BY <1>2, <2>4 DEF DirectRead
    <3>5. QED
      BY <1>2, <3>3, <3>4, TypeInvFacts DEF DirectRead, CallStep, MemoryType, memory, business
  <2>5. QED
    BY <2>3, <2>4
<1>3. CASE DirectMark(p)
  <2>1. c.job \in JobId /\ c.owner \in Worker /\ c.gen \in Generation
    BY <1>3, <1>t DEF DirectMark, Prepared
  <2>2. [StoreNext]_storeVars
    BY <1>3, <2>1 DEF DirectMark, StoreNext
  <2>3. QED
    BY <1>3, <2>2, IdlePrepared, TypeInvFacts
    DEF DirectMark, CallStep, MemoryType, memory, business
<1>4. QED
  BY <1>1, <1>2, <1>3 DEF Direct

LEMMA EnqueueStep ==
  ASSUME TypeInv, NEW p \in Proc, Enqueue(p)
  PROVE  CallStep(p)
<1> DEFINE c == proc[p]
<1>t. c \in Call /\ Prepared(c)
  BY TypeInvFacts
<1>1. ASSUME NEW j \in JobId, c.pc \in {"enqueueFind", "enqueueCreate"}, Enqueued(p, j),
             [StoreNext]_storeVars, UNCHANGED <<beat, mode, business, counts>>
      PROVE  CallStep(p)
  BY <1>1, EnqueuedPrepared, TypeInvFacts DEF CallStep, business
<1>2. CASE EnqueueFind(p)
  <2>1. ASSUME NEW j \in ActiveJobsOf(c.run), Enqueued(p, j)
        PROVE  CallStep(p)
    BY <1>1, <1>2, <2>1 DEF EnqueueFind, ActiveJobsOf
  <2>2. CASE /\ Becomes(p, [c EXCEPT !.pc = "enqueueCreate"])
             /\ UNCHANGED <<memory, polls>>
    <3> DEFINE d == [c EXCEPT !.pc = "enqueueCreate"]
    <3>1. d \in Call /\ d.pc = "enqueueCreate" /\ d.run = c.run /\ d.why = c.why
      BY <1>t DEF Call, Pc
    <3>2. d \in PreparedCall
      BY <1>2, <1>t, <3>1 DEF EnqueueFind, PreparedCall, Prepared, ExecutePc, RecoverPc
    <3>3. QED
      BY <1>2, <2>2, <3>2, TypeInvFacts
      DEF EnqueueFind, CallStep, MemoryType, memory, business
  <2>3. QED
    BY <1>2, <2>1, <2>2 DEF EnqueueFind
<1>3. CASE EnqueueCreate(p)
  <2>1. PICK j \in JobId : Create(j, c.run, None) /\ Enqueued(p, j)
    BY <1>3 DEF EnqueueCreate
  <2>2. c.run \in Run
    BY <1>3, <1>t DEF EnqueueCreate, Prepared
  <2>3. StoreNext
    BY <2>1, <2>2 DEF StoreNext
  <2>4. QED
    BY <1>1, <1>3, <2>1, <2>3 DEF EnqueueCreate
<1>4. QED
  BY <1>2, <1>3 DEF Enqueue

LEMMA ClaimStep ==
  ASSUME TypeInv, NEW p \in Proc, Claim(p)
  PROVE  CallStep(p)
<1> DEFINE c == proc[p]
           w == WorkerOf(p)
<1>t. /\ c \in Call /\ Prepared(c) /\ w \in Worker
      /\ active[w] \in SUBSET JobId
      /\ token[w] \in [JobId -> Generation \cup {None}]
  BY TypeInvFacts, WorkerOfType DEF MemoryType
<1>j. c.pc \in ClaimPc => c.job \in JobId /\ job[c.job] \in Row
  BY <1>t, TypeInvFacts DEF Prepared, ClaimPc, TypeOK
<1>1. CASE ClaimRead(p)
  <2>0. c.job \in JobId /\ job[c.job].gen \in Generation
    BY <1>1, <1>j DEF ClaimRead, ClaimPc, Row
  <2>1. CASE Becomes(p, [c EXCEPT !.pc = "claimUpdate", !.gen = job[c.job].gen])
    <3> DEFINE d == [c EXCEPT !.pc = "claimUpdate", !.gen = job[c.job].gen]
    <3>1. d \in Call /\ d.pc = "claimUpdate" /\ d.job = c.job /\ d.gen \in Generation
      BY <1>t, <2>0 DEF Call, Pc, ClaimPc
    <3>2. d \in PreparedCall
      BY <2>0, <3>1 DEF PreparedCall, Prepared
    <3>3. QED
      BY <1>1, <2>1, <3>2, TypeInvFacts DEF ClaimRead, CallStep, MemoryType, memory, business
  <2>2. CASE NotAcquired(p, c)
    <3>1. \E d \in PreparedCall : Becomes(p, d)
      BY <1>t, <2>2, NotAcquiredPrepared
    <3>2. QED
      BY <1>1, <3>1, TypeInvFacts DEF ClaimRead, CallStep, MemoryType, memory, business
  <2>3. QED
    BY <1>1, <2>1, <2>2 DEF ClaimRead
<1>2. CASE ClaimUpdate(p)
  <2>0. c.job \in JobId /\ c.gen \in Generation /\ c.age \in Age
    BY <1>2, <1>t DEF ClaimUpdate, Prepared, Call
  <2>1. CASE /\ ClaimLease(c.job, w, c.gen, c.age)
             /\ Becomes(p, [c EXCEPT !.pc = "claimReread", !.age = 0])
    <3> DEFINE d == [c EXCEPT !.pc = "claimReread", !.age = 0]
    <3>1. StoreNext
      BY <1>t, <2>0, <2>1 DEF StoreNext
    <3>2. 0 \in Age /\ "claimReread" \in Pc
      BY BoundsAssumption DEF Age, Pc, ClaimPc
    <3>3. d \in Call /\ d.pc = "claimReread" /\ d.job = c.job
      BY <1>t, <3>2 DEF Call
    <3>4. d \in PreparedCall
      BY <2>0, <3>3 DEF PreparedCall, Prepared, ExecutePc, RecoverPc
    <3>5. QED
      BY <1>2, <2>1, <3>1, <3>4, TypeInvFacts
      DEF ClaimUpdate, CallStep, MemoryType, memory, business
  <2>2. CASE NotAcquired(p, c) /\ UNCHANGED storeVars
    <3>1. \E d \in PreparedCall : Becomes(p, d)
      BY <1>t, <2>2, NotAcquiredPrepared
    <3>2. QED
      BY <1>2, <2>2, <3>1, TypeInvFacts DEF ClaimUpdate, CallStep, MemoryType, memory, business
  <2>3. QED
    BY <1>2, <2>1, <2>2 DEF ClaimUpdate
<1>3. CASE ClaimReread(p)
  <2> DEFINE g   == job[c.job].gen
             tok == [token[w] EXCEPT ![c.job] = g]
  <2>0. /\ c.job \in JobId /\ g \in Generation
        /\ tok \in [JobId -> Generation \cup {None}]
        /\ active[w] \cup {c.job} \in SUBSET JobId
    BY <1>3, <1>j, <1>t DEF ClaimReread, ClaimPc, Row
  <2>u. UNCHANGED <<storeVars, beat, mode, business, counts>>
    BY <1>3 DEF ClaimReread
  <2>1. CASE c.why = "poll"
    <3> DEFINE e == [c EXCEPT !.why = "async", !.todo = {}]
    <3>1. Execute(p, e, active[w], tok) /\ CallPoll(w)
      BY <1>3, <2>1 DEF ClaimReread
    <3>2. e \in Call /\ e.job = c.job
      BY <1>t DEF Call
    <3>3. MemoryType' /\ \E d \in PreparedCall : Becomes(p, d)
      BY <1>t, <2>0, <3>1, <3>2, ExecutePrepared, TypeInvFacts
    <3>4. polls' \in [Worker -> BOOLEAN]
      BY <1>t, <3>1, CallPollType, TypeInvFacts
    <3>5. QED
      BY <2>u, <3>3, <3>4, TypeInvFacts DEF CallStep, business
  <2>2. CASE c.why = "recover"
    <3>1. Execute(p, c, active[w] \cup {c.job}, tok) /\ UNCHANGED polls
      BY <1>3, <2>2 DEF ClaimReread
    <3>2. MemoryType' /\ \E d \in PreparedCall : Becomes(p, d)
      BY <1>t, <2>0, <3>1, ExecutePrepared, TypeInvFacts
    <3>3. QED
      BY <2>u, <3>1, <3>2, TypeInvFacts DEF CallStep, business
  <2>3. CASE c.why \notin {"poll", "recover"}
    <3>1. Start(p, c, active[w], tok, g) /\ UNCHANGED polls
      BY <1>3, <2>3 DEF ClaimReread
    <3>2. MemoryType' /\ \E d \in PreparedCall : Becomes(p, d)
      BY <1>t, <2>0, <3>1, StartPrepared, TypeInvFacts
    <3>3. QED
      BY <2>u, <3>1, <3>2, TypeInvFacts DEF CallStep, business
  <2>4. QED
    BY <2>1, <2>2, <2>3
<1>4. QED
  BY <1>1, <1>2, <1>3 DEF Claim

\* A call keeps its job and generation while it executes.
LEMMA StillExecuting ==
  ASSUME NEW c \in PreparedCall, c.pc \in ExecutePc, NEW pc \in ExecutePc
  PROVE  /\ [c EXCEPT !.pc = pc] \in PreparedCall
         /\ [c EXCEPT !.pc = pc].pc = pc
         /\ [c EXCEPT !.pc = pc].job = c.job
         /\ [c EXCEPT !.pc = pc].gen = c.gen
<1> DEFINE d == [c EXCEPT !.pc = pc]
<1>1. d \in Call /\ d.pc = pc /\ d.job = c.job /\ d.gen = c.gen
  BY DEF PreparedCall, Call, Pc
<1>2. c.job \in JobId /\ c.gen \in Generation
  BY DEF PreparedCall, Prepared, ExecutePc
<1>3. QED
  BY <1>1, <1>2 DEF PreparedCall, Prepared, ExecutePc

LEMMA OrchestrateStep ==
  ASSUME TypeInv, NEW p \in Proc, ExecRead(p) \/ Orchestrate(p)
  PROVE  CallStep(p)
<1> DEFINE c == proc[p]
<1>t. c \in PreparedCall /\ proc \in [Proc -> Call]
  BY TypeInvFacts
<1>d. ASSUME c.pc \in ExecutePc, NEW pc \in ExecutePc
      PROVE  [c EXCEPT !.pc = pc] \in PreparedCall
  BY <1>t, <1>d, StillExecuting
<1>1. CASE ExecRead(p)
  <2>1. PICK pc \in {"markCompleted", "orchestrate"} : Becomes(p, [c EXCEPT !.pc = pc])
    BY <1>1 DEF ExecRead
  <2>2. c.pc \in ExecutePc /\ pc \in ExecutePc
    BY <1>1 DEF ExecRead, ExecutePc
  <2>3. QED
    BY <1>1, <1>d, <2>1, <2>2, TypeInvFacts DEF ExecRead, CallStep, MemoryType, memory, business
<1>2. CASE OrchestratorVerifies(p)
  <2>1. Becomes(p, c)
    BY <1>2, <1>t DEF OrchestratorVerifies, Becomes
  <2>2. verified' \in [Run -> BOOLEAN]
    BY <1>2, TypeInvFacts DEF OrchestratorVerifies
  <2>3. QED
    BY <1>2, <1>t, <2>1, <2>2, TypeInvFacts
    DEF OrchestratorVerifies, CallStep, MemoryType, memory
<1>3. CASE OrchestratorReturns(p)
  <2>1. PICK s \in {"WAITING", "COMPLETED", "ESCALATED"} :
          /\ run' = [run EXCEPT ![RunOf(p)] = s]
          /\ Becomes(p, [c EXCEPT !.pc = IF s = "WAITING" THEN "markWaiting"
                                                          ELSE "markCompleted"])
    BY <1>3 DEF OrchestratorReturns
  <2>2. PICK pc \in {"markWaiting", "markCompleted"} : Becomes(p, [c EXCEPT !.pc = pc])
    BY <2>1
  <2>3. c.pc \in ExecutePc /\ pc \in ExecutePc
    BY <1>3 DEF OrchestratorReturns, ExecutePc
  <2>4. run' \in [Run -> RunStatus]
    BY <2>1, TypeInvFacts DEF RunStatus
  <2>5. QED
    BY <1>3, <1>d, <2>2, <2>3, <2>4, TypeInvFacts
    DEF OrchestratorReturns, CallStep, MemoryType, memory
<1>4. CASE OrchestratorThrows(p)
  <2>1. Becomes(p, [c EXCEPT !.pc = "markFailed"]) /\ c.pc \in ExecutePc
        /\ "markFailed" \in ExecutePc
    BY <1>4 DEF OrchestratorThrows, ExecutePc
  <2>2. QED
    BY <1>4, <1>d, <2>1, TypeInvFacts
    DEF OrchestratorThrows, CallStep, MemoryType, memory, business
<1>5. QED
  BY <1>1, <1>2, <1>3, <1>4 DEF Orchestrate

\* The finally block.
LEMMA CleanupStep ==
  ASSUME TypeInv, NEW p \in Proc, Cleanup(p)
  PROVE  /\ \E d \in PreparedCall : Becomes(p, d) /\ d.pc \in {"idle", "recoverInspect"}
         /\ MemoryType'
         /\ polls' \in [Worker -> BOOLEAN]
<1>t. proc[p] \in Call /\ WorkerOf(p) \in Worker
  BY TypeInvFacts, WorkerOfType
<1>1. \E d \in PreparedCall : Becomes(p, d) /\ d.pc \in {"idle", "recoverInspect"}
  BY <1>t, ReturnPrepared DEF Cleanup
<1>2. MemoryType'
  BY <1>t, TypeInvFacts DEF Cleanup, MemoryType
<1>3. polls' \in [Worker -> BOOLEAN]
  BY <1>t, CallPollType, TypeInvFacts DEF Cleanup
<1>4. QED
  BY <1>1, <1>2, <1>3

LEMMA FinishStep ==
  ASSUME TypeInv, NEW p \in Proc, Finish(p)
  PROVE  CallStep(p)
<1> DEFINE c == proc[p]
           w == WorkerOf(p)
<1>t. c \in Call /\ Prepared(c) /\ w \in Worker
  BY TypeInvFacts, WorkerOfType
<1>1. c.pc \in ExecutePc /\ Cleanup(p) /\ faults' = faults
  BY DEF Finish, FinishWaiting, FinishCompleted, FinishFailed, ExecutePc
<1>2. c.job \in JobId /\ c.gen \in Generation
  BY <1>1, <1>t DEF Prepared, ExecutePc
<1>3. [StoreNext]_storeVars
  <2>1. CASE MarkWaiting(c.job, w, c.gen) \/ MarkCompleted(c.job, w, c.gen)
    BY <1>2, <1>t, <2>1 DEF StoreNext
  <2>2. CASE MarkFailed(c.job, w, c.gen)
    BY <1>2, <1>t, <2>2 DEF StoreNext
  <2>3. CASE UNCHANGED storeVars
    BY <2>3
  <2>4. QED
    BY <2>1, <2>2, <2>3 DEF Finish, FinishWaiting, FinishCompleted, FinishFailed
<1>4. QED
  BY <1>1, <1>3, CleanupStep, TypeInvFacts DEF Cleanup, CallStep, business

LEMMA ScanStep ==
  ASSUME TypeInv, NEW p \in Proc, PollFind(p) \/ RecoverFind(p)
  PROVE  CallStep(p)
<1>1. CASE PollFind(p)
  <2>1. SnapshotsOf(Candidates(0)) \in SUBSET Snapshot
    BY SnapshotsType, TypeInvFacts DEF Candidates
  <2>2. \E d \in PreparedCall : Becomes(p, d)
    BY <1>1, <2>1, ToNextCandidatePrepared DEF PollFind
  <2>3. QED
    BY <1>1, <2>2, TypeInvFacts DEF PollFind, CallStep, MemoryType, memory, business
<1>2. CASE RecoverFind(p)
  <2>1. SnapshotsOf(ExpiredJobs(0)) \in SUBSET Snapshot
    BY SnapshotsType, TypeInvFacts DEF ExpiredJobs
  <2>2. \E d \in PreparedCall : Becomes(p, d)
    BY <1>2, <2>1, ToNextStalePrepared DEF RecoverFind
  <2>3. QED
    BY <1>2, <2>2, TypeInvFacts DEF RecoverFind, CallStep, MemoryType, memory, business
<1>3. QED
  BY <1>1, <1>2

LEMMA RetryPrepared ==
  ASSUME NEW p \in Proc, NEW c \in Call, c.job \in JobId, c.gen \in Generation, Retry(p, c)
  PROVE  \E d \in PreparedCall : Becomes(p, d) /\ d.pc \in {"claimRead", "recoverFail"}
<1>1. PICK pc \in {"claimRead", "recoverFail"} :
        Becomes(p, [c EXCEPT !.pc = pc, !.owner = None])
  BY DEF Retry
<1> DEFINE d == [c EXCEPT !.pc = pc, !.owner = None]
<1>2. pc \in Pc
  BY DEF Pc, RecoverPc, ClaimPc
<1>3. d \in Call /\ d.pc = pc /\ d.job = c.job /\ d.gen = c.gen
  BY <1>2 DEF Call
<1>4. d \in PreparedCall
  BY <1>3 DEF PreparedCall, Prepared
<1> HIDE DEF d
<1>5. QED
  BY <1>1, <1>3, <1>4 DEF d

LEMMA RecoverStep ==
  ASSUME TypeInv, NEW p \in Proc, Recover(p)
  PROVE  CallStep(p)
<1> DEFINE c == proc[p]
<1>t. c \in Call /\ Prepared(c) /\ WorkerOf(p) \in Worker /\ c.todo \in SUBSET Snapshot
  BY TypeInvFacts, WorkerOfType DEF Call
<1>g. c.pc \in RecoverPc => c.job \in JobId /\ c.gen \in Generation
  BY <1>t DEF Prepared, RecoverPc
<1>s. ToNextStale(p, c.todo) => \E d \in PreparedCall : Becomes(p, d)
  BY <1>t, ToNextStalePrepared
<1>1. CASE RecoverInspect(p)
  <2>1. c.job \in JobId /\ c.gen \in Generation
    BY <1>1, <1>g DEF RecoverInspect, RecoverPc
  <2>2. CASE Becomes(p, [c EXCEPT !.pc = "recoverReconcile"])
    <3> DEFINE d == [c EXCEPT !.pc = "recoverReconcile"]
    <3>1. d \in Call /\ d.pc = "recoverReconcile" /\ d.job = c.job /\ d.gen = c.gen
      BY <1>t DEF Call, Pc, RecoverPc
    <3>2. d \in PreparedCall
      BY <2>1, <3>1 DEF PreparedCall, Prepared
    <3>3. QED
      BY <1>1, <2>2, <3>2, TypeInvFacts
      DEF RecoverInspect, CallStep, MemoryType, memory, business
  <2>3. CASE Retry(p, c)
    <3>1. \E d \in PreparedCall : Becomes(p, d)
      BY <1>t, <2>1, <2>3, RetryPrepared
    <3>2. QED
      BY <1>1, <3>1, TypeInvFacts
      DEF RecoverInspect, CallStep, MemoryType, memory, business
  <2>4. QED
    BY <1>1, <2>2, <2>3 DEF RecoverInspect
<1>2. CASE RecoverReconcile(p)
  <2> DEFINE d == [c EXCEPT !.pc = "recoverComplete"]
  <2>1. c.job \in JobId /\ c.gen \in Generation
    BY <1>2, <1>g DEF RecoverReconcile, RecoverPc
  <2>2. d \in Call /\ d.pc = "recoverComplete" /\ d.job = c.job /\ d.gen = c.gen
    BY <1>t DEF Call, Pc, RecoverPc
  <2>3. d \in PreparedCall
    BY <2>1, <2>2 DEF PreparedCall, Prepared
  <2>4. run' \in [Run -> RunStatus]
    BY <1>2, TypeInvFacts DEF RecoverReconcile, RunStatus
  <2>5. QED
    BY <1>2, <2>3, <2>4, TypeInvFacts DEF RecoverReconcile, CallStep, MemoryType, memory
<1>3. CASE RecoverComplete(p)
  <2> DEFINE w == IF c.owner = None THEN WorkerOf(p) ELSE c.owner
  <2>1. c.job \in JobId /\ c.gen \in Generation
    BY <1>3, <1>g DEF RecoverComplete, RecoverPc
  <2>2. w \in Worker
    BY <1>t DEF Call
  <2>3. MarkCompleted(c.job, w, c.gen) \/ UNCHANGED storeVars
    BY <1>3 DEF RecoverComplete
  <2>4. [StoreNext]_storeVars
    BY <2>1, <2>2, <2>3 DEF StoreNext
  <2>5. QED
    BY <1>3, <1>s, <2>4, TypeInvFacts DEF RecoverComplete, CallStep, MemoryType, memory, business
<1>4. CASE RecoverFail(p)
  <2>1. c.job \in JobId /\ c.gen \in Generation
    BY <1>4, <1>g DEF RecoverFail, RecoverPc
  <2>2. MarkFailed(c.job, None, c.gen) \/ UNCHANGED storeVars
    BY <1>4 DEF RecoverFail
  <2>3. [StoreNext]_storeVars
    BY <2>1, <2>2 DEF StoreNext
  <2>4. QED
    BY <1>4, <1>s, <2>3, TypeInvFacts DEF RecoverFail, CallStep, MemoryType, memory, business
<1>5. QED
  BY <1>1, <1>2, <1>3, <1>4 DEF Recover

\* A statement that fails is one of the store's, or is not run.
LEMMA StatementStep ==
  ASSUME TypeInv, NEW p \in Proc, MaybeRun(p)
  PROVE  [StoreNext]_storeVars
<1> DEFINE c == proc[p]
           w == WorkerOf(p)
<1>t. c \in Call /\ Prepared(c) /\ w \in Worker
  BY TypeInvFacts, WorkerOfType
<1>1. CASE c.pc = "enqueueCreate" /\ \E j \in JobId : Create(j, c.run, None)
  BY <1>1, <1>t DEF Prepared, StoreNext
<1>2. CASE c.pc = "claimUpdate" /\ ClaimLease(c.job, w, c.gen, c.age)
  BY <1>2, <1>t DEF Prepared, Call, StoreNext
<1>3. ASSUME c.pc \in OutcomePc, NEW v \in Worker,
             MarkWaiting(c.job, v, c.gen) \/ MarkCompleted(c.job, v, c.gen)
      PROVE  StoreNext
  <2>1. c.job \in JobId /\ c.gen \in Generation
    BY <1>3, <1>t DEF Prepared, OutcomePc, ExecutePc, RecoverPc
  <2>2. QED
    BY <1>3, <2>1 DEF StoreNext
<1>4. ASSUME c.pc \in OutcomePc, NEW v \in Worker \cup {None}, MarkFailed(c.job, v, c.gen)
      PROVE  StoreNext
  <2>1. c.job \in JobId /\ c.gen \in Generation
    BY <1>4, <1>t DEF Prepared, OutcomePc, ExecutePc, RecoverPc
  <2>2. QED
    BY <1>4, <2>1 DEF StoreNext
<1>5. CASE c.pc \in {"markWaiting", "markCompleted", "markFailed"} /\ Statement(p)
  BY <1>t, <1>3, <1>4, <1>5 DEF Statement, OutcomePc
<1>6. CASE c.pc = "directMark" /\ Statement(p)
  <2>1. c.owner \in Worker
    BY <1>6, <1>t DEF Prepared
  <2>2. QED
    BY <1>3, <1>6, <2>1 DEF Statement, OutcomePc
<1>7. CASE c.pc = "recoverComplete" /\ Statement(p)
  <2> DEFINE v == IF c.owner = None THEN w ELSE c.owner
  <2>1. v \in Worker
    BY <1>t DEF Call
  <2>2. MarkCompleted(c.job, v, c.gen)
    BY <1>7 DEF Statement
  <2> HIDE DEF v
  <2>3. QED
    BY <1>3, <1>7, <2>1, <2>2 DEF OutcomePc
<1>8. CASE c.pc = "recoverFail" /\ Statement(p)
  BY <1>4, <1>8 DEF Statement, OutcomePc
<1>9. CASE UNCHANGED storeVars
  BY <1>9
<1>10. QED
  BY <1>1, <1>2, <1>5, <1>6, <1>7, <1>8, <1>9 DEF MaybeRun, Statement

LEMMA FailStep ==
  ASSUME TypeInv, NEW p \in Proc, Fail(p)
  PROVE  CallStep(p)
<1> DEFINE c == proc[p]
<1>t. c \in PreparedCall /\ c \in Call /\ Prepared(c)
  BY TypeInvFacts
<1>f. faults' \in 0..MaxFaults
  <2>1. Fault
    BY DEF Fail, CallThrows, ReconcileThrows, ExecutionThrows, RunUnread,
           FailedUnrecorded, InspectionFails
  <2>2. QED
    BY <2>1, TypeInvFacts, CoordinatorAssumption DEF Fault
<1>1. CASE CallThrows(p)
  BY <1>1, <1>f, StatementStep, IdlePrepared, TypeInvFacts
  DEF CallThrows, CallStep, MemoryType, memory, business
<1>2. CASE ReconcileThrows(p)
  <2>1. run' \in [Run -> RunStatus]
    BY <1>2, TypeInvFacts DEF ReconcileThrows, RunStatus
  <2>2. QED
    BY <1>2, <1>f, <2>1, IdlePrepared, TypeInvFacts
    DEF ReconcileThrows, CallStep, MemoryType, memory
<1>3. CASE ExecutionThrows(p)
  <2>1. c.pc \in ExecutePc /\ "markFailed" \in ExecutePc
    BY <1>3 DEF ExecutionThrows, ExecutePc
  <2>2. [c EXCEPT !.pc = "markFailed"] \in PreparedCall
    BY <1>t, <2>1, StillExecuting
  <2>3. QED
    BY <1>3, <1>f, <2>2, StatementStep, TypeInvFacts
    DEF ExecutionThrows, CallStep, MemoryType, memory, business
<1>4. CASE RunUnread(p)
  <2>1. c.pc \in ExecutePc /\ "orchestrate" \in ExecutePc
    BY <1>4 DEF RunUnread, ExecutePc
  <2>2. [c EXCEPT !.pc = "orchestrate"] \in PreparedCall
    BY <1>t, <2>1, StillExecuting
  <2>3. QED
    BY <1>4, <1>f, <2>2, TypeInvFacts
    DEF RunUnread, CallStep, MemoryType, memory, business
<1>5. CASE FailedUnrecorded(p)
  BY <1>5, <1>f, StatementStep, CleanupStep, TypeInvFacts
  DEF FailedUnrecorded, Cleanup, CallStep, business
<1>6. CASE InspectionFails(p)
  <2>1. c.job \in JobId /\ c.gen \in Generation
    BY <1>6, <1>t DEF InspectionFails, Prepared, RecoverPc
  <2>2. \E d \in PreparedCall : Becomes(p, d)
    BY <1>6, <1>t, <2>1, RetryPrepared DEF InspectionFails
  <2>3. QED
    BY <1>6, <1>f, <2>2, TypeInvFacts
    DEF InspectionFails, CallStep, MemoryType, memory, business
<1>7. QED
  BY <1>1, <1>2, <1>3, <1>4, <1>5, <1>6 DEF Fail

-----------------------------------------------------------------------------
(* Steps of a worker: heartbeats, shutdown, crash; and of the clock.        *)

WorkerStep ==
  /\ [StoreNext]_storeVars
  /\ proc' \in [Proc -> PreparedCall]
  /\ MemoryType'
  /\ polls' \in [Worker -> BOOLEAN]
  /\ (beat \in [Worker -> [JobId -> [gen : Generation \cup {None}, age : Age]]])'
  /\ (\A w \in Worker, j \in JobId : beat[w][j] # NoBeat => beat[w][j].gen \in Generation)'
  /\ (mode \in [Worker -> {"up", "draining", "stopped", "down"}])'
  /\ UNCHANGED <<business, requests>>
  /\ (faults \in 0..MaxFaults)'

LEMMA FaultCounted ==
  ASSUME TypeInv, Fault
  PROVE  faults' \in 0..MaxFaults
  BY TypeInvFacts, CoordinatorAssumption DEF Fault

LEMMA WorkerFacts ==
  ASSUME TypeInv
  PROVE  /\ proc \in [Proc -> PreparedCall]
         /\ MemoryType
         /\ polls \in [Worker -> BOOLEAN]
         /\ beat \in [Worker -> [JobId -> [gen : Generation \cup {None}, age : Age]]]
         /\ \A w \in Worker, j \in JobId : beat[w][j] # NoBeat => beat[w][j].gen \in Generation
         /\ mode \in [Worker -> {"up", "draining", "stopped", "down"}]
         /\ NoBeat \in [gen : Generation \cup {None}, age : Age]
         /\ NoTokens \in [JobId -> Generation \cup {None}]
         /\ faults \in 0..MaxFaults
  BY NoneAssumption, BoundsAssumption
  DEF TypeInv, CoordinatorTypeOK, MemoryType, PreparedCall, NoBeat, NoTokens, Age

LEMMA HeartbeatStep ==
  ASSUME TypeInv, NEW w \in Worker, NEW j \in JobId,
         HeartbeatSend(w, j) \/ HeartbeatAnswer(w, j) \/ HeartbeatFails(w, j)
  PROVE  WorkerStep
<1>1. CASE HeartbeatSend(w, j)
  <2> DEFINE b == [gen |-> timer[w][j], age |-> 0]
  <2>1. timer[w][j] \in Generation
    BY <1>1, WorkerFacts DEF HeartbeatSend, MemoryType
  <2>2. b \in [gen : Generation \cup {None}, age : Age] /\ b.gen \in Generation
    BY <2>1, BoundsAssumption DEF Age
  <2>3. beat' = [beat EXCEPT ![w] = [@ EXCEPT ![j] = b]]
    BY <1>1 DEF HeartbeatSend
  <2> HIDE DEF b
  <2>4. beat' \in [Worker -> [JobId -> [gen : Generation \cup {None}, age : Age]]]
    BY <2>2, <2>3, WorkerFacts
  <2>5. \A v \in Worker, i \in JobId : beat'[v][i] # NoBeat => beat'[v][i].gen \in Generation
    BY <2>2, <2>3, WorkerFacts
  <2>6. QED
    BY <1>1, <2>4, <2>5, WorkerFacts DEF HeartbeatSend, WorkerStep, MemoryType, memory, NoBeat
<1>2. CASE HeartbeatAnswer(w, j)
  <2> DEFINE b == beat[w][j]
  <2>1. b.gen \in Generation /\ b.age \in Age
    BY <1>2, WorkerFacts DEF HeartbeatAnswer
  <2>2. RenewLease(j, w, b.gen, b.age) \/ UNCHANGED storeVars
    BY <1>2 DEF HeartbeatAnswer
  <2>3. [StoreNext]_storeVars
    BY <2>1, <2>2 DEF StoreNext
  <2>4. beat' = [beat EXCEPT ![w] = [@ EXCEPT ![j] = NoBeat]]
    BY <1>2 DEF HeartbeatAnswer
  <2>5. beat' \in [Worker -> [JobId -> [gen : Generation \cup {None}, age : Age]]]
    BY <2>4, WorkerFacts
  <2>6. \A v \in Worker, i \in JobId : beat'[v][i] # NoBeat => beat'[v][i].gen \in Generation
    BY <2>4, WorkerFacts
  <2>7. timer' = timer \/ timer' = [timer EXCEPT ![w] = [@ EXCEPT ![j] = None]]
    BY <1>2 DEF HeartbeatAnswer
  <2>8. timer' \in [Worker -> [JobId -> Generation \cup {None}]]
    <3>1. /\ timer \in [Worker -> [JobId -> Generation \cup {None}]]
          /\ [timer[w] EXCEPT ![j] = None] \in [JobId -> Generation \cup {None}]
      BY WorkerFacts DEF MemoryType
    <3>2. QED
      BY <2>7, <3>1
  <2>9. QED
    BY <1>2, <2>3, <2>5, <2>6, <2>8, WorkerFacts
    DEF HeartbeatAnswer, WorkerStep, MemoryType, NoBeat
<1>3. CASE HeartbeatFails(w, j)
  <2> DEFINE b == beat[w][j]
  <2>1. b.gen \in Generation /\ b.age \in Age
    BY <1>3, WorkerFacts DEF HeartbeatFails
  <2>2. RenewLease(j, w, b.gen, b.age) \/ UNCHANGED storeVars
    BY <1>3 DEF HeartbeatFails
  <2>3. [StoreNext]_storeVars
    BY <2>1, <2>2 DEF StoreNext
  <2>4. beat' = [beat EXCEPT ![w] = [@ EXCEPT ![j] = NoBeat]]
    BY <1>3 DEF HeartbeatFails
  <2>5. beat' \in [Worker -> [JobId -> [gen : Generation \cup {None}, age : Age]]]
    BY <2>4, WorkerFacts
  <2>6. \A v \in Worker, i \in JobId : beat'[v][i] # NoBeat => beat'[v][i].gen \in Generation
    BY <2>4, WorkerFacts
  <2>7. faults' \in 0..MaxFaults
    BY <1>3, FaultCounted DEF HeartbeatFails
  <2>8. QED
    BY <1>3, <2>3, <2>5, <2>6, <2>7, WorkerFacts
    DEF HeartbeatFails, WorkerStep, MemoryType, memory, NoBeat
<1>4. QED
  BY <1>1, <1>2, <1>3

LEMMA StopStep ==
  ASSUME TypeInv, NEW w \in Worker,
         PollFails(w) \/ ShutdownBegin(w) \/ ShutdownStop(w) \/ Crash(w)
  PROVE  WorkerStep
<1>1. CASE ShutdownBegin(w)
  BY <1>1, WorkerFacts DEF ShutdownBegin, WorkerStep, MemoryType, memory, NoBeat
<1>2. CASE ShutdownStop(w)
  BY <1>2, WorkerFacts DEF ShutdownStop, WorkerStep, MemoryType, NoBeat
<1>3. CASE Crash(w)
  <2>1. proc' \in [Proc -> PreparedCall]
    BY <1>3, IdlePrepared, WorkerFacts DEF Crash
  <2>2. MemoryType' /\ polls' \in [Worker -> BOOLEAN]
    BY <1>3, WorkerFacts DEF Crash, MemoryType
  <2>3. beat' = [beat EXCEPT ![w] = [j \in JobId |-> NoBeat]]
    BY <1>3 DEF Crash
  <2>4. beat' \in [Worker -> [JobId -> [gen : Generation \cup {None}, age : Age]]]
    BY <2>3, WorkerFacts
  <2>5. \A v \in Worker, i \in JobId : beat'[v][i] # NoBeat => beat'[v][i].gen \in Generation
    BY <2>3, WorkerFacts
  <2>6. QED
    BY <1>3, <2>1, <2>2, <2>4, <2>5, WorkerFacts DEF Crash, WorkerStep, NoBeat
<1>4. CASE PollFails(w)
  BY <1>4, FaultCounted, WorkerFacts DEF PollFails, WorkerStep, MemoryType, memory, NoBeat
<1>5. QED
  BY <1>1, <1>2, <1>3, <1>4

LEMMA TimeStep ==
  ASSUME TypeInv, TimePasses
  PROVE  WorkerStep
<1>1. ASSUME NEW p \in Proc
      PROVE  proc'[p] \in PreparedCall
  <2>1. proc[p] \in PreparedCall
    BY WorkerFacts
  <2>2. CASE HoldsTimestamp(proc[p])
    <3>1. proc'[p] = [proc[p] EXCEPT !.age = proc[p].age + 1]
      BY <2>2 DEF TimePasses
    <3>2. proc[p].age + 1 \in Age
      BY <2>1, <2>2, BoundsAssumption DEF TimePasses, Age, PreparedCall, Call
    <3>3. proc'[p] \in Call
      BY <2>1, <3>1, <3>2 DEF PreparedCall, Call
    <3>4. /\ proc'[p].pc = proc[p].pc /\ proc'[p].run = proc[p].run
          /\ proc'[p].why = proc[p].why /\ proc'[p].job = proc[p].job
          /\ proc'[p].gen = proc[p].gen /\ proc'[p].owner = proc[p].owner
      BY <2>1, <3>1 DEF PreparedCall, Call
    <3>5. QED
      BY <2>1, <3>3, <3>4 DEF PreparedCall, Prepared
  <2>3. CASE ~HoldsTimestamp(proc[p])
    BY <2>1, <2>3 DEF TimePasses
  <2>4. QED
    BY <2>2, <2>3
<1>2. ASSUME NEW w \in Worker, NEW j \in JobId
      PROVE  /\ beat'[w][j] \in [gen : Generation \cup {None}, age : Age]
             /\ beat'[w][j] # NoBeat => beat'[w][j].gen \in Generation
  <2>1. CASE beat[w][j] # NoBeat
    <3>1. beat'[w][j] = [beat[w][j] EXCEPT !.age = beat[w][j].age + 1]
      BY <2>1 DEF TimePasses
    <3>2. /\ beat[w][j] \in [gen : Generation \cup {None}, age : Age]
          /\ beat[w][j].gen \in Generation
      BY <2>1, WorkerFacts
    <3>3. beat[w][j].age + 1 \in Age
      BY <2>1, <3>2, BoundsAssumption DEF TimePasses, Age
    <3>4. QED
      BY <3>1, <3>2, <3>3
  <2>2. CASE beat[w][j] = NoBeat
    BY <2>2, WorkerFacts DEF TimePasses
  <2>3. QED
    BY <2>1, <2>2
<1>3. [StoreNext]_storeVars
  BY DEF TimePasses, StoreNext
<1>4. proc' \in [Proc -> PreparedCall]
  BY <1>1 DEF TimePasses
<1>5. beat' \in [Worker -> [JobId -> [gen : Generation \cup {None}, age : Age]]]
  BY <1>2 DEF TimePasses
<1>6. MemoryType' /\ polls' \in [Worker -> BOOLEAN]
      /\ mode' \in [Worker -> {"up", "draining", "stopped", "down"}]
      /\ UNCHANGED <<business, requests>>
      /\ faults' \in 0..MaxFaults
  BY FaultCounted, WorkerFacts DEF TimePasses, MemoryType, memory
<1>7. \A w \in Worker, j \in JobId : beat'[w][j] # NoBeat => beat'[w][j].gen \in Generation
  BY <1>2
<1>8. QED
  BY <1>3, <1>4, <1>5, <1>6, <1>7 DEF WorkerStep, NoBeat

-----------------------------------------------------------------------------
(* The type invariant, and the refinement of the store.                     *)

\* Every step is a step of one call, or one of a worker or the clock.
CallOf(p) ==
  \/ \E r \in Run, route \in Route : Request(p, r, route)
  \/ Direct(p) \/ Enqueue(p) \/ Claim(p)
  \/ ExecRead(p) \/ Orchestrate(p) \/ Finish(p)
  \/ PollFind(p) \/ RecoverFind(p) \/ Recover(p) \/ Fail(p)

LEMMA CallOfStep ==
  ASSUME TypeInv, NEW p \in Proc, CallOf(p)
  PROVE  CallStep(p)
  BY RequestStep, DirectStep, EnqueueStep, ClaimStep, OrchestrateStep, FinishStep,
     ScanStep, RecoverStep, FailStep
  DEF CallOf

LEMMA WorkerOrClock ==
  ASSUME Next
  PROVE  \/ \E p \in Proc : CallOf(p)
         \/ \E w \in Worker, j \in JobId :
              HeartbeatSend(w, j) \/ HeartbeatAnswer(w, j) \/ HeartbeatFails(w, j)
         \/ \E w \in Worker : PollFails(w) \/ ShutdownBegin(w) \/ ShutdownStop(w) \/ Crash(w)
         \/ TimePasses
  BY DEF Next, CallOf

\* Every step of the processes is a statement of the store, or leaves it alone.
LEMMA StoreStep == TypeInv /\ [Next]_vars => [StoreNext]_storeVars
<1> SUFFICES ASSUME TypeInv, [Next]_vars PROVE [StoreNext]_storeVars
  OBVIOUS
<1>1. CASE UNCHANGED vars
  BY <1>1 DEF vars
<1>2. ASSUME NEW p \in Proc, CallOf(p) PROVE [StoreNext]_storeVars
  BY <1>2, CallOfStep DEF CallStep
<1>3. CASE WorkerStep
  BY <1>3 DEF WorkerStep
<1>4. QED
  BY <1>1, <1>2, <1>3, WorkerOrClock, HeartbeatStep, StopStep, TimeStep

LEMMA TypeInvStep == TypeInv /\ [Next]_vars => TypeInv'
<1> SUFFICES ASSUME TypeInv, [Next]_vars PROVE TypeInv'
  OBVIOUS
<1>s. TypeOK'
  BY StoreStep, TypeOKStep, TypeInvFacts
<1>1. CASE UNCHANGED vars
  BY <1>1, <1>s
  DEF vars, TypeInv, CoordinatorTypeOK, memory, business, Prepared, NoBeat
<1>2. ASSUME NEW p \in Proc, CallOf(p) PROVE TypeInv'
  <2>1. CallStep(p)
    BY <1>2, CallOfStep
  <2>2. PICK d \in PreparedCall : proc' = [proc EXCEPT ![p] = d]
    BY <2>1 DEF CallStep, Becomes
  <2>3. proc' \in [Proc -> PreparedCall]
    BY <2>2, WorkerFacts
  <2>4. proc' \in [Proc -> Call] /\ \A q \in Proc : Prepared(proc'[q])
    BY <2>3 DEF PreparedCall
  <2>5. QED
    BY <1>s, <2>1, <2>4, WorkerFacts
    DEF CallStep, MemoryType, TypeInv, CoordinatorTypeOK, Prepared, NoBeat
<1>3. CASE WorkerStep
  <2>1. proc' \in [Proc -> Call] /\ \A q \in Proc : Prepared(proc'[q])
    BY <1>3 DEF WorkerStep, PreparedCall
  <2>2. QED
    BY <1>3, <1>s, <2>1, TypeInvFacts
    DEF WorkerStep, MemoryType, TypeInv, CoordinatorTypeOK, Prepared, NoBeat, business
<1>4. QED
  BY <1>1, <1>2, <1>3, WorkerOrClock, HeartbeatStep, StopStep, TimeStep

LEMMA TypeInvInit == Init => TypeInv
<1> SUFFICES ASSUME Init PROVE TypeInv
  OBVIOUS
<1>1. TypeOK
  BY NoneAssumption, BoundsAssumption
  DEF Init, StoreInit, TypeOK, Row, Status, AbsentRow, Generation
<1>2. Idle \in Call /\ Prepared(Idle)
  BY IdlePrepared DEF PreparedCall
<1>3. proc \in [Proc -> Call] /\ \A p \in Proc : Prepared(proc[p])
  BY <1>2 DEF Init
<1>4. /\ NoBeat \in [gen : Generation \cup {None}, age : Age]
      /\ NoTokens \in [JobId -> Generation \cup {None}]
  BY BoundsAssumption DEF NoBeat, NoTokens, Age
<1>5. /\ beat \in [Worker -> [JobId -> [gen : Generation \cup {None}, age : Age]]]
      /\ \A w \in Worker, j \in JobId : beat[w][j] = NoBeat
  BY <1>4 DEF Init
<1>6. requests \in 0..MaxRequests /\ faults \in 0..MaxFaults
  BY CoordinatorAssumption DEF Init
<1>7. QED
  BY <1>1, <1>3, <1>4, <1>5, <1>6 DEF Init, TypeInv, CoordinatorTypeOK, RunStatus

\* What the workers remember, schedule and await keeps its types, and every
\* statement they issue has its arguments, for every number of workers and
\* calls.
THEOREM CoordinatorTypeCorrect == Spec => []CoordinatorTypeOK
<1>1. TypeInv => CoordinatorTypeOK
  BY DEF TypeInv
<1>2. QED
  BY <1>1, TypeInvInit, TypeInvStep, PTL DEF Spec

\* The processes touch the table only through the statements of the store:
\* every behaviour of theirs is, on the table, a behaviour of the store.
THEOREM CoordinatorUsesStore == Spec => UsesStore
<1>1. Init => StoreInit
  BY DEF Init
<1>2. QED
  BY <1>1, TypeInvInit, TypeInvStep, StoreStep, PTL DEF Spec, UsesStore, StoreSpec

\* So the worker processes together are a fenced lease per job.
THEOREM CoordinatorImplementsLease == Spec => ImplementsFencedLease
  BY CoordinatorUsesStore, StoreImplementsFencedLease, PTL DEF UsesStore

-----------------------------------------------------------------------------
(* What a step of a call does to its worker's maps: it leaves executions    *)
(* and heartbeats alone, starts one, or ends one.                           *)

Quiet(p) ==
  /\ \E d \in PreparedCall :
       /\ Becomes(p, d)
       /\ IF Executing(p)
            THEN d.pc \in ExecutePc /\ d.job = proc[p].job
            ELSE d.pc \notin ExecutePc
  /\ timer' = timer
  /\ \A w \in Worker : mode[w] = "up" => active'[w] = active[w]

Starts(p) ==
  \E d \in PreparedCall, act \in SUBSET JobId :
    /\ ~Executing(p)
    /\ Becomes(p, d)
    /\ d.pc = "execRead"
    /\ act \subseteq active[WorkerOf(p)] \cup {d.job}
    /\ active' = [active EXCEPT ![WorkerOf(p)] = act]
    /\ timer' = [timer EXCEPT ![WorkerOf(p)] = [@ EXCEPT ![d.job] = d.gen]]

Ends(p) ==
  /\ Executing(p)
  /\ \E d \in PreparedCall : Becomes(p, d) /\ d.pc \in {"idle", "recoverInspect"}
  /\ timer' = [timer EXCEPT ![WorkerOf(p)] = [@ EXCEPT ![proc[p].job] = None]]
  /\ active' = [active EXCEPT ![WorkerOf(p)] = @ \ {proc[p].job}]

\* A step of a call that executes nothing and leaves the maps alone.
LEMMA QuietStep ==
  ASSUME NEW p \in Proc, ~Executing(p), UNCHANGED memory,
         NEW d \in PreparedCall, Becomes(p, d),
         d.pc \notin ExecutePc
  PROVE  Quiet(p)
  BY DEF Quiet, memory

LEMMA NotExecutingPc ==
  ASSUME NEW d, d.pc \in {"idle", "recoverInspect", "claimRead", "claimUpdate",
                          "recoverReconcile", "recoverComplete", "recoverFail"}
  PROVE  d.pc \notin ExecutePc
  BY DEF ExecutePc

LEMMA ExecuteEffect ==
  ASSUME TypeInv, NEW p \in Proc, ~Executing(p),
         NEW c \in Call, c.job \in JobId,
         NEW act \in SUBSET JobId, NEW tok \in [JobId -> Generation \cup {None}],
         \/ act = active[WorkerOf(p)]
         \/ act = active[WorkerOf(p)] \cup {c.job} /\ tok[c.job] # None,
         Execute(p, c, act, tok)
  PROVE  Quiet(p) \/ Starts(p)
<1> DEFINE w == WorkerOf(p)
<1>t. MemoryType /\ w \in Worker
  BY TypeInvFacts, WorkerOfType
<1>1. PICK d \in PreparedCall :
        /\ Becomes(p, d)
        /\ \/ /\ c.job \in act
              /\ d.pc = "execRead" /\ d.job = c.job /\ d.gen = tok[c.job]
              /\ Start(p, c, act, tok, tok[c.job])
           \/ /\ d.pc \in {"claimRead", "idle", "recoverInspect"}
              /\ mode[w] # "up" \/ ~(c.job \in act /\ tok[c.job] # None)
              /\ active' = [active EXCEPT ![w] = act]
              /\ token' = [token EXCEPT ![w] = tok]
              /\ timer' = timer
  BY <1>t, ExecutePrepared
<1>4. CASE /\ c.job \in act
           /\ d.pc = "execRead" /\ d.job = c.job /\ d.gen = tok[c.job]
           /\ Start(p, c, act, tok, tok[c.job])
  <2>1. /\ active' = [active EXCEPT ![w] = act \cup {c.job}]
        /\ timer' = [timer EXCEPT ![w] = [@ EXCEPT ![d.job] = d.gen]]
    BY <1>4 DEF Start
  <2>3. act \cup {c.job} \subseteq active[w] \cup {d.job} /\ act \cup {c.job} \in SUBSET JobId
    BY <1>4
  <2>4. QED
    BY <1>1, <1>4, <2>1, <2>3 DEF Starts
<1>5. CASE /\ d.pc \in {"claimRead", "idle", "recoverInspect"}
           /\ mode[w] # "up" \/ ~(c.job \in act /\ tok[c.job] # None)
           /\ active' = [active EXCEPT ![w] = act]
           /\ timer' = timer
  <2>1. d.pc \notin ExecutePc
    BY <1>5, NotExecutingPc
  <2>2. \A v \in Worker : mode[v] = "up" => active'[v] = active[v]
    BY <1>t, <1>5 DEF MemoryType
  <2>3. QED
    BY <1>1, <1>5, <2>1, <2>2 DEF Quiet
<1>6. QED
  BY <1>1, <1>4, <1>5

LEMMA EnqueueEffect ==
  ASSUME TypeInv, NEW p \in Proc, Enqueue(p)
  PROVE  Quiet(p) \/ Starts(p)
<1> DEFINE w == WorkerOf(p)
<1>t. /\ proc[p] \in Call /\ Prepared(proc[p]) /\ MemoryType /\ w \in Worker
      /\ active[w] \in SUBSET JobId /\ token[w] \in [JobId -> Generation \cup {None}]
  BY TypeInvFacts, WorkerOfType DEF MemoryType
<1>p. proc[p].pc \in {"enqueueFind", "enqueueCreate"} /\ ~Executing(p)
  BY DEF Enqueue, EnqueueFind, EnqueueCreate, Executing, ExecutePc
<1>1. ASSUME NEW j \in JobId, Enqueued(p, j)
      PROVE  Quiet(p) \/ Starts(p)
  <2> DEFINE c == [proc[p] EXCEPT !.job = j, !.run = None]
  <2>c. c \in Call /\ c.job = j /\ c.why = proc[p].why
    BY <1>t DEF Call
  <2>w. c.why \in {"runSync", "runAsync", "resume", "waited", "finished"}
    BY <1>t, <1>p, <2>c DEF Prepared
  <2>1. CASE c.why \in {"runSync", "resume"}
    <3>1. Execute(p, c, active[w], token[w])
      BY <1>1, <2>1 DEF Enqueued
    <3>2. QED
      BY <1>t, <1>p, <2>c, <3>1, ExecuteEffect
  <2>2. CASE c.why = "runAsync"
    <3>1. Becomes(p, Idle) /\ UNCHANGED memory
      BY <1>1, <2>2 DEF Enqueued
    <3>2. Idle.pc = "idle"
      BY DEF Idle
    <3>3. QED
      BY <1>p, <3>1, <3>2, IdlePrepared, NotExecutingPc, QuietStep
  <2>3. CASE c.why \in {"waited", "finished"}
    <3> DEFINE d == [c EXCEPT !.pc = "directRead"]
    <3>1. Becomes(p, d) /\ UNCHANGED memory
      BY <1>1, <2>3 DEF Enqueued, memory
    <3>2. d \in Call /\ d.pc = "directRead" /\ d.job = j
      BY <2>c DEF Call, Pc, DirectPc
    <3>3. d \in PreparedCall
      BY <3>2 DEF PreparedCall, Prepared, ExecutePc, RecoverPc
    <3>5. d.pc \notin ExecutePc
      BY <3>2 DEF ExecutePc
    <3> HIDE DEF d
    <3>6. QED
      BY <1>p, <3>1, <3>3, <3>5, QuietStep
  <2>4. QED
    BY <2>w, <2>1, <2>2, <2>3
<1>2. CASE EnqueueFind(p)
  <2>1. ASSUME NEW j \in ActiveJobsOf(proc[p].run), Enqueued(p, j)
        PROVE  Quiet(p) \/ Starts(p)
    BY <1>1, <2>1 DEF ActiveJobsOf
  <2>2. CASE /\ Becomes(p, [proc[p] EXCEPT !.pc = "enqueueCreate"])
             /\ UNCHANGED <<memory, polls>>
    <3> DEFINE d == [proc[p] EXCEPT !.pc = "enqueueCreate"]
    <3>1. d \in Call /\ d.pc = "enqueueCreate" /\ d.run = proc[p].run /\ d.why = proc[p].why
      BY <1>t DEF Call, Pc
    <3>2. d \in PreparedCall
      BY <1>p, <1>t, <3>1 DEF PreparedCall, Prepared, ExecutePc, RecoverPc
    <3>3. d.pc \notin ExecutePc
      BY <1>p, <3>1 DEF ExecutePc
    <3> HIDE DEF d
    <3>4. QED
      BY <1>p, <2>2, <3>2, <3>3, QuietStep DEF d
  <2>3. QED
    BY <1>2, <2>1, <2>2 DEF EnqueueFind
<1>3. CASE EnqueueCreate(p)
  BY <1>1, <1>3 DEF EnqueueCreate
<1>4. QED
  BY <1>2, <1>3 DEF Enqueue

\* A step says in one way what the call becomes.
LEMMA SameCall ==
  ASSUME TypeInv, NEW p \in Proc, NEW c, NEW d, Becomes(p, c), Becomes(p, d)
  PROVE  c = d
  BY TypeInvFacts DEF Becomes

LEMMA RequestEffect ==
  ASSUME TypeInv, NEW p \in Proc, NEW r \in Run, NEW route \in Route, Request(p, r, route)
  PROVE  Quiet(p)
<1> DEFINE pc == IF route = "direct" THEN "direct" ELSE "enqueueFind"
           e == [Idle EXCEPT !.pc = pc, !.why = route, !.run = r]
<1>1. Becomes(p, e) /\ ~Executing(p) /\ UNCHANGED memory
  BY DEF Request, Executing, ExecutePc
<1>2. PICK d \in PreparedCall : Becomes(p, d)
  BY RequestStep DEF CallStep
<1>3. d = e
  BY <1>1, <1>2, SameCall
<1>4. e.pc = pc /\ e.why = route
  BY DEF Idle
<1>5. route \in {"runSync", "runAsync", "resume", "direct"}
  BY CoordinatorAssumption
<1>6. d.pc \notin ExecutePc
  <2> HIDE DEF e
  <2>1. QED
    BY <1>3, <1>4, <1>5 DEF ExecutePc
<1>7. QED
  BY <1>1, <1>2, <1>6, QuietStep

LEMMA DirectEffect ==
  ASSUME TypeInv, NEW p \in Proc, Direct(p)
  PROVE  Quiet(p)
<1>1. ~Executing(p) /\ UNCHANGED memory
  BY DEF Direct, DirectRun, DirectRead, DirectMark, Executing, ExecutePc
<1>2. PICK d \in PreparedCall : Becomes(p, d)
  BY DirectStep DEF CallStep
<1>3. proc'[p] = d
  BY <1>2, TypeInvFacts DEF Becomes
<1>4. proc'[p].pc \in {"enqueueFind", "idle", "directMark"}
  <2>1. proc[p] \in Call /\ proc \in [Proc -> Call]
    BY TypeInvFacts
  <2>2. CASE DirectRun(p)
    <3>1. PICK s \in RunStatus \ {"ACTIVE"} :
            Becomes(p, [proc[p] EXCEPT !.pc = "enqueueFind",
                          !.why = IF s = "WAITING" THEN "waited" ELSE "finished"])
      BY <2>2 DEF DirectRun
    <3>2. d = [proc[p] EXCEPT !.pc = "enqueueFind",
                 !.why = IF s = "WAITING" THEN "waited" ELSE "finished"]
      BY <1>2, <3>1, SameCall
    <3>3. d.pc = "enqueueFind"
      BY <2>1, <3>2 DEF Call
    <3>4. QED
      BY <1>3, <3>3
  <2>3. CASE DirectRead(p)
    <3> DEFINE e == [proc[p] EXCEPT !.pc = "directMark",
                                    !.owner = job[proc[p].job].worker,
                                    !.gen = job[proc[p].job].gen]
    <3>1. Becomes(p, Idle) \/ Becomes(p, e)
      BY <2>3 DEF DirectRead
    <3>2. Idle.pc = "idle" /\ e.pc = "directMark"
      BY <2>1 DEF Call, Idle
    <3> HIDE DEF e
    <3>3. d = Idle \/ d = e
      BY <1>2, <3>1, SameCall
    <3>4. QED
      BY <1>3, <3>2, <3>3
  <2>4. CASE DirectMark(p)
    BY <2>1, <2>4 DEF DirectMark, Becomes, Idle
  <2>5. QED
    BY <2>2, <2>3, <2>4 DEF Direct
<1>5. d.pc \notin ExecutePc
  BY <1>3, <1>4 DEF ExecutePc
<1>6. QED
  BY <1>1, <1>2, <1>5, QuietStep

LEMMA ClaimEffect ==
  ASSUME TypeInv, NEW p \in Proc, Claim(p)
  PROVE  Quiet(p) \/ Starts(p)
<1> DEFINE c == proc[p]
           w == WorkerOf(p)
<1>t. /\ c \in Call /\ Prepared(c) /\ MemoryType /\ w \in Worker /\ proc \in [Proc -> Call]
      /\ active[w] \in SUBSET JobId /\ token[w] \in [JobId -> Generation \cup {None}]
  BY TypeInvFacts, WorkerOfType DEF MemoryType
<1>p. ~Executing(p) /\ c.pc \in ClaimPc
  BY DEF Claim, ClaimRead, ClaimUpdate, ClaimReread, Executing, ExecutePc, ClaimPc
<1>n. ASSUME NotAcquired(p, c), UNCHANGED memory
      PROVE  Quiet(p)
  BY <1>n, <1>p, <1>t, NotAcquiredPrepared, NotExecutingPc, QuietStep
<1>1. CASE ClaimRead(p)
  <2>1. CASE Becomes(p, [c EXCEPT !.pc = "claimUpdate", !.gen = job[c.job].gen])
    <3>1. PICK d \in PreparedCall : Becomes(p, d)
      BY <1>1, ClaimStep DEF CallStep, Claim
    <3>s. d = [c EXCEPT !.pc = "claimUpdate", !.gen = job[c.job].gen]
      BY <2>1, <3>1, SameCall
    <3>2. d.pc = "claimUpdate"
      BY <1>t, <3>s DEF Call
    <3>3. QED
      BY <1>1, <1>p, <3>1, <3>2, NotExecutingPc, QuietStep DEF ClaimRead
  <2>2. QED
    BY <1>1, <1>n, <2>1 DEF ClaimRead
<1>2. CASE ClaimUpdate(p)
  <2>1. CASE /\ ClaimLease(c.job, w, c.gen, c.age)
             /\ Becomes(p, [c EXCEPT !.pc = "claimReread", !.age = 0])
    <3>1. PICK d \in PreparedCall : Becomes(p, d)
      BY <1>2, ClaimStep DEF CallStep, Claim
    <3>s. d = [c EXCEPT !.pc = "claimReread", !.age = 0]
      BY <2>1, <3>1, SameCall
    <3>2. d.pc = "claimReread" /\ d.job = c.job
      BY <1>t, <3>s DEF Call
    <3>3. d.pc \notin ExecutePc
      BY <3>2 DEF ExecutePc
    <3>4. UNCHANGED memory
      BY <1>2 DEF ClaimUpdate
    <3>5. QED
      BY <1>p, <3>1, <3>3, <3>4, QuietStep
  <2>2. QED
    BY <1>2, <1>n, <2>1 DEF ClaimUpdate
<1>3. CASE ClaimReread(p)
  <2> DEFINE g   == job[c.job].gen
             tok == [token[w] EXCEPT ![c.job] = g]
  <2>0. /\ c.pc = "claimReread" /\ c.job \in JobId /\ g \in Generation
        /\ tok \in [JobId -> Generation \cup {None}]
        /\ tok[c.job] = g /\ g # None
        /\ active[w] \cup {c.job} \in SUBSET JobId
    <3>1. c.pc = "claimReread" /\ c.job \in JobId
      BY <1>3, <1>t DEF ClaimReread, Prepared
    <3>2. g \in Generation /\ g # None
      BY <3>1, TypeInvFacts, NoneAssumption DEF TypeOK, Row, Generation
    <3>3. QED
      BY <3>1, <3>2, <1>t
  <2>1. CASE c.why = "poll"
    <3> DEFINE e == [c EXCEPT !.why = "async", !.todo = {}]
    <3>1. Execute(p, e, active[w], tok)
      BY <1>3, <2>1 DEF ClaimReread
    <3>2. e \in Call /\ e.job = c.job
      BY <1>t DEF Call
    <3> HIDE DEF e
    <3>3. QED
      BY <1>t, <1>p, <2>0, <3>1, <3>2, ExecuteEffect
  <2>2. CASE c.why = "recover"
    <3>1. Execute(p, c, active[w] \cup {c.job}, tok)
      BY <1>3, <2>2 DEF ClaimReread
    <3>2. QED
      BY <1>t, <1>p, <2>0, <3>1, ExecuteEffect
  <2>3. CASE c.why \notin {"poll", "recover"}
    <3>1. Start(p, c, active[w], tok, g)
      BY <1>3, <2>3 DEF ClaimReread
    <3>2. PICK d \in PreparedCall :
            Becomes(p, d) /\ d.pc = "execRead" /\ d.job = c.job /\ d.gen = g
      BY <1>t, <2>0, <3>1, StartPrepared
    <3>3. /\ active' = [active EXCEPT ![w] = active[w] \cup {c.job}]
          /\ timer' = [timer EXCEPT ![w] = [@ EXCEPT ![c.job] = g]]
      BY <3>1 DEF Start
    <3>4. QED
      BY <1>p, <2>0, <3>2, <3>3 DEF Starts
  <2>4. QED
    BY <2>1, <2>2, <2>3
<1>4. QED
  BY <1>1, <1>2, <1>3 DEF Claim

LEMMA OrchestrateEffect ==
  ASSUME TypeInv, NEW p \in Proc, ExecRead(p) \/ Orchestrate(p)
  PROVE  Quiet(p)
<1> DEFINE c == proc[p]
<1>1. /\ c \in PreparedCall /\ proc \in [Proc -> Call]
      /\ c.pc \in {"execRead", "orchestrate"} /\ c.pc \in ExecutePc
      /\ UNCHANGED memory
  BY TypeInvFacts
  DEF ExecRead, Orchestrate, OrchestratorVerifies, OrchestratorReturns, OrchestratorThrows,
      ExecutePc
<1>2. PICK pc \in ExecutePc : Becomes(p, [c EXCEPT !.pc = pc])
  <2>1. CASE ExecRead(p)
    BY <2>1 DEF ExecRead, ExecutePc
  <2>2. CASE OrchestratorVerifies(p)
    <3>1. proc' = proc /\ c.pc \in ExecutePc
      BY <1>1, <2>2 DEF OrchestratorVerifies
    <3>2. [c EXCEPT !.pc = c.pc] = c
      BY <1>1 DEF PreparedCall, Call
    <3>3. Becomes(p, [c EXCEPT !.pc = c.pc])
      BY <1>1, <3>1, <3>2 DEF Becomes
    <3>4. QED
      BY <3>1, <3>3
  <2>3. CASE OrchestratorReturns(p)
    BY <2>3 DEF OrchestratorReturns, ExecutePc
  <2>4. CASE OrchestratorThrows(p)
    BY <2>4 DEF OrchestratorThrows, ExecutePc
  <2>5. QED
    BY <2>1, <2>2, <2>3, <2>4 DEF Orchestrate
<1> DEFINE d == [c EXCEPT !.pc = pc]
<1>3. d \in PreparedCall /\ d.pc = pc /\ d.job = c.job /\ d.gen = c.gen
  BY <1>1, <1>2, StillExecuting
<1> HIDE DEF d
<1>5. QED
  BY <1>1, <1>2, <1>3 DEF Quiet, memory, Executing, d

LEMMA FinishEffect ==
  ASSUME TypeInv, NEW p \in Proc, Finish(p)
  PROVE  Ends(p)
<1>1. proc[p].pc \in ExecutePc /\ Cleanup(p)
  BY DEF Finish, FinishWaiting, FinishCompleted, FinishFailed, ExecutePc
<1>2. QED
  BY <1>1, CleanupStep DEF Cleanup, Ends, Executing

LEMMA ScanEffect ==
  ASSUME TypeInv, NEW p \in Proc, PollFind(p) \/ RecoverFind(p)
  PROVE  Quiet(p)
<1>1. ~Executing(p) /\ UNCHANGED memory
  BY DEF PollFind, RecoverFind, Executing, ExecutePc
<1>2. \E d \in PreparedCall :
        Becomes(p, d) /\ d.pc \in {"idle", "claimRead", "recoverInspect"}
  <2>1. CASE PollFind(p)
    <3>1. SnapshotsOf(Candidates(0)) \in SUBSET Snapshot
      BY SnapshotsType, TypeInvFacts DEF Candidates
    <3>2. QED
      BY <2>1, <3>1, ToNextCandidatePrepared DEF PollFind
  <2>2. CASE RecoverFind(p)
    <3>1. SnapshotsOf(ExpiredJobs(0)) \in SUBSET Snapshot
      BY SnapshotsType, TypeInvFacts DEF ExpiredJobs
    <3>2. QED
      BY <2>2, <3>1, ToNextStalePrepared DEF RecoverFind
  <2>3. QED
    BY <2>1, <2>2
<1>3. QED
  BY <1>1, <1>2, NotExecutingPc, QuietStep

LEMMA RecoverEffect ==
  ASSUME TypeInv, NEW p \in Proc, Recover(p)
  PROVE  Quiet(p)
<1> DEFINE c == proc[p]
<1>t. c \in Call /\ proc \in [Proc -> Call] /\ c.todo \in SUBSET Snapshot
  BY TypeInvFacts DEF Call
<1>1. ~Executing(p) /\ UNCHANGED memory
  BY DEF Recover, RecoverInspect, RecoverReconcile, RecoverComplete, RecoverFail,
         Executing, ExecutePc
<1>2. PICK d \in PreparedCall : Becomes(p, d)
  BY RecoverStep DEF CallStep
<1>3. proc'[p] = d
  BY <1>2, <1>t DEF Becomes
<1>4. proc'[p].pc \in {"idle", "recoverInspect", "claimRead",
                       "recoverReconcile", "recoverComplete", "recoverFail"}
  <2>1. CASE ToNextStale(p, c.todo)
    BY <1>t, <2>1, ToNextStalePrepared DEF Becomes
  <2>2. CASE RecoverInspect(p)
    BY <1>t, <2>2 DEF RecoverInspect, Retry, Becomes, Call
  <2>3. CASE RecoverReconcile(p)
    BY <1>t, <2>3 DEF RecoverReconcile, Becomes, Call
  <2>4. QED
    BY <2>1, <2>2, <2>3 DEF Recover, RecoverComplete, RecoverFail
<1>5. QED
  BY <1>1, <1>2, <1>3, <1>4, NotExecutingPc, QuietStep

LEMMA FailEffect ==
  ASSUME TypeInv, NEW p \in Proc, Fail(p)
  PROVE  Quiet(p) \/ Ends(p)
<1> DEFINE c == proc[p]
<1>t. c \in PreparedCall /\ c \in Call /\ Prepared(c)
  BY TypeInvFacts
<1>1. CASE CallThrows(p) \/ ReconcileThrows(p)
  <2>1. ~Executing(p) /\ UNCHANGED memory /\ Becomes(p, Idle)
    BY <1>1 DEF CallThrows, ReconcileThrows, Executing, ExecutePc, ClaimPc
  <2>2. Idle.pc = "idle"
    BY DEF Idle
  <2>3. QED
    BY <2>1, <2>2, IdlePrepared, NotExecutingPc, QuietStep
<1>2. CASE ExecutionThrows(p) \/ RunUnread(p)
  <2>1. PICK pc \in ExecutePc : Becomes(p, [c EXCEPT !.pc = pc])
    BY <1>2 DEF ExecutionThrows, RunUnread, ExecutePc
  <2>2. c.pc \in ExecutePc /\ UNCHANGED memory
    BY <1>2 DEF ExecutionThrows, RunUnread, ExecutePc
  <2> DEFINE d == [c EXCEPT !.pc = pc]
  <2>3. d \in PreparedCall /\ d.pc = pc /\ d.job = c.job
    BY <1>t, <2>1, <2>2, StillExecuting
  <2> HIDE DEF d
  <2>4. QED
    BY <2>1, <2>2, <2>3 DEF Quiet, memory, Executing, d
<1>3. CASE FailedUnrecorded(p)
  BY <1>3, CleanupStep DEF FailedUnrecorded, Cleanup, Ends, Executing, ExecutePc
<1>4. CASE InspectionFails(p)
  <2>1. c.job \in JobId /\ c.gen \in Generation /\ ~Executing(p) /\ UNCHANGED memory
    BY <1>4, <1>t DEF InspectionFails, Prepared, RecoverPc, Executing, ExecutePc
  <2>2. PICK d \in PreparedCall : Becomes(p, d) /\ d.pc \in {"claimRead", "recoverFail"}
    BY <1>4, <1>t, <2>1, RetryPrepared DEF InspectionFails
  <2>3. QED
    BY <2>1, <2>2, NotExecutingPc, QuietStep
<1>5. QED
  BY <1>1, <1>2, <1>3, <1>4 DEF Fail

LEMMA CallEffect ==
  ASSUME TypeInv, NEW p \in Proc, CallOf(p)
  PROVE  Quiet(p) \/ Starts(p) \/ Ends(p)
  BY RequestEffect, DirectEffect, EnqueueEffect, ClaimEffect, OrchestrateEffect,
     FinishEffect, ScanEffect, RecoverEffect, FailEffect
  DEF CallOf

-----------------------------------------------------------------------------
(* Heartbeats and capacity: a job with a running timer, or one that an up   *)
(* worker counts as active, is being executed by a call of that worker.     *)

Covered(w, j) == \E s \in Slot : Executing(<<w, s>>) /\ proc[<<w, s>>].job = j

LEMMA CoveredDef ==
  ASSUME NEW w \in Worker, NEW j \in JobId
  PROVE  /\ Covered(w, j) <=> \E q \in Proc : WorkerOf(q) = w /\ Executing(q) /\ proc[q].job = j
         /\ Covered(w, j)' <=>
              \E q \in Proc : WorkerOf(q) = w /\ Executing(q)' /\ proc'[q].job = j
<1>1. \A q \in Proc : WorkerOf(q) = w => \E s \in Slot : q = <<w, s>>
  BY DEF Proc, WorkerOf
<1>2. \A s \in Slot : <<w, s>> \in Proc /\ WorkerOf(<<w, s>>) = w
  BY DEF Proc, WorkerOf
<1>3. QED
  BY <1>1, <1>2 DEF Covered, Executing

LEMMA OthersKeep ==
  ASSUME TypeInv, NEW p \in Proc, NEW d \in PreparedCall, Becomes(p, d)
  PROVE  /\ proc'[p] = d
         /\ \A q \in Proc : q # p => proc'[q] = proc[q]
  BY TypeInvFacts DEF Becomes

\* A step that ends no execution of j by w leaves j covered.
LEMMA StaysCovered ==
  ASSUME TypeInv, NEW p \in Proc, NEW w \in Worker, NEW j \in JobId, Covered(w, j),
         \/ Quiet(p) \/ Starts(p)
         \/ Ends(p) /\ ~(WorkerOf(p) = w /\ proc[p].job = j)
  PROVE  Covered(w, j)'
<1>1. PICK q \in Proc : WorkerOf(q) = w /\ Executing(q) /\ proc[q].job = j
  BY CoveredDef
<1>2. CASE Quiet(p)
  <2>1. PICK d \in PreparedCall :
          /\ Becomes(p, d)
          /\ Executing(p) => d.pc \in ExecutePc /\ d.job = proc[p].job
    BY <1>2 DEF Quiet
  <2>2. Executing(q)' /\ proc'[q].job = j
    BY <1>1, <2>1, OthersKeep DEF Executing
  <2>3. QED
    BY <1>1, <2>2, CoveredDef
<1>3. CASE Starts(p)
  <2>1. PICK d \in PreparedCall : Becomes(p, d) /\ ~Executing(p)
    BY <1>3 DEF Starts
  <2>2. Executing(q)' /\ proc'[q].job = j
    BY <1>1, <2>1, OthersKeep DEF Executing
  <2>3. QED
    BY <1>1, <2>2, CoveredDef
<1>4. CASE Ends(p) /\ ~(WorkerOf(p) = w /\ proc[p].job = j)
  <2>1. PICK d \in PreparedCall : Becomes(p, d)
    BY <1>4 DEF Ends
  <2>2. Executing(q)' /\ proc'[q].job = j
    BY <1>1, <1>4, <2>1, OthersKeep DEF Executing
  <2>3. QED
    BY <1>1, <2>2, CoveredDef
<1>5. QED
  BY <1>2, <1>3, <1>4

MapsInv == NoOrphanHeartbeat /\ CapacityReturned

LEMMA MapsInvDef ==
  /\ MapsInv <=>
       \A w \in Worker, j \in JobId :
         (timer[w][j] # None \/ (mode[w] = "up" /\ j \in active[w])) => Covered(w, j)
  /\ MapsInv' <=>
       \A w \in Worker, j \in JobId :
         (timer'[w][j] # None \/ (mode'[w] = "up" /\ j \in active'[w])) => Covered(w, j)'
  BY DEF MapsInv, NoOrphanHeartbeat, CapacityReturned, Covered

LEMMA MapsInvCallStep ==
  ASSUME TypeInv, MapsInv, NEW p \in Proc, CallOf(p)
  PROVE  MapsInv'
<1> SUFFICES ASSUME NEW w \in Worker, NEW j \in JobId,
                    timer'[w][j] # None \/ (mode'[w] = "up" /\ j \in active'[w])
             PROVE  Covered(w, j)'
  BY MapsInvDef
<1>t. MemoryType /\ WorkerOf(p) \in Worker /\ mode' = mode
  BY TypeInvFacts, WorkerOfType, CallOfStep DEF CallStep
<1>i. timer[w][j] # None \/ (mode[w] = "up" /\ j \in active[w]) => Covered(w, j)
  BY MapsInvDef
<1>1. CASE Quiet(p)
  <2>1. timer' = timer /\ (mode[w] = "up" => active'[w] = active[w])
    BY <1>1 DEF Quiet
  <2>2. QED
    BY <1>t, <1>i, <1>1, <2>1, StaysCovered
<1>2. CASE Starts(p)
  <2>1. PICK d \in PreparedCall, act \in SUBSET JobId :
          /\ Becomes(p, d) /\ d.pc = "execRead"
          /\ act \subseteq active[WorkerOf(p)] \cup {d.job}
          /\ active' = [active EXCEPT ![WorkerOf(p)] = act]
          /\ timer' = [timer EXCEPT ![WorkerOf(p)] = [@ EXCEPT ![d.job] = d.gen]]
    BY <1>2 DEF Starts
  <2>2. CASE w = WorkerOf(p) /\ j = d.job
    <3>1. Executing(p)' /\ proc'[p].job = j
      BY <2>1, <2>2, OthersKeep DEF Executing, ExecutePc
    <3>2. QED
      BY <2>2, <3>1, CoveredDef
  <2>3. CASE ~(w = WorkerOf(p) /\ j = d.job)
    <3>1. timer'[w][j] = timer[w][j] /\ (j \in active'[w] => j \in active[w])
      BY <1>t, <2>1, <2>3 DEF MemoryType
    <3>2. QED
      BY <1>t, <1>i, <1>2, <3>1, StaysCovered
  <2>4. QED
    BY <2>2, <2>3
<1>3. CASE Ends(p)
  <2>1. /\ timer' = [timer EXCEPT ![WorkerOf(p)] = [@ EXCEPT ![proc[p].job] = None]]
        /\ active' = [active EXCEPT ![WorkerOf(p)] = @ \ {proc[p].job}]
    BY <1>3 DEF Ends
  <2>2. ~(WorkerOf(p) = w /\ proc[p].job = j)
    BY <1>t, <2>1 DEF MemoryType
  <2>3. timer'[w][j] = timer[w][j] /\ active'[w] \subseteq active[w]
    BY <1>t, <2>1, <2>2 DEF MemoryType
  <2>4. QED
    BY <1>t, <1>i, <1>3, <2>2, <2>3, StaysCovered
<1>4. QED
  BY <1>1, <1>2, <1>3, CallEffect

LEMMA MapsInvWorkerStep ==
  ASSUME TypeInv, MapsInv,
         \/ \E v \in Worker, i \in JobId :
              HeartbeatSend(v, i) \/ HeartbeatAnswer(v, i) \/ HeartbeatFails(v, i)
         \/ \E v \in Worker : PollFails(v) \/ ShutdownBegin(v) \/ ShutdownStop(v) \/ Crash(v)
         \/ TimePasses
  PROVE  MapsInv'
<1> SUFFICES ASSUME NEW w \in Worker, NEW j \in JobId,
                    timer'[w][j] # None \/ (mode'[w] = "up" /\ j \in active'[w])
             PROVE  Covered(w, j)'
  BY MapsInvDef
<1>t. MemoryType /\ mode \in [Worker -> {"up", "draining", "stopped", "down"}]
  BY WorkerFacts
<1>i. timer[w][j] # None \/ (mode[w] = "up" /\ j \in active[w]) => Covered(w, j)
  BY MapsInvDef
<1>1. ASSUME NEW v \in Worker, NEW i \in JobId,
             HeartbeatSend(v, i) \/ HeartbeatAnswer(v, i) \/ HeartbeatFails(v, i)
      PROVE  Covered(w, j)'
  <2>1. proc' = proc /\ active' = active /\ mode' = mode
    BY <1>1 DEF HeartbeatSend, HeartbeatAnswer, HeartbeatFails, memory
  <2>2. timer' = timer \/ timer' = [timer EXCEPT ![v] = [@ EXCEPT ![i] = None]]
    BY <1>1 DEF HeartbeatSend, HeartbeatAnswer, HeartbeatFails, memory
  <2>3. timer'[w][j] # None => timer[w][j] # None
    BY <1>t, <2>2 DEF MemoryType
  <2>4. QED
    BY <1>i, <2>1, <2>3 DEF Covered, Executing
<1>2. ASSUME NEW v \in Worker, PollFails(v) \/ ShutdownBegin(v) \/ ShutdownStop(v)
      PROVE  Covered(w, j)'
  <2>1. proc' = proc /\ active' = active /\ (mode'[w] = "up" => mode[w] = "up")
    BY <1>t, <1>2 DEF PollFails, ShutdownBegin, ShutdownStop, memory
  <2>2. timer' = timer \/ timer' = [timer EXCEPT ![v] = NoTokens]
    BY <1>2 DEF PollFails, ShutdownBegin, ShutdownStop, memory
  <2>3. timer'[w][j] # None => timer[w][j] # None
    BY <1>t, <2>2 DEF MemoryType, NoTokens
  <2>4. QED
    BY <1>i, <2>1, <2>3 DEF Covered, Executing
<1>3. ASSUME NEW v \in Worker, Crash(v)
      PROVE  Covered(w, j)'
  <2>1. w # v
    BY <1>t, <1>3 DEF Crash, MemoryType, NoTokens
  <2>2. timer'[w] = timer[w] /\ active'[w] = active[w] /\ mode'[w] = mode[w]
    BY <1>t, <1>3, <2>1 DEF Crash, MemoryType
  <2>3. \A q \in Proc : WorkerOf(q) = w => proc'[q] = proc[q]
    BY <1>3, <2>1 DEF Crash
  <2>4. Covered(w, j)
    BY <1>i, <2>2
  <2>5. QED
    BY <2>3, <2>4, CoveredDef DEF Executing
<1>4. CASE TimePasses
  <2>1. \A q \in Proc : proc'[q].pc = proc[q].pc /\ proc'[q].job = proc[q].job
    BY <1>4, TypeInvFacts DEF TimePasses, Call
  <2>2. timer' = timer /\ active' = active /\ mode' = mode
    BY <1>4 DEF TimePasses, memory
  <2>3. Covered(w, j)
    BY <1>i, <2>2
  <2>4. QED
    BY <2>1, <2>3, CoveredDef DEF Executing
<1>5. QED
  BY <1>1, <1>2, <1>3, <1>4

LEMMA MapsInvStep == TypeInv /\ MapsInv /\ [Next]_vars => MapsInv'
<1>1. CASE UNCHANGED vars
  BY <1>1 DEF vars, memory, MapsInv, NoOrphanHeartbeat, CapacityReturned, Executing
<1>2. CASE Next
  BY <1>2, MapsInvCallStep, MapsInvWorkerStep, WorkerOrClock
<1>3. QED
  BY <1>1, <1>2

LEMMA MapsInvInit == Init => MapsInv
  BY DEF Init, MapsInv, NoOrphanHeartbeat, CapacityReturned, NoTokens

LEMMA MapsInvariant == Spec => []MapsInv
  BY TypeInvInit, TypeInvStep, MapsInvInit, MapsInvStep, PTL DEF Spec

\* No heartbeat outlives its execution: while a timer renews a job's lease,
\* some call of that worker is executing the job.
THEOREM HeartbeatsEnd == Spec => []NoOrphanHeartbeat
  BY MapsInvariant, PTL DEF MapsInv

\* A worker that is up never counts a job as active that none of its calls
\* executes: whatever executions share a job and in whatever order they end,
\* capacity comes back.
THEOREM CapacityComesBack == Spec => []CapacityReturned
  BY MapsInvariant, PTL DEF MapsInv

-----------------------------------------------------------------------------
(* What a step of a call does to a row.                                     *)

Executor == {"markWaiting", "markCompleted", "markFailed"}

\* The row is created, claimed, or given an outcome by a call that was handed
\* its generation and, if that call executed it, that is of the row's worker.
RowStep(p, j) ==
  \/ job'[j] = job[j]
  \/ job[j].status = "ABSENT" /\ job'[j].gen = job[j].gen
  \/ /\ proc[p].pc = "claimUpdate" /\ proc[p].job = j
     /\ ClaimLease(j, WorkerOf(p), proc[p].gen, proc[p].age)
     /\ proc'[p].pc # "claimUpdate"
  \/ /\ proc[p].pc \in OutcomePc /\ proc[p].job = j /\ proc[p].gen = job[j].gen
     /\ job'[j].gen = job[j].gen
     /\ proc[p].pc \in Executor => job[j].worker = WorkerOf(p)

\* What a statement that gives an outcome does to a row.
LEMMA OutcomeRow ==
  ASSUME TypeOK, NEW i \in JobId, NEW j \in JobId, NEW w, NEW g \in Generation,
         MarkWaiting(i, w, g) \/ MarkCompleted(i, w, g) \/ MarkFailed(i, w, g)
  PROVE  \/ job'[j] = job[j]
         \/ /\ j = i /\ job[j].gen = g /\ job'[j].gen = job[j].gen
            /\ w # None => job[j].worker = w
<1>t. job \in [JobId -> Row] /\ job[j] \in Row /\ job[i] \in Row
  BY DEF TypeOK
<1>n. g # None
  BY NoneAssumption DEF Generation
<1>1. CASE MarkWaiting(i, w, g)
  BY <1>1, <1>t DEF MarkWaiting, Fenced, Row
<1>2. CASE MarkCompleted(i, w, g)
  BY <1>2, <1>t DEF MarkCompleted, Fenced, Row
<1>3. CASE MarkFailed(i, w, g)
  BY <1>3, <1>t, <1>n DEF MarkFailed, FailMatches, Row
<1>4. QED
  BY <1>1, <1>2, <1>3

\* The statement a call awaits, run to its end or failing, where the call goes
\* on to something else.
LEMMA StatementRow ==
  ASSUME TypeInv, NEW p \in Proc, MaybeRun(p), NEW j \in JobId,
         proc[p].pc = "claimUpdate" => proc'[p].pc # "claimUpdate"
  PROVE  RowStep(p, j)
<1> DEFINE c == proc[p]
           w == WorkerOf(p)
<1>t. TypeOK /\ c \in Call /\ Prepared(c) /\ w \in Worker /\ w # None
  BY TypeInvFacts, WorkerOfType, NoneAssumption
<1>1. CASE UNCHANGED storeVars
  BY <1>1 DEF RowStep, storeVars
<1>2. CASE c.pc = "enqueueCreate" /\ \E i \in JobId : Create(i, c.run, None)
  BY <1>t, <1>2 DEF Create, Fresh, RowStep, TypeOK
<1>3. CASE c.pc = "claimUpdate" /\ ClaimLease(c.job, w, c.gen, c.age)
  BY <1>t, <1>3 DEF ClaimLease, RowStep, TypeOK
<1>4. ASSUME c.pc \in OutcomePc, NEW v, c.pc \in Executor => v = w,
             MarkWaiting(c.job, v, c.gen) \/ MarkCompleted(c.job, v, c.gen)
               \/ MarkFailed(c.job, v, c.gen)
      PROVE  RowStep(p, j)
  <2>1. c.job \in JobId /\ c.gen \in Generation
    BY <1>4, <1>t DEF Prepared, OutcomePc, ExecutePc, RecoverPc
  <2>2. QED
    BY <1>t, <1>4, <2>1, OutcomeRow DEF RowStep
<1>5. CASE c.pc \in Executor /\ Statement(p)
  BY <1>4, <1>5 DEF Statement, OutcomePc, Executor
<1>6. CASE c.pc = "directMark" /\ Statement(p)
  BY <1>4, <1>6 DEF Statement, OutcomePc, Executor
<1>7. CASE c.pc = "recoverComplete" /\ Statement(p)
  <2> DEFINE v == IF c.owner = None THEN w ELSE c.owner
  <2>1. MarkCompleted(c.job, v, c.gen)
    BY <1>7 DEF Statement
  <2> HIDE DEF v
  <2>2. QED
    BY <1>4, <1>7, <2>1 DEF OutcomePc, Executor
<1>8. CASE c.pc = "recoverFail" /\ Statement(p)
  BY <1>4, <1>8 DEF Statement, OutcomePc, Executor
<1>9. QED
  BY <1>1, <1>2, <1>3, <1>5, <1>6, <1>7, <1>8 DEF MaybeRun, Statement, Executor

\* A step of a call runs the statement the call awaits, or none.
LEMMA CallRunsStatement ==
  ASSUME NEW p \in Proc, CallOf(p)
  PROVE  MaybeRun(p)
<1>1. CASE Direct(p)
  BY <1>1 DEF Direct, DirectRun, DirectRead, DirectMark, MaybeRun, Statement
<1>2. CASE Enqueue(p)
  BY <1>2 DEF Enqueue, EnqueueFind, EnqueueCreate, MaybeRun, Statement
<1>3. CASE Claim(p)
  BY <1>3 DEF Claim, ClaimRead, ClaimUpdate, ClaimReread, MaybeRun, Statement
<1>4. CASE ExecRead(p) \/ Orchestrate(p)
  BY <1>4
  DEF ExecRead, Orchestrate, OrchestratorVerifies, OrchestratorReturns, OrchestratorThrows,
      MaybeRun
<1>5. CASE Finish(p)
  BY <1>5 DEF Finish, FinishWaiting, FinishCompleted, FinishFailed, MaybeRun, Statement
<1>6. CASE Recover(p)
  BY <1>6
  DEF Recover, RecoverInspect, RecoverReconcile, RecoverComplete, RecoverFail,
      MaybeRun, Statement
<1>7. CASE Fail(p)
  BY <1>7
  DEF Fail, CallThrows, ReconcileThrows, ExecutionThrows, RunUnread, FailedUnrecorded,
      InspectionFails, MaybeRun
<1>8. QED
  BY <1>1, <1>2, <1>3, <1>4, <1>5, <1>6, <1>7
  DEF CallOf, Request, PollFind, RecoverFind, MaybeRun

\* A claim is one UPDATE: the call that sent it goes on.
LEMMA ClaimSentOnce ==
  ASSUME TypeInv, NEW p \in Proc, CallOf(p), proc[p].pc = "claimUpdate"
  PROVE  proc'[p].pc # "claimUpdate"
<1> DEFINE c == proc[p]
<1>t. c \in Call /\ proc \in [Proc -> Call]
  BY TypeInvFacts
<1>1. ClaimUpdate(p) \/ CallThrows(p)
  BY DEF CallOf, Request, Direct, DirectRun, DirectRead, DirectMark,
         Enqueue, EnqueueFind, EnqueueCreate, Claim, ClaimRead, ClaimReread,
         ExecRead, Orchestrate, OrchestratorVerifies, OrchestratorReturns, OrchestratorThrows,
         Finish, FinishWaiting, FinishCompleted, FinishFailed, PollFind, RecoverFind,
         Recover, RecoverInspect, RecoverReconcile, RecoverComplete, RecoverFail,
         Fail, ReconcileThrows, ExecutionThrows, RunUnread, FailedUnrecorded, InspectionFails
<1>2. CASE CallThrows(p)
  BY <1>2, <1>t DEF CallThrows, Becomes, Idle
<1>3. CASE NotAcquired(p, c)
  <2>1. PICK d \in PreparedCall :
          Becomes(p, d) /\ d.pc \in {"idle", "recoverInspect", "claimRead"}
    BY <1>t, <1>3, NotAcquiredPrepared
  <2>2. QED
    BY <1>t, <2>1 DEF Becomes
<1>4. CASE Becomes(p, [c EXCEPT !.pc = "claimReread", !.age = 0])
  <2>1. [c EXCEPT !.pc = "claimReread", !.age = 0].pc = "claimReread"
    BY <1>t DEF Call
  <2>2. QED
    BY <1>t, <1>4, <2>1 DEF Becomes
<1>5. QED
  BY <1>1, <1>2, <1>3, <1>4 DEF ClaimUpdate

LEMMA CallRowStep ==
  ASSUME TypeInv, NEW p \in Proc, CallOf(p), NEW j \in JobId
  PROVE  RowStep(p, j)
  BY CallRunsStatement, ClaimSentOnce, StatementRow

\* Heartbeats, shutdowns, crashes and the clock give no job an outcome.
LEMMA WorkerRowStep ==
  ASSUME TypeInv, NEW j \in JobId,
         \/ \E v \in Worker, i \in JobId :
              HeartbeatSend(v, i) \/ HeartbeatAnswer(v, i) \/ HeartbeatFails(v, i)
         \/ \E v \in Worker : PollFails(v) \/ ShutdownBegin(v) \/ ShutdownStop(v) \/ Crash(v)
         \/ TimePasses
  PROVE  job'[j].status = job[j].status /\ job'[j].gen = job[j].gen
<1>t. job \in [JobId -> Row] /\ job[j] \in Row
  BY TypeInvFacts DEF TypeOK
<1>1. ASSUME NEW v \in Worker, NEW i \in JobId,
             HeartbeatSend(v, i) \/ HeartbeatAnswer(v, i) \/ HeartbeatFails(v, i)
      PROVE  job'[j].status = job[j].status /\ job'[j].gen = job[j].gen
  <2>1. RenewLease(i, v, beat[v][i].gen, beat[v][i].age) \/ UNCHANGED storeVars
    BY <1>1 DEF HeartbeatSend, HeartbeatAnswer, HeartbeatFails
  <2>2. QED
    BY <1>t, <2>1 DEF RenewLease, storeVars, Row
<1>2. CASE \E v \in Worker : PollFails(v) \/ ShutdownBegin(v) \/ ShutdownStop(v) \/ Crash(v)
  BY <1>2 DEF PollFails, ShutdownBegin, ShutdownStop, Crash, storeVars
<1>3. CASE TimePasses
  BY <1>t, <1>3 DEF TimePasses, Tick, AgeLeases, Row
<1>4. QED
  BY <1>1, <1>2, <1>3

LEMMA OwnershipInvariant == Spec => []LeaseOwnership
  BY CoordinatorUsesStore, StoreLeaseOwnership, PTL DEF UsesStore

\* Whatever an executor or a recovery scan left over from an earlier
\* generation still does, a running job gets its outcome from a call that was
\* handed the current one, and of two executors handed the same generation only
\* from the one it was granted to.
THEOREM OutcomesFenced == Spec => FencedOutcome
<1> DEFINE By(p, j) ==
      /\ proc[p].job = j
      /\ proc[p].gen = job[j].gen
      /\ \/ /\ proc[p].pc \in {"markWaiting", "markCompleted", "markFailed"}
            /\ WorkerOf(p) = grantee[j][job[j].gen]
         \/ proc[p].pc \in {"recoverComplete", "recoverFail", "directMark"}
<1>1. ASSUME TypeInv, LeaseOwnership, [Next]_vars, NEW j \in JobId,
             job[j].status = "RUNNING", job'[j].status # "RUNNING"
      PROVE  \E p \in Proc : By(p, j)
  <2>1. CASE UNCHANGED vars
    BY <1>1, <2>1 DEF vars, storeVars
  <2>2. ASSUME NEW p \in Proc, CallOf(p)
        PROVE  By(p, j)
    <3>1. ASSUME ClaimLease(j, WorkerOf(p), proc[p].gen, proc[p].age)
          PROVE  job'[j].status = "RUNNING"
      BY <1>1, <3>1, TypeInvFacts DEF ClaimLease, TypeOK, Row
    <3>2. job[j].worker = grantee[j][job[j].gen]
      BY <1>1 DEF LeaseOwnership
    <3>3. QED
      BY <1>1, <2>2, <3>1, <3>2, CallRowStep DEF RowStep, OutcomePc, Executor
  <2>3. QED
    BY <1>1, <2>1, <2>2, WorkerOrClock, WorkerRowStep
<1>2. TypeInv /\ LeaseOwnership /\ [Next]_vars =>
        [\A j \in JobId :
           job[j].status = "RUNNING" /\ job'[j].status # "RUNNING" =>
             \E p \in Proc : By(p, j)]_vars
  BY <1>1
<1>3. QED
  BY <1>2, TypeInvInit, TypeInvStep, OwnershipInvariant, PTL DEF Spec, FencedOutcome

-----------------------------------------------------------------------------
(* maxAttempts.                                                             *)

\* A claim of the recovery loop carries a generation it scanned, and one that
\* left an attempt over.
Within(c) ==
  c.pc \in {"claimRead", "claimUpdate"} /\ c.why = "recover" =>
    c.gen \in Generation /\ c.gen < MaxAttempts

LEMMA OtherPcWithin ==
  ASSUME NEW c, c.pc \notin {"claimRead", "claimUpdate"}
  PROVE  Within(c)
  BY DEF Within

LEMMA ExecuteWithin ==
  ASSUME TypeInv, NEW p \in Proc, NEW c \in Call, c.job \in JobId,
         NEW act \in SUBSET JobId, NEW tok \in [JobId -> Generation \cup {None}],
         c.why # "recover" \/ (c.job \in act /\ tok[c.job] # None),
         Execute(p, c, act, tok)
  PROVE  Within(proc'[p])
<1>t. proc \in [Proc -> Call] /\ MemoryType
  BY TypeInvFacts
<1>1. CASE Start(p, c, act, tok, tok[c.job]) /\ tok[c.job] # None
  <2>1. tok[c.job] \in Generation
    BY <1>1
  <2>2. PICK d \in PreparedCall : Becomes(p, d) /\ d.pc = "execRead"
    BY <1>1, <1>t, <2>1, StartPrepared
  <2>3. QED
    BY <1>t, <2>2, OtherPcWithin DEF Becomes
<1>2. CASE Return(p, c)
  <2>1. PICK d \in PreparedCall : Becomes(p, d) /\ d.pc \in {"idle", "recoverInspect"}
    BY <1>2, ReturnPrepared
  <2>2. QED
    BY <1>t, <2>1, OtherPcWithin DEF Becomes
<1>3. CASE /\ c.why # "recover"
           /\ Becomes(p, [c EXCEPT !.pc = "claimRead", !.gen = None, !.age = 0])
  <2> DEFINE d == [c EXCEPT !.pc = "claimRead", !.gen = None, !.age = 0]
  <2>1. d.why # "recover"
    BY <1>3 DEF Call
  <2>2. proc'[p] = d
    BY <1>3, <1>t DEF Becomes
  <2> HIDE DEF d
  <2>3. QED
    BY <2>1, <2>2 DEF Within
<1>4. QED
  BY <1>1, <1>2, <1>3 DEF Execute

\* A poll's next candidate is no claim of the recovery loop, and the loop
\* inspects a job before it claims it.
LEMMA ToNextWithin ==
  ASSUME TypeInv, NEW p \in Proc, NEW todo \in SUBSET Snapshot,
         ToNextCandidate(p, todo) \/ ToNextStale(p, todo)
  PROVE  Within(proc'[p])
<1>t. proc \in [Proc -> Call] /\ Within(Idle)
  BY TypeInvFacts DEF Within, Idle
<1>1. CASE ToNextStale(p, todo)
  <2>1. PICK d \in PreparedCall : Becomes(p, d) /\ d.pc \in {"idle", "recoverInspect"}
    BY <1>1, ToNextStalePrepared
  <2>2. QED
    BY <1>t, <2>1, OtherPcWithin DEF Becomes
<1>2. CASE ToNextCandidate(p, todo) /\ todo # {}
  <2>1. PICK s \in todo :
          Becomes(p, [Idle EXCEPT !.pc = "claimRead", !.why = "poll", !.job = s.job,
                                  !.gen = s.gen, !.todo = todo \ {s}])
    BY <1>2 DEF ToNextCandidate
  <2> DEFINE d == [Idle EXCEPT !.pc = "claimRead", !.why = "poll", !.job = s.job,
                               !.gen = s.gen, !.todo = todo \ {s}]
  <2>2. d.why = "poll" /\ proc'[p] = d
    BY <1>t, <2>1 DEF Idle, Becomes
  <2> HIDE DEF d
  <2>3. QED
    BY <2>2 DEF Within
<1>3. CASE Becomes(p, Idle)
  BY <1>t, <1>3 DEF Becomes
<1>4. QED
  BY <1>1, <1>2, <1>3 DEF ToNextCandidate

LEMMA NotAcquiredWithin ==
  ASSUME TypeInv, NEW p \in Proc, NEW c \in Call, NotAcquired(p, c)
  PROVE  Within(proc'[p])
<1>t. proc \in [Proc -> Call]
  BY TypeInvFacts
<1>1. CASE Return(p, c)
  <2>1. PICK d \in PreparedCall : Becomes(p, d) /\ d.pc \in {"idle", "recoverInspect"}
    BY <1>1, ReturnPrepared
  <2>2. QED
    BY <1>t, <2>1, OtherPcWithin DEF Becomes
<1>2. CASE ToNextCandidate(p, c.todo)
  BY <1>2, ToNextWithin DEF Call
<1>3. QED
  BY <1>1, <1>2 DEF NotAcquired

LEMMA RetryWithin ==
  ASSUME TypeInv, NEW p \in Proc, NEW c \in Call, c.gen \in Generation, Retry(p, c)
  PROVE  Within(proc'[p])
<1> DEFINE pc == IF c.gen < MaxAttempts THEN "claimRead" ELSE "recoverFail"
           d == [c EXCEPT !.pc = pc, !.owner = None]
<1>1. proc'[p] = d
  BY TypeInvFacts DEF Retry, Becomes
<1>2. d.pc = pc /\ d.gen = c.gen
  BY DEF Call
<1> HIDE DEF d
<1>3. QED
  BY <1>1, <1>2 DEF Within

LEMMA WithinCallStep ==
  ASSUME TypeInv, NEW p \in Proc, Within(proc[p]), CallOf(p)
  PROVE  Within(proc'[p])
<1> DEFINE c == proc[p]
           w == WorkerOf(p)
<1>t. /\ proc \in [Proc -> Call] /\ c \in Call /\ Prepared(c) /\ w \in Worker
      /\ active[w] \in SUBSET JobId /\ token[w] \in [JobId -> Generation \cup {None}]
  BY TypeInvFacts, WorkerOfType DEF MemoryType
<1>e. CASE Executing(p) \/ Starts(p)
  <2>1. PICK d \in PreparedCall :
          Becomes(p, d) /\ d.pc \in ExecutePc \cup {"idle", "recoverInspect"}
    BY <1>e, CallEffect DEF Quiet, Starts, Ends, ExecutePc
  <2>2. QED
    BY <1>t, <2>1, OtherPcWithin DEF Becomes, ExecutePc
<1>1. ASSUME NEW r \in Run, NEW route \in Route, Request(p, r, route)
      PROVE  Within(proc'[p])
  <2>1. route # "recover"
    BY CoordinatorAssumption
  <2>2. proc'[p].why = route
    BY <1>1, <1>t DEF Request, Becomes, Idle
  <2>3. QED
    BY <2>1, <2>2 DEF Within
<1>2. CASE Direct(p)
  <2>1. CASE DirectRun(p)
    <3>1. PICK s \in RunStatus \ {"ACTIVE"} :
            Becomes(p, [c EXCEPT !.pc = "enqueueFind",
                          !.why = IF s = "WAITING" THEN "waited" ELSE "finished"])
      BY <2>1 DEF DirectRun
    <3> DEFINE d == [c EXCEPT !.pc = "enqueueFind",
                       !.why = IF s = "WAITING" THEN "waited" ELSE "finished"]
    <3>2. d.pc = "enqueueFind" /\ proc'[p] = d
      BY <1>t, <3>1 DEF Call, Becomes
    <3> HIDE DEF d
    <3>3. QED
      BY <3>2, OtherPcWithin
  <2>2. CASE DirectRead(p) \/ DirectMark(p)
    <3> DEFINE d == [c EXCEPT !.pc = "directMark", !.owner = job[c.job].worker,
                              !.gen = job[c.job].gen]
    <3>1. Becomes(p, Idle) \/ Becomes(p, d)
      BY <2>2 DEF DirectRead, DirectMark
    <3>2. d.pc = "directMark" /\ Idle.pc = "idle"
      BY <1>t DEF Call, Idle
    <3> HIDE DEF d
    <3>3. QED
      BY <1>t, <3>1, <3>2, OtherPcWithin DEF Becomes
  <2>3. QED
    BY <1>2, <2>1, <2>2 DEF Direct
<1>3. CASE Enqueue(p)
  <2>1. ASSUME NEW j \in JobId, c.pc \in {"enqueueFind", "enqueueCreate"}, Enqueued(p, j)
        PROVE  Within(proc'[p])
    <3> DEFINE e == [c EXCEPT !.job = j, !.run = None]
    <3>1. e \in Call /\ e.job = j /\ e.why = c.why /\ c.why # "recover"
      BY <1>t, <2>1 DEF Call, Prepared
    <3>2. CASE Execute(p, e, active[w], token[w])
      BY <1>t, <3>1, <3>2, ExecuteWithin
    <3>3. CASE Becomes(p, Idle)
      BY <1>t, <3>3 DEF Becomes, Idle, Within
    <3>4. CASE Becomes(p, [e EXCEPT !.pc = "directRead"])
      <4>1. [e EXCEPT !.pc = "directRead"].pc = "directRead"
        BY <3>1 DEF Call
      <4>2. QED
        BY <1>t, <3>4, <4>1, OtherPcWithin DEF Becomes
    <3>5. c.why \in {"runSync", "runAsync", "resume", "waited", "finished"}
      BY <1>t, <2>1 DEF Prepared
    <3>6. QED
      BY <2>1, <3>1, <3>2, <3>3, <3>4, <3>5 DEF Enqueued
  <2>2. CASE Becomes(p, [c EXCEPT !.pc = "enqueueCreate"])
    BY <1>t, <2>2 DEF Becomes, Call, Within
  <2>3. QED
    BY <1>3, <2>1, <2>2 DEF Enqueue, EnqueueFind, EnqueueCreate, ActiveJobsOf
<1>4. CASE Claim(p)
  <2>2. CASE ClaimRead(p)
    <3>1. CASE /\ c.gen = None \/ c.gen = job[c.job].gen
               /\ Becomes(p, [c EXCEPT !.pc = "claimUpdate", !.gen = job[c.job].gen])
      <4> DEFINE d == [c EXCEPT !.pc = "claimUpdate", !.gen = job[c.job].gen]
      <4>1. proc'[p] = d /\ d.why = c.why /\ d.gen = job[c.job].gen /\ c.pc = "claimRead"
        BY <1>t, <2>2, <3>1 DEF Becomes, Call, ClaimRead
      <4> HIDE DEF d
      <4>2. c.why = "recover" => c.gen \in Generation /\ c.gen < MaxAttempts
        BY <4>1 DEF Within
      <4>3. c.why = "recover" => c.gen = job[c.job].gen
        BY <3>1, <4>2, NoneAssumption DEF Generation
      <4>4. QED
        BY <4>1, <4>2, <4>3 DEF Within
    <3>2. CASE NotAcquired(p, c)
      BY <1>t, <3>2, NotAcquiredWithin
    <3>3. QED
      BY <2>2, <3>1, <3>2 DEF ClaimRead
  <2>3. CASE ClaimUpdate(p)
    <3>1. CASE Becomes(p, [c EXCEPT !.pc = "claimReread", !.age = 0])
      BY <1>t, <3>1 DEF Becomes, Call, Within
    <3>2. CASE NotAcquired(p, c)
      BY <1>t, <3>2, NotAcquiredWithin
    <3>3. QED
      BY <2>3, <3>1, <3>2 DEF ClaimUpdate
  <2>4. CASE ClaimReread(p)
    <3> DEFINE g   == job[c.job].gen
               tok == [token[w] EXCEPT ![c.job] = g]
    <3>1. /\ c.job \in JobId /\ g \in Generation /\ g # None
          /\ tok \in [JobId -> Generation \cup {None}] /\ tok[c.job] = g
      <4>1. c.job \in JobId
        BY <1>t, <2>4 DEF ClaimReread, Prepared
      <4>2. g \in Generation /\ g # None
        BY <4>1, TypeInvFacts, NoneAssumption DEF TypeOK, Row, Generation
      <4>3. QED
        BY <1>t, <4>1, <4>2
    <3> DEFINE e == [c EXCEPT !.why = "async", !.todo = {}]
    <3>2. e \in Call /\ e.job = c.job /\ e.why = "async"
      BY <1>t DEF Call
    <3>3. CASE Execute(p, e, active[w], tok)
      <4> HIDE DEF e, tok
      <4>1. QED
        BY <1>t, <3>1, <3>2, <3>3, ExecuteWithin
    <3>4. CASE Execute(p, c, active[w] \cup {c.job}, tok)
      <4> HIDE DEF tok
      <4>1. QED
        BY <1>t, <3>1, <3>4, ExecuteWithin
    <3>5. CASE Start(p, c, active[w], tok, g)
      <4>1. PICK d \in PreparedCall : Becomes(p, d) /\ d.pc = "execRead"
        BY <1>t, <3>1, <3>5, StartPrepared, TypeInvFacts
      <4>2. QED
        BY <1>t, <4>1, OtherPcWithin DEF Becomes
    <3>6. QED
      BY <2>4, <3>3, <3>4, <3>5 DEF ClaimReread
  <2>5. QED
    BY <1>4, <2>2, <2>3, <2>4 DEF Claim
<1>5. CASE ToNextStale(p, c.todo) \/ Becomes(p, Idle)
  <2>1. CASE ToNextStale(p, c.todo)
    BY <1>t, <2>1, ToNextWithin DEF Call
  <2>2. CASE Becomes(p, Idle)
    BY <1>t, <2>2 DEF Becomes, Idle, Within
  <2>3. QED
    BY <1>5, <2>1, <2>2
<1>6. CASE PollFind(p) \/ RecoverFind(p)
  <2>1. /\ SnapshotsOf(Candidates(0)) \in SUBSET Snapshot
        /\ SnapshotsOf(ExpiredJobs(0)) \in SUBSET Snapshot
    BY SnapshotsType, TypeInvFacts DEF Candidates, ExpiredJobs
  <2>2. QED
    BY <1>6, <2>1, ToNextWithin DEF PollFind, RecoverFind
<1>7. CASE Recover(p)
  <2>1. CASE RecoverInspect(p)
    <3>1. c.gen \in Generation
      BY <1>t, <2>1 DEF RecoverInspect, Prepared, RecoverPc
    <3>2. CASE Becomes(p, [c EXCEPT !.pc = "recoverReconcile"])
      BY <1>t, <3>2 DEF Becomes, Call, Within
    <3>3. QED
      BY <1>t, <2>1, <3>1, <3>2, RetryWithin DEF RecoverInspect
  <2>2. CASE RecoverReconcile(p)
    BY <1>t, <2>2 DEF RecoverReconcile, Becomes, Call, Within
  <2>3. QED
    BY <1>5, <1>7, <2>1, <2>2 DEF Recover, RecoverComplete, RecoverFail
<1>8. CASE Fail(p)
  <2>1. CASE InspectionFails(p)
    BY <1>t, <2>1, RetryWithin DEF InspectionFails, Prepared, RecoverPc
  <2>2. CASE ExecutionThrows(p) \/ RunUnread(p) \/ FailedUnrecorded(p)
    BY <1>e, <2>2 DEF ExecutionThrows, RunUnread, FailedUnrecorded, Executing, ExecutePc
  <2>3. QED
    BY <1>5, <1>8, <2>1, <2>2 DEF Fail, CallThrows, ReconcileThrows
<1>9. CASE ExecRead(p) \/ Orchestrate(p) \/ Finish(p)
  BY <1>e, <1>9
  DEF ExecRead, Orchestrate, OrchestratorVerifies, OrchestratorReturns, OrchestratorThrows,
      Finish, FinishWaiting, FinishCompleted, FinishFailed, Executing, ExecutePc
<1>10. QED
  BY <1>1, <1>2, <1>3, <1>4, <1>6, <1>7, <1>8, <1>9 DEF CallOf

ClaimsWithin == \A p \in Proc : Within(proc[p])

LEMMA ClaimsWithinStep == TypeInv /\ ClaimsWithin /\ [Next]_vars => ClaimsWithin'
<1> SUFFICES ASSUME TypeInv, ClaimsWithin, [Next]_vars, NEW q \in Proc
             PROVE  Within(proc'[q])
  BY DEF ClaimsWithin, Within
<1>q. Within(proc[q])
  BY DEF ClaimsWithin
<1>1. CASE proc' = proc
  BY <1>1, <1>q
<1>2. ASSUME NEW p \in Proc, CallOf(p) PROVE Within(proc'[q])
  <2>1. PICK d \in PreparedCall : Becomes(p, d)
    BY <1>2, CallOfStep DEF CallStep
  <2>2. CASE q = p
    BY <1>2, <1>q, <2>2, WithinCallStep
  <2>3. CASE q # p
    BY <1>q, <2>1, <2>3, OthersKeep
  <2>4. QED
    BY <2>2, <2>3
<1>3. ASSUME NEW w \in Worker, Crash(w) PROVE Within(proc'[q])
  BY <1>3, <1>q DEF Crash, Idle, Within
<1>4. CASE TimePasses
  <2>1. /\ proc'[q].pc = proc[q].pc /\ proc'[q].why = proc[q].why
        /\ proc'[q].gen = proc[q].gen
    BY <1>4, TypeInvFacts DEF TimePasses, Call
  <2>2. QED
    BY <1>q, <2>1 DEF Within
<1>5. QED
  BY <1>1, <1>2, <1>3, <1>4, WorkerOrClock
  DEF vars, HeartbeatSend, HeartbeatAnswer, HeartbeatFails, PollFails,
      ShutdownBegin, ShutdownStop

\* A recovery loop never makes a generation past maxAttempts, however its scan,
\* its reads and its updates interleave with other claims of the job.
THEOREM RecoveryStaysWithin == Spec => RecoveryWithinAttempts
<1>1. Init => ClaimsWithin
  BY DEF Init, ClaimsWithin, Within, Idle
<1>2. ASSUME TypeInv, ClaimsWithin, [Next]_vars, NEW j \in JobId,
             job'[j].gen # job[j].gen, job[j].gen >= MaxAttempts
      PROVE  \E p \in Proc :
               /\ proc[p].pc = "claimUpdate" /\ proc[p].job = j
               /\ proc[p].why # "recover" /\ proc'[p].pc # "claimUpdate"
  <2>1. CASE UNCHANGED vars
    BY <1>2, <2>1 DEF vars, storeVars
  <2>2. ASSUME NEW p \in Proc, CallOf(p)
        PROVE  /\ proc[p].pc = "claimUpdate" /\ proc[p].job = j
               /\ proc[p].why # "recover" /\ proc'[p].pc # "claimUpdate"
    <3>1. /\ proc[p].pc = "claimUpdate" /\ proc[p].job = j
          /\ job[j].gen = proc[p].gen /\ proc'[p].pc # "claimUpdate"
      BY <1>2, <2>2, CallRowStep DEF RowStep, ClaimLease, Claimable
    <3>2. proc[p].gen \in Generation /\ ~(proc[p].gen < MaxAttempts)
      BY <1>2, <3>1, TypeInvFacts, CoordinatorAssumption DEF TypeOK, Row, Generation
    <3>3. QED
      BY <1>2, <3>1, <3>2 DEF ClaimsWithin, Within
  <2>3. QED
    BY <1>2, <2>1, <2>2, WorkerOrClock, WorkerRowStep
<1>3. TypeInv /\ ClaimsWithin /\ [Next]_vars =>
        [\A j \in JobId :
           job'[j].gen # job[j].gen /\ job[j].gen >= MaxAttempts =>
             \E p \in Proc : /\ proc[p].pc = "claimUpdate" /\ proc[p].job = j
                             /\ proc[p].why # "recover"
                             /\ proc'[p].pc # "claimUpdate"]_vars
  BY <1>2
<1>4. QED
  BY <1>1, <1>3, TypeInvInit, TypeInvStep, ClaimsWithinStep, PTL
  DEF Spec, RecoveryWithinAttempts

=============================================================================
