------------------------- MODULE ExecutionStoreProofs -------------------------
(***************************************************************************)
(* Proofs about the ExecutionJob table: whatever its callers do.           *)
(***************************************************************************)
EXTENDS ExecutionStore, TLAPS

\* leaseUntil one tick closer is still a distance a row can hold.
LEMMA AgedType ==
  ASSUME NEW x \in (Oldest..LeaseDuration) \cup {None}
  PROVE  /\ Aged(x) \in (Oldest..LeaseDuration) \cup {None}
         /\ Aged(x) = None <=> x = None
  BY NoneAssumption, BoundsAssumption DEF Aged, Oldest

\* Claims and renewals write a distance a row can hold.
LEMMA LeaseType ==
  ASSUME NEW age \in Age
  PROVE  LeaseDuration - age \in Oldest..LeaseDuration
  BY BoundsAssumption DEF Age, Oldest

\* Every statement keeps rows and history well-typed.
LEMMA TypeOKStep == TypeOK /\ [StoreNext]_storeVars => TypeOK'
<1> SUFFICES ASSUME TypeOK, [StoreNext]_storeVars PROVE TypeOK'
  OBVIOUS
<1> USE DEF TypeOK
<1>r. \A j \in JobId : job[j] \in Row
  OBVIOUS
<1>1. CASE Tick
  <2>1. ASSUME NEW j \in JobId PROVE [job[j] EXCEPT !.left = Aged(@)] \in Row
    BY <1>r, AgedType DEF Row
  <2>2. QED
    BY <1>1, <2>1 DEF Tick, AgeLeases
<1>2. ASSUME NEW j \in JobId, NEW r \in Run, NEW k \in Key \cup {None}, Create(j, r, k)
      PROVE  TypeOK'
  <2>1. [job[j] EXCEPT !.status = "QUEUED", !.run = r, !.key = k] \in Row
    BY <1>r DEF Row, Status
  <2>2. QED
    BY <1>2, <2>1 DEF Create
<1>3. ASSUME NEW j \in JobId, NEW w \in Worker, NEW g \in Generation, NEW age \in Age,
             ClaimLease(j, w, g, age)
      PROVE  TypeOK'
  <2>1. job[j].gen + 1 \in Generation /\ g + 1 \in Generation
    BY <1>3, <1>r, BoundsAssumption DEF ClaimLease, Claimable, Generation, Row
  <2>2. [job[j] EXCEPT !.status = "RUNNING", !.worker = w,
                       !.left = LeaseDuration - age, !.gen = job[j].gen + 1] \in Row
    BY <1>r, <2>1, LeaseType DEF Row, Status
  <2>3. [grantee[j] EXCEPT ![g + 1] = w] \in [Generation -> Worker \cup {None}]
    BY <2>1
  <2>4. QED
    BY <1>3, <2>2, <2>3 DEF ClaimLease
<1>4. ASSUME NEW j \in JobId, NEW w \in Worker, NEW g \in Generation, NEW age \in Age,
             RenewLease(j, w, g, age)
      PROVE  TypeOK'
  <2>1. [job[j] EXCEPT !.left = LeaseDuration - age] \in Row
    BY <1>r, LeaseType DEF Row
  <2>2. QED
    BY <1>4, <2>1 DEF RenewLease
<1>5. ASSUME NEW j \in JobId, NEW w \in Worker, NEW g \in Generation,
             MarkCompleted(j, w, g) \/ MarkWaiting(j, w, g)
      PROVE  TypeOK'
  <2>1. /\ [job[j] EXCEPT !.status = "COMPLETED", !.left = None] \in Row
        /\ [job[j] EXCEPT !.status = "WAITING", !.worker = None, !.left = None] \in Row
    BY <1>r DEF Row, Status
  <2>2. QED
    BY <1>5, <2>1 DEF MarkCompleted, MarkWaiting
<1>6. ASSUME NEW j \in JobId, NEW w \in Worker \cup {None},
             NEW g \in Generation \cup {None}, MarkFailed(j, w, g)
      PROVE  TypeOK'
  <2>1. [job[j] EXCEPT !.status = "FAILED", !.left = None] \in Row
    BY <1>r DEF Row, Status
  <2>2. QED
    BY <1>6, <2>1 DEF MarkFailed
<1>7. CASE UNCHANGED storeVars
  BY <1>7 DEF storeVars
<1>8. QED
  BY <1>1, <1>2, <1>3, <1>4, <1>5, <1>6, <1>7 DEF StoreNext

\* The table and the grant history are well-typed in every behaviour of the
\* store, whatever its callers do.
THEOREM StoreTypeCorrect == StoreSpec => []TypeOK
<1>1. StoreInit => TypeOK
  BY NoneAssumption, BoundsAssumption
  DEF StoreInit, TypeOK, Row, Status, AbsentRow, Generation
<1>2. QED
  BY <1>1, TypeOKStep, PTL DEF StoreSpec

-----------------------------------------------------------------------------
(* Ownership of leases. *)

\* Each statement preserves LeaseOwnership: a claim is the only one that sets
\* a worker, and it does so together with the new generation.
LEMMA LeaseOwnershipStep ==
  TypeOK /\ LeaseOwnership /\ [StoreNext]_storeVars => LeaseOwnership'
<1> SUFFICES ASSUME TypeOK, LeaseOwnership, [StoreNext]_storeVars PROVE LeaseOwnership'
  OBVIOUS
<1>t. /\ job \in [JobId -> Row]
      /\ grantee \in [JobId -> [Generation -> Worker \cup {None}]]
      /\ \A j \in JobId : job[j] \in Row
  BY DEF TypeOK
<1>1. CASE Tick
  <2>1. \A j \in JobId : job'[j] = [job[j] EXCEPT !.left = Aged(job[j].left)]
    BY <1>1 DEF Tick, AgeLeases
  <2>2. \A j \in JobId : Aged(job[j].left) = None <=> job[j].left = None
    BY <1>t, AgedType DEF Row
  <2>3. grantee' = grantee
    BY <1>1 DEF Tick
  <2>4. \A j \in JobId : /\ job'[j].status = job[j].status
                         /\ job'[j].worker = job[j].worker
                         /\ job'[j].gen = job[j].gen
                         /\ job'[j].left = Aged(job[j].left)
    BY <1>t, <2>1 DEF Row
  <2>5. QED
    BY <2>2, <2>3, <2>4 DEF LeaseOwnership
<1>2. ASSUME NEW j \in JobId, NEW r \in Run, NEW k \in Key \cup {None}, Create(j, r, k)
      PROVE  LeaseOwnership'
  BY <1>t, <1>2 DEF Create, Fresh, LeaseOwnership, Row
<1>3. ASSUME NEW j \in JobId, NEW w \in Worker, NEW g \in Generation, NEW age \in Age,
             ClaimLease(j, w, g, age)
      PROVE  LeaseOwnership'
  <2>1. /\ job' = [job EXCEPT ![j] = [job[j] EXCEPT !.status = "RUNNING", !.worker = w,
                               !.left = LeaseDuration - age, !.gen = g + 1]]
        /\ grantee' = [grantee EXCEPT ![j] = [grantee[j] EXCEPT ![g + 1] = w]]
        /\ job[j].gen = g
        /\ g + 1 \in Generation
    BY <1>3, BoundsAssumption DEF ClaimLease, Claimable, Generation
  <2>2. LeaseDuration - age # None
    BY LeaseType, NoneAssumption, BoundsAssumption DEF Oldest
  <2>3. ASSUME NEW i \in JobId, i # j
        PROVE  job'[i] = job[i] /\ grantee'[i] = grantee[i]
    BY <1>t, <2>1, <2>3
  <2>4. /\ job'[j].status = "RUNNING"
        /\ job'[j].worker = w
        /\ job'[j].left = LeaseDuration - age
        /\ job'[j].gen = g + 1
    BY <1>t, <2>1 DEF Row
  <2>5. /\ grantee'[j][g + 1] = w
        /\ \A h \in Generation : h > g + 1 => grantee'[j][h] = grantee[j][h]
    BY <1>t, <2>1, BoundsAssumption DEF Generation
  <2>6. \A h \in Generation : h > g + 1 => grantee'[j][h] = None
    BY <2>5, <2>1, BoundsAssumption DEF LeaseOwnership, Generation
  <2>7. QED
    BY <2>2, <2>3, <2>4, <2>5, <2>6, BoundsAssumption DEF LeaseOwnership, Generation
<1>4. ASSUME NEW j \in JobId, NEW w \in Worker, NEW g \in Generation, NEW age \in Age,
             RenewLease(j, w, g, age)
      PROVE  LeaseOwnership'
  <2>1. LeaseDuration - age # None
    BY LeaseType, NoneAssumption, BoundsAssumption DEF Oldest
  <2>2. QED
    BY <1>t, <1>4, <2>1 DEF RenewLease, Fenced, LeaseOwnership, Row
<1>5. ASSUME NEW j \in JobId, NEW w \in Worker, NEW g \in Generation,
             MarkCompleted(j, w, g) \/ MarkWaiting(j, w, g)
      PROVE  LeaseOwnership'
  <2>1. CASE MarkCompleted(j, w, g)
    BY <1>t, <2>1 DEF MarkCompleted, LeaseOwnership, Row
  <2>2. CASE MarkWaiting(j, w, g)
    BY <1>t, <2>2 DEF MarkWaiting, LeaseOwnership, Row
  <2>3. QED
    BY <1>5, <2>1, <2>2
<1>6. ASSUME NEW j \in JobId, NEW w \in Worker \cup {None},
             NEW g \in Generation \cup {None}, MarkFailed(j, w, g)
      PROVE  LeaseOwnership'
  BY <1>t, <1>6 DEF MarkFailed, FailMatches, LeaseOwnership, Row
<1>7. CASE UNCHANGED storeVars
  BY <1>7 DEF storeVars, LeaseOwnership
<1>8. QED
  BY <1>1, <1>2, <1>3, <1>4, <1>5, <1>6, <1>7 DEF StoreNext

\* In every behaviour of the store a running job belongs to the worker that
\* was granted its current generation: the fencing token of the row and the
\* worker on the row never disagree about who holds the lease.
THEOREM StoreLeaseOwnership == StoreSpec => []LeaseOwnership
<1>1. StoreInit => LeaseOwnership
  BY DEF StoreInit, LeaseOwnership, AbsentRow
<1>2. QED
  BY <1>1, LeaseOwnershipStep, StoreTypeCorrect, PTL DEF StoreSpec

-----------------------------------------------------------------------------
(* What a step may never do. *)

\* Only a claim changes a generation, and it needs the lease to have expired.
LEMMA LiveLeaseStep ==
  ASSUME TypeOK, [StoreNext]_storeVars, NEW j \in JobId,
         job[j].status = "RUNNING", job[j].left # None, job[j].left >= 0
  PROVE  job'[j].gen = job[j].gen
<1>t. job \in [JobId -> Row] /\ job[j] \in Row
  BY DEF TypeOK
<1>1. CASE Tick
  BY <1>1, <1>t DEF Tick, AgeLeases, Row
<1>2. ASSUME NEW i \in JobId, NEW r \in Run, NEW k \in Key \cup {None}, Create(i, r, k)
      PROVE  job'[j].gen = job[j].gen
  BY <1>2, <1>t DEF Create, Row
<1>3. ASSUME NEW i \in JobId, NEW w \in Worker, NEW g \in Generation, NEW age \in Age,
             ClaimLease(i, w, g, age)
      PROVE  job'[j].gen = job[j].gen
  <2>1. ~(job[j].left < -age)
    BY <1>t, BoundsAssumption DEF Row, Oldest, Age
  <2>2. i # j
    BY <1>3, <2>1 DEF ClaimLease, Claimable, Expired
  <2>3. QED
    BY <1>3, <1>t, <2>2 DEF ClaimLease
<1>4. ASSUME NEW i \in JobId, NEW w \in Worker, NEW g \in Generation, NEW age \in Age,
             RenewLease(i, w, g, age)
      PROVE  job'[j].gen = job[j].gen
  BY <1>4, <1>t DEF RenewLease, Row
<1>5. ASSUME NEW i \in JobId, NEW w \in Worker, NEW g \in Generation,
             MarkCompleted(i, w, g) \/ MarkWaiting(i, w, g)
      PROVE  job'[j].gen = job[j].gen
  <2>1. CASE MarkCompleted(i, w, g)
    BY <2>1, <1>t DEF MarkCompleted, Row
  <2>2. CASE MarkWaiting(i, w, g)
    BY <2>2, <1>t DEF MarkWaiting, Row
  <2>3. QED
    BY <1>5, <2>1, <2>2
<1>6. ASSUME NEW i \in JobId, NEW w \in Worker \cup {None},
             NEW g \in Generation \cup {None}, MarkFailed(i, w, g)
      PROVE  job'[j].gen = job[j].gen
  BY <1>6, <1>t DEF MarkFailed, Row
<1>7. CASE UNCHANGED storeVars
  BY <1>7 DEF storeVars
<1>8. QED
  BY <1>1, <1>2, <1>3, <1>4, <1>5, <1>6, <1>7 DEF StoreNext

\* Whatever stale timestamps and generations claimants bring, a lease that has
\* not expired is not taken over.
THEOREM StoreLiveLeaseNotStolen == StoreSpec => LiveLeaseNotStolen
<1>1. TypeOK /\ LeaseOwnership /\ [StoreNext]_storeVars =>
        [\A j \in JobId : (job[j].status = "RUNNING" /\ job[j].left >= 0)
                            => job'[j].gen = job[j].gen]_storeVars
  BY LiveLeaseStep DEF LeaseOwnership
<1>2. QED
  BY <1>1, StoreTypeCorrect, StoreLeaseOwnership, PTL DEF StoreSpec, LiveLeaseNotStolen

\* A grant, once made, stays: a claim grants the next generation, and those
\* above the current one are ungranted.
LEMMA GrantStays ==
  ASSUME TypeOK, LeaseOwnership, [StoreNext]_storeVars,
         NEW j \in JobId, NEW g \in Generation, grantee[j][g] # None
  PROVE  grantee'[j][g] = grantee[j][g]
<1>t. grantee \in [JobId -> [Generation -> Worker \cup {None}]] /\ job[j].gen \in Generation
  BY DEF TypeOK, Row
<1>1. CASE grantee' = grantee
  BY <1>1
<1>2. ASSUME NEW i \in JobId, NEW w \in Worker, NEW h \in Generation, NEW age \in Age,
             ClaimLease(i, w, h, age)
      PROVE  grantee'[j][g] = grantee[j][g]
  <2>1. CASE i # j
    BY <1>2, <1>t, <2>1 DEF ClaimLease
  <2>2. CASE i = j
    <3>1. job[j].gen = h /\ h < MaxGeneration
      BY <1>2, <2>2 DEF ClaimLease, Claimable
    <3>2. ~(g > job[j].gen)
      BY DEF LeaseOwnership
    <3>3. g # h + 1
      BY <1>t, <3>1, <3>2, BoundsAssumption DEF Generation
    <3>4. QED
      BY <1>2, <1>t, <2>2, <3>3 DEF ClaimLease
  <2>3. QED
    BY <2>1, <2>2
<1>3. QED
  BY <1>1, <1>2
  DEF StoreNext, storeVars, Tick, Create, RenewLease, MarkCompleted, MarkWaiting, MarkFailed

\* So no fencing token is ever given out twice.
THEOREM StoreGenerationGrantedOnce == StoreSpec => GenerationGrantedOnce
<1>1. TypeOK /\ LeaseOwnership /\ [StoreNext]_storeVars =>
        [\A j \in JobId, g \in Generation :
           grantee[j][g] # None => grantee'[j][g] = grantee[j][g]]_storeVars
  BY GrantStays
<1>2. QED
  BY <1>1, StoreTypeCorrect, StoreLeaseOwnership, PTL DEF StoreSpec, GenerationGrantedOnce

-----------------------------------------------------------------------------
(* The store implements the abstract lease. *)

PhaseOf == [j \in JobId |-> Phase(job[j].status)]
HolderOf == [j \in JobId |-> IF job[j].status = "RUNNING" THEN job[j].worker ELSE None]
GenOf == [j \in JobId |-> job[j].gen]

\* A step that leaves status, worker and generation of every row alone is a
\* stutter of the abstract lease.
LEMMA StutterStep ==
  ASSUME \A j \in JobId : /\ job'[j].status = job[j].status
                          /\ job'[j].worker = job[j].worker
                          /\ job'[j].gen = job[j].gen
  PROVE  PhaseOf' = PhaseOf /\ HolderOf' = HolderOf /\ GenOf' = GenOf
  BY DEF PhaseOf, HolderOf, GenOf, Phase

\* A step that writes one row changes the abstract lease of that job only.
LEMMA OneRowStep ==
  ASSUME NEW j \in JobId,
         \A i \in JobId : i # j => job'[i] = job[i]
  PROVE  /\ PhaseOf' = [PhaseOf EXCEPT ![j] = Phase(job'[j].status)]
         /\ HolderOf' = [HolderOf EXCEPT ![j] =
                           IF job'[j].status = "RUNNING" THEN job'[j].worker ELSE None]
         /\ GenOf' = [GenOf EXCEPT ![j] = job'[j].gen]
  BY DEF PhaseOf, HolderOf, GenOf

\* Every statement of the store is a step of the abstract lease or a stutter.
LEMMA RefinementStep ==
  TypeOK /\ [StoreNext]_storeVars => [Lease!Next]_(Lease!vars)
<1> SUFFICES ASSUME TypeOK, [StoreNext]_storeVars
             PROVE  \/ Lease!Next
                    \/ PhaseOf' = PhaseOf /\ HolderOf' = HolderOf /\ GenOf' = GenOf
  BY DEF Lease!vars, PhaseOf, HolderOf, GenOf
<1>t. job \in [JobId -> Row] /\ \A j \in JobId : job[j] \in Row
  BY DEF TypeOK
<1>1. CASE Tick
  <2>1. \A j \in JobId : /\ job'[j].status = job[j].status
                         /\ job'[j].worker = job[j].worker
                         /\ job'[j].gen = job[j].gen
    BY <1>1, <1>t DEF Tick, AgeLeases, Row
  <2>2. QED
    BY <2>1, StutterStep
<1>2. ASSUME NEW j \in JobId, NEW r \in Run, NEW k \in Key \cup {None}, Create(j, r, k)
      PROVE  Lease!Next
  <2>1. /\ \A i \in JobId : i # j => job'[i] = job[i]
        /\ job[j].status = "ABSENT"
        /\ job'[j].status = "QUEUED"
        /\ job'[j].gen = job[j].gen
    BY <1>2, <1>t DEF Create, Fresh, Row
  <2>2. /\ PhaseOf[j] = "absent" /\ Phase(job'[j].status) = "free"
        /\ HolderOf[j] = None /\ GenOf[j] = job[j].gen
        /\ PhaseOf \in [JobId -> {"absent", "free", "held", "closed"}]
        /\ DOMAIN HolderOf = JobId /\ DOMAIN GenOf = JobId
    BY <2>1 DEF PhaseOf, HolderOf, GenOf, Phase
  <2>3. PhaseOf' = [PhaseOf EXCEPT ![j] = "free"] /\ HolderOf' = HolderOf /\ GenOf' = GenOf
    BY <2>1, <2>2, OneRowStep DEF PhaseOf, HolderOf, GenOf
  <2>4. Lease!Create(j)
    BY <2>2, <2>3 DEF Lease!Create, PhaseOf, HolderOf, GenOf
  <2>5. QED
    BY <2>4 DEF Lease!Next
<1>3. ASSUME NEW j \in JobId, NEW w \in Worker, NEW g \in Generation, NEW age \in Age,
             ClaimLease(j, w, g, age)
      PROVE  Lease!Next
  <2>1. /\ \A i \in JobId : i # j => job'[i] = job[i]
        /\ job[j].status \in {"QUEUED", "WAITING", "RUNNING"}
        /\ job'[j].status = "RUNNING" /\ job'[j].worker = w
        /\ job'[j].gen = job[j].gen + 1
    BY <1>3, <1>t DEF ClaimLease, Claimable, Row
  <2>2. /\ PhaseOf' = [PhaseOf EXCEPT ![j] = "held"]
        /\ HolderOf' = [HolderOf EXCEPT ![j] = w]
        /\ GenOf' = [GenOf EXCEPT ![j] = @ + 1]
    BY <2>1, OneRowStep DEF Phase, GenOf
  <2>3. PhaseOf[j] \in {"free", "held"}
    BY <2>1 DEF PhaseOf, Phase
  <2>4. Lease!Grant(j, w)
    BY <2>2, <2>3 DEF Lease!Grant, PhaseOf, HolderOf, GenOf
  <2>5. QED
    BY <2>4 DEF Lease!Next
<1>4. ASSUME NEW j \in JobId, NEW w \in Worker, NEW g \in Generation, NEW age \in Age,
             RenewLease(j, w, g, age)
      PROVE  PhaseOf' = PhaseOf /\ HolderOf' = HolderOf /\ GenOf' = GenOf
  <2>1. \A i \in JobId : /\ job'[i].status = job[i].status
                         /\ job'[i].worker = job[i].worker
                         /\ job'[i].gen = job[i].gen
    BY <1>4, <1>t DEF RenewLease, Row
  <2>2. QED
    BY <2>1, StutterStep
<1>5. ASSUME NEW j \in JobId, NEW w \in Worker, NEW g \in Generation, MarkWaiting(j, w, g)
      PROVE  Lease!Next
  <2>1. /\ \A i \in JobId : i # j => job'[i] = job[i]
        /\ job[j].status = "RUNNING" /\ job'[j].status = "WAITING"
        /\ job'[j].gen = job[j].gen
    BY <1>5, <1>t DEF MarkWaiting, Fenced, Row
  <2>2. /\ PhaseOf' = [PhaseOf EXCEPT ![j] = "free"]
        /\ HolderOf' = [HolderOf EXCEPT ![j] = None]
        /\ GenOf' = GenOf
    BY <2>1, OneRowStep DEF Phase, GenOf
  <2>3. PhaseOf[j] = "held"
    BY <2>1 DEF PhaseOf, Phase
  <2>4. Lease!Yield(j)
    BY <2>2, <2>3 DEF Lease!Yield, PhaseOf, HolderOf, GenOf
  <2>5. QED
    BY <2>4 DEF Lease!Next
<1>6. ASSUME NEW j \in JobId,
             \A i \in JobId : i # j => job'[i] = job[i],
             job[j].status # "ABSENT",
             job'[j].status \in {"COMPLETED", "FAILED"},
             job'[j].gen = job[j].gen
      PROVE  Lease!Next \/ (PhaseOf' = PhaseOf /\ HolderOf' = HolderOf /\ GenOf' = GenOf)
  <2>1. /\ PhaseOf' = [PhaseOf EXCEPT ![j] = "closed"]
        /\ HolderOf' = [HolderOf EXCEPT ![j] = None]
        /\ GenOf' = GenOf
    BY <1>6, OneRowStep DEF Phase, GenOf
  <2>2. CASE job[j].status \in Terminal
    BY <2>1, <2>2 DEF PhaseOf, HolderOf, Phase, Terminal
  <2>3. CASE job[j].status \in Active
    <3>1. PhaseOf[j] \in {"free", "held"}
      BY <2>3 DEF PhaseOf, Phase, Active
    <3>2. Lease!Close(j)
      BY <2>1, <3>1 DEF Lease!Close, PhaseOf, HolderOf, GenOf
    <3>3. QED
      BY <3>2 DEF Lease!Next
  <2>4. QED
    BY <1>6, <1>t, <2>2, <2>3 DEF Row, Status, Active, Terminal
<1>7. ASSUME NEW j \in JobId, NEW w \in Worker, NEW g \in Generation, MarkCompleted(j, w, g)
      PROVE  Lease!Next \/ (PhaseOf' = PhaseOf /\ HolderOf' = HolderOf /\ GenOf' = GenOf)
  BY <1>6, <1>7, <1>t DEF MarkCompleted, Fenced, Row
<1>8. ASSUME NEW j \in JobId, NEW w \in Worker \cup {None},
             NEW g \in Generation \cup {None}, MarkFailed(j, w, g)
      PROVE  Lease!Next \/ (PhaseOf' = PhaseOf /\ HolderOf' = HolderOf /\ GenOf' = GenOf)
  BY <1>6, <1>8, <1>t DEF MarkFailed, FailMatches, Row
<1>9. CASE UNCHANGED storeVars
  BY <1>9, StutterStep DEF storeVars
<1>10. QED
  BY <1>1, <1>2, <1>3, <1>4, <1>5, <1>7, <1>8, <1>9 DEF StoreNext

\* Whatever its callers do, the store is a fenced lease per job: only claims
\* change the holder, each with a new generation, and a COMPLETED or FAILED
\* job is never claimable again.
THEOREM StoreImplementsFencedLease == StoreSpec => ImplementsFencedLease
<1>1. StoreInit => Lease!Init
  BY DEF StoreInit, AbsentRow, Lease!Init, Phase
<1>2. QED
  BY <1>1, RefinementStep, StoreTypeCorrect, PTL
  DEF StoreSpec, ImplementsFencedLease, Lease!Spec
=============================================================================
