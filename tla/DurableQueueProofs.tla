--------------------------- MODULE DurableQueueProofs ---------------------------
(***************************************************************************)
(* Whose statements may take a job of the work queue from its claim, and    *)
(* what may open a closed job again.                                        *)
(***************************************************************************)
EXTENDS DurableQueue, ExecutionStoreProofs

\* A generation has made nothing of a job before it is granted, a job without a
\* row was never claimed, and the two properties.
Unclaimed == \A j \in JobId : job[j].status = "ABSENT" => job[j].gen = 0
NotAhead == \A j \in JobId, g \in Generation : g > job[j].gen => ended[j][g] = {}

Inv ==
  /\ TypeOK
  /\ ended \in [JobId -> [Generation -> SUBSET Outcome]]
  /\ Unclaimed
  /\ NotAhead
  /\ HeldUntilFinished
  /\ DoneStaysDone

-----------------------------------------------------------------------------
(* The two kinds of steps: those that end nothing, and those that do. *)

\* A statement that leaves the generation and the status of every row alone.
Untouched ==
  \A j \in JobId : job'[j].status = job[j].status /\ job'[j].gen = job[j].gen

LEMMA UntouchedKeeps ==
  ASSUME Inv, TypeOK', ended' = ended, Untouched
  PROVE  Inv'
  BY DEF Inv, Unclaimed, NotAhead, HeldUntilFinished, DoneStaysDone, Untouched

\* The other rows stay as they are.
LEMMA CreateKeeps ==
  ASSUME Inv, NEW i \in JobId, NEW r \in Run, NEW k \in Key \cup {None}, Create(i, r, k),
         ended' = ended
  PROVE  Inv'
<1>1. job \in [JobId -> Row] /\ job[i] \in Row
  BY DEF Inv, TypeOK
<1>2. TypeOK'
  BY TypeOKStep DEF Inv, StoreNext
<1>3. job[i].status = "ABSENT" /\ job[i].gen = 0
  BY DEF Create, Fresh, Inv, Unclaimed
<1>4. /\ \A j \in JobId : j # i => job'[j] = job[j]
      /\ job'[i].status = "QUEUED" /\ job'[i].gen = 0
  BY <1>1, <1>3 DEF Create, Row
<1>5. \A g \in Generation : ended[i][g] = {} \/ "requeued" \in ended[i][g]
  BY <1>3 DEF Inv, DoneStaysDone, Terminal
<1>6. Unclaimed' /\ NotAhead'
  BY <1>3, <1>4 DEF Inv, Unclaimed, NotAhead
<1>7. HeldUntilFinished'
  BY <1>3, <1>4 DEF Inv, HeldUntilFinished
<1>8. DoneStaysDone'
  BY <1>3, <1>4, <1>5 DEF Inv, DoneStaysDone
<1>9. QED
  BY <1>2, <1>6, <1>7, <1>8 DEF Inv

\* A claimable job is not closed, and nothing was made of its next generation.
LEMMA ClaimKeeps ==
  ASSUME Inv, NEW i \in JobId, NEW w \in Worker, NEW g, NEW age \in Age,
         ClaimLease(i, w, g, age), ended' = ended
  PROVE  Inv'
<1>1. job \in [JobId -> Row] /\ job[i] \in Row
  BY DEF Inv, TypeOK
<1>2. g = job[i].gen /\ g \in Generation /\ g < MaxGeneration
      /\ job[i].status \in {"QUEUED", "WAITING", "RUNNING"}
  BY <1>1 DEF ClaimLease, Claimable, Row
<1>3. TypeOK'
  BY <1>2, TypeOKStep DEF Inv, StoreNext
<1>4. /\ \A j \in JobId : j # i => job'[j] = job[j]
      /\ job'[i].status = "RUNNING" /\ job'[i].gen = g + 1
  BY <1>1, <1>2 DEF ClaimLease, Row
<1>5. \A h \in Generation : ended[i][h] = {} \/ "requeued" \in ended[i][h]
  BY <1>2 DEF Inv, DoneStaysDone, Terminal
<1>6. \A h \in Generation : h > g + 1 => h > g
  BY <1>2, BoundsAssumption DEF Generation
<1>7. Unclaimed' /\ NotAhead'
  BY <1>2, <1>4, <1>6 DEF Inv, Unclaimed, NotAhead
<1>8. HeldUntilFinished'
  BY <1>2, <1>4 DEF Inv, HeldUntilFinished
<1>9. DoneStaysDone'
  BY <1>2, <1>4, <1>5 DEF Inv, DoneStaysDone
<1>10. QED
  BY <1>3, <1>7, <1>8, <1>9 DEF Inv

\* A statement of the current generation, with what it makes of the row.
LEMMA EndKeeps ==
  ASSUME Inv, TypeOK', NEW i \in JobId, NEW g \in Generation, g = job[i].gen,
         NEW o \in Outcome, Ends(i, g, o),
         \A j \in JobId : j # i => job'[j] = job[j],
         job'[i].gen = g, job'[i].status \in {"QUEUED"} \cup Terminal,
         o # "requeued" => job'[i].status \in Terminal
  PROVE  Inv'
<1>1. ended' = [ended EXCEPT ![i] = [ended[i] EXCEPT ![g] = ended[i][g] \cup {o}]]
  BY DEF Ends
<1>2. ended[i] \in [Generation -> SUBSET Outcome]
  BY DEF Inv
<1>3. /\ \A j \in JobId : j # i => ended'[j] = ended[j]
      /\ \A h \in Generation : h # g => ended'[i][h] = ended[i][h]
      /\ ended'[i][g] = ended[i][g] \cup {o}
  BY <1>1, <1>2 DEF Inv
<1>4. ended' \in [JobId -> [Generation -> SUBSET Outcome]]
  BY <1>1, <1>2 DEF Inv
<1>5. Unclaimed' /\ HeldUntilFinished'
  BY <1>3 DEF Inv, Unclaimed, HeldUntilFinished, Terminal
<1>6. NotAhead'
  <2>1. \A h \in Generation : h > g => h # g
    BY DEF Generation
  <2>2. \A h \in Generation : h > g => ended'[i][h] = {}
    BY <1>3, <2>1 DEF Inv, NotAhead
  <2>3. \A j \in JobId, h \in Generation : j # i /\ h > job'[j].gen => ended'[j][h] = {}
    BY <1>3 DEF Inv, NotAhead
  <2>4. QED
    BY <2>2, <2>3 DEF NotAhead
<1>7. DoneStaysDone'
  <2>1. \A h \in Generation : h # g => ended[i][h] = {} \/ "requeued" \in ended[i][h]
    BY DEF Inv, DoneStaysDone
  <2>2. "requeued" \notin ended'[i][g] => job'[i].status \in Terminal
    BY <1>3
  <2>3. \A h \in Generation : ended'[i][h] # {} /\ "requeued" \notin ended'[i][h]
          => job'[i].gen = h /\ job'[i].status \in Terminal
    BY <1>3, <2>1, <2>2
  <2>4. \A j \in JobId, h \in Generation :
          j # i /\ ended'[j][h] # {} /\ "requeued" \notin ended'[j][h]
            => job'[j].gen = h /\ job'[j].status \in Terminal
    BY <1>3 DEF Inv, DoneStaysDone
  <2>5. QED
    BY <2>3, <2>4 DEF DoneStaysDone
<1>8. QED
  BY <1>4, <1>5, <1>6, <1>7 DEF Inv

-----------------------------------------------------------------------------
(* The statements of a holder, fenced by worker and generation. *)

LEMMA CompletedKeeps ==
  ASSUME Inv, NEW j \in JobId, NEW w \in Worker, NEW g \in Generation,
         MarkCompleted(j, w, g), Ends(j, g, "completed")
  PROVE  Inv'
<1>1. job \in [JobId -> Row] /\ job[j] \in Row
  BY DEF Inv, TypeOK
<1>2. TypeOK'
  BY TypeOKStep DEF Inv, StoreNext
<1>3. g = job[j].gen
  BY DEF MarkCompleted, Fenced
<1>4. /\ \A i \in JobId : i # j => job'[i] = job[i]
      /\ job'[j].status = "COMPLETED" /\ job'[j].gen = g
  BY <1>1, <1>3 DEF MarkCompleted, Row
<1>5. QED
  BY <1>2, <1>3, <1>4, EndKeeps DEF Outcome, Terminal

LEMMA FailedKeeps ==
  ASSUME Inv, NEW j \in JobId, NEW w \in Worker, NEW g \in Generation,
         MarkFailed(j, w, g), Ends(j, g, "failed")
  PROVE  Inv'
<1>1. job \in [JobId -> Row] /\ job[j] \in Row
  BY DEF Inv, TypeOK
<1>2. TypeOK'
  BY TypeOKStep DEF Inv, StoreNext
<1>3. g = job[j].gen
  BY NoneAssumption DEF MarkFailed, FailMatches, Generation
<1>4. /\ \A i \in JobId : i # j => job'[i] = job[i]
      /\ job'[j].status = "FAILED" /\ job'[j].gen = g
  BY <1>1, <1>3 DEF MarkFailed, Row
<1>5. QED
  BY <1>2, <1>3, <1>4, EndKeeps DEF Outcome, Terminal

LEMMA RequeuedKeeps ==
  ASSUME Inv, NEW j \in JobId, NEW w \in Worker, NEW g \in Generation,
         RequeueTransient(j, w, g), Ends(j, g, "requeued")
  PROVE  Inv'
<1>1. job \in [JobId -> Row] /\ job[j] \in Row
  BY DEF Inv, TypeOK
<1>2. job' = [job EXCEPT ![j] = [job[j] EXCEPT !.status = "QUEUED", !.left = None]]
      /\ grantee' = grantee /\ g = job[j].gen
  BY DEF RequeueTransient
<1>3. [job[j] EXCEPT !.status = "QUEUED", !.left = None] \in Row
  BY <1>1 DEF Row, Status
<1>4. TypeOK'
  BY <1>2, <1>3 DEF Inv, TypeOK
<1>5. /\ \A i \in JobId : i # j => job'[i] = job[i]
      /\ job'[j].status = "QUEUED" /\ job'[j].gen = g
  BY <1>1, <1>2 DEF Row
<1>6. QED
  BY <1>2, <1>4, <1>5, EndKeeps DEF Outcome

-----------------------------------------------------------------------------
(* The steps. *)

LEMMA Standing ==
  ASSUME Inv, UNCHANGED <<storeVars, ended>>
  PROVE  Inv'
<1>1. TypeOK' /\ Untouched
  BY DEF Inv, TypeOK, Untouched, storeVars
<1>2. QED
  BY <1>1, UntouchedKeeps

\* The time that passes and a renewed lease change neither status nor generation.
LEMMA LeaseOnly ==
  ASSUME Inv, ended' = ended,
         \/ Tick
         \/ \E j \in JobId, w \in Worker, g \in Generation, age \in Age : RenewLease(j, w, g, age)
  PROVE  Inv'
<1>1. TypeOK'
  BY TypeOKStep DEF Inv, StoreNext
<1>2. job \in [JobId -> Row]
  BY DEF Inv, TypeOK
<1>3. Untouched
  BY <1>2 DEF Tick, AgeLeases, RenewLease, Untouched, Row
<1>4. QED
  BY <1>1, <1>3, UntouchedKeeps

LEMMA SubmittingKeeps == Inv /\ Submitting => Inv'
<1>1. SUFFICES ASSUME Inv, NEW c \in Client,
                      \/ \E r \in Run \ Range(Named), k \in Key \cup {None} : Enqueue(c, r, k)
                      \/ EnqueueFind(c) \/ EnqueueCreate(c) \/ EnqueueEnds(c)
                      \/ \E w \in Worker, j \in JobId : Requeue(c, w, j)
               PROVE  Inv'
  BY DEF Submitting
<1>2. CASE EnqueueCreate(c)
  BY <1>1, <1>2, CreateKeeps DEF EnqueueCreate
<1>3. CASE ~EnqueueCreate(c)
  BY <1>1, <1>3, Standing DEF Enqueue, EnqueueFind, EnqueueEnds, Requeue
<1>4. QED
  BY <1>2, <1>3

LEMMA WorkingKeeps == Inv /\ Working => Inv'
<1>1. SUFFICES ASSUME Inv, NEW w \in Worker,
                      \/ ClaimEnds(w) \/ Crash(w)
                      \/ \E age \in Age : Scan(w, age)
                      \/ \E j \in JobId :
                           \/ Read(w, j) \/ Cancel(w, j)
                           \/ \E age \in Age : Try(w, j, age)
                           \/ \E g \in Generation :
                                \/ \E age \in Age : Heartbeat(w, j, g, age)
                                \/ Acknowledge(w, j, g) \/ Discard(w, j, g)
                                \/ RejectTransient(w, j, g) \/ RejectPermanent(w, j, g)
               PROVE  Inv'
  BY DEF Working
<1>2. CASE ClaimEnds(w) \/ Crash(w) \/ \E age \in Age : Scan(w, age)
  BY <1>1, <1>2, Standing DEF ClaimEnds, Crash, Scan
<1>3. ASSUME NEW j \in JobId, Read(w, j) \/ Cancel(w, j)
      PROVE  Inv'
  BY <1>1, <1>3, Standing DEF Read, Cancel
<1>4. ASSUME NEW j \in JobId, NEW age \in Age, Try(w, j, age)
      PROVE  Inv'
  BY <1>1, <1>4, Standing, ClaimKeeps DEF Try
<1>5. ASSUME NEW j \in JobId, NEW g \in Generation, NEW age \in Age, Heartbeat(w, j, g, age)
      PROVE  Inv'
  BY <1>1, <1>5, LeaseOnly DEF Heartbeat
<1>6. ASSUME NEW j \in JobId, NEW g \in Generation, Acknowledge(w, j, g) \/ Discard(w, j, g)
      PROVE  Inv'
  BY <1>1, <1>6, CompletedKeeps DEF Acknowledge, Discard
<1>7. ASSUME NEW j \in JobId, NEW g \in Generation, RejectTransient(w, j, g)
      PROVE  Inv'
  BY <1>1, <1>7, RequeuedKeeps DEF RejectTransient
<1>8. ASSUME NEW j \in JobId, NEW g \in Generation, RejectPermanent(w, j, g)
      PROVE  Inv'
  BY <1>1, <1>8, FailedKeeps, Standing DEF RejectPermanent
<1>9. QED
  BY <1>1, <1>2, <1>3, <1>4, <1>5, <1>6, <1>7, <1>8

-----------------------------------------------------------------------------
(* The theorems. *)

LEMMA QueueInit == Init => Inv
<1>1. SUFFICES ASSUME Init PROVE Inv
  OBVIOUS
<1>2. TypeOK
  BY <1>1, NoneAssumption, BoundsAssumption
  DEF Init, StoreInit, TypeOK, Row, Status, AbsentRow, Generation
<1>3. \A j \in JobId : job[j].gen = 0
  BY <1>1 DEF Init, StoreInit, AbsentRow
<1>4. /\ ended \in [JobId -> [Generation -> SUBSET Outcome]]
      /\ \A j \in JobId, g \in Generation : ended[j][g] = {}
  BY <1>1 DEF Init
<1>5. QED
  BY <1>2, <1>3, <1>4 DEF Inv, Unclaimed, NotAhead, HeldUntilFinished, DoneStaysDone

LEMMA QueueStep == Inv /\ [Next]_vars => Inv'
<1>1. Inv /\ Pass => Inv'
  BY LeaseOnly DEF Pass
<1>2. Inv /\ UNCHANGED vars => Inv'
  BY Standing DEF vars
<1>3. QED
  BY <1>1, <1>2, SubmittingKeeps, WorkingKeeps DEF Next

LEMMA QueueInvariant == Spec => []Inv
<1>1. Inv /\ [Next]_vars => Inv'
  BY QueueStep
<1>2. QED
  BY <1>1, QueueInit, PTL DEF Spec

\* However many callers use a job's old and new generations, and whatever fails or
\* loses its reply, only a statement of the newest generation ends its claim.
THEOREM HeldByTheNewest == Spec => []HeldUntilFinished
<1>1. Inv => HeldUntilFinished
  BY DEF Inv
<1>2. QED
  BY <1>1, QueueInvariant, PTL

\* A completed or failed job is opened again by nobody but the claim that closed it.
THEOREM DoneStays == Spec => []DoneStaysDone
<1>1. Inv => DoneStaysDone
  BY DEF Inv
<1>2. QED
  BY <1>1, QueueInvariant, PTL
=============================================================================
