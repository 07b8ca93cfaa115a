----------------------------- MODULE PolicyProofs -----------------------------
(***************************************************************************)
(* Proofs about policies: who changes them (PolicyGovernance), for any      *)
(* policies, definitions, windows, runs and calls in flight and any number  *)
(* of versions; and what is decided by them (Decisions), for any messages,  *)
(* orders' totals, readings of the AI and sets of policies.                 *)
(***************************************************************************)
EXTENDS PolicyGovernance, Decisions, WellFoundedInduction, TLAPS

-----------------------------------------------------------------------------
(*                            PolicyGovernance                             *)

-----------------------------------------------------------------------------
(* The inductive invariant. *)

\* Versions belong to a policy.
Rooted == \A p \in Policy, v \in Version : Exists(p, v) => header[p] # None

\* A call writes to what it has read.
Ground(b) == b # None =>
  /\ b.op = "draft" => header[b.p] # None
  /\ b.op \notin {"create", "draft"} => Exists(b.p, b.v)
  /\ b.op = "supersede" => \A w \in b.found \cup b.retired : Exists(b.p, w)
Grounded == \A c \in Call : Ground(call[c])

\* What an open transaction has seen of the other versions still holds.
Knows(b) ==
  b # None /\ (b.op = "supersede" \/ (b.op = "withdraw" /\ b.last)) =>
    \A w \in Version : HasStatus(b.p, w, {"ACTIVE"}) =>
      w = b.v \/ (b.op = "supersede" /\ w \in b.found \cup b.retired)
Informed == \A c \in Call \ outrun : Knows(call[c])

TablesOK ==
  /\ header \in [Policy -> Header \cup {None}]
  /\ version \in [Policy -> [Version -> Row \cup {None}]]

IInv ==
  /\ PolicyTypeOK /\ Rooted /\ Grounded /\ Informed
  /\ OneActiveVersion /\ ActiveHasHeader

\* Rows are never removed and headers stay.
Grows ==
  /\ \A p \in Policy, v \in Version : Exists(p, v) => version'[p][v] # None
  /\ \A p \in Policy : header[p] # None => header'[p] # None

-----------------------------------------------------------------------------
(* Initial states. *)

LEMMA InitIInv == Init => IInv
<1> SUFFICES ASSUME Init PROVE IInv
  OBVIOUS
<1>1. PICK old \in SUBSET Legacy, seeded \in SUBSET Seeded, d \in [Policy -> Definition] :
       /\ header = [p \in Policy |->
            IF p \in old \cup seeded THEN [key |-> None, active |-> TRUE, def |-> d[p]] ELSE None]
       /\ version = [p \in Policy |-> [v \in Version |->
            IF p \in seeded /\ v = 1
              THEN [status |-> "ACTIVE", def |-> d[p], window |-> Always, approved |-> TRUE]
              ELSE None]]
  BY DEF Init
<1>2. header \in [Policy -> Header \cup {None}]
  BY <1>1 DEF Header
<1>3. version \in [Policy -> [Version -> Row \cup {None}]]
  BY <1>1, PolicyAssumption DEF Row, Status
<1>4. \A p \in Policy, v \in Version :
       Exists(p, v) => v = 1 /\ header[p] # None /\ header[p].active
  <2> SUFFICES ASSUME NEW p \in Policy, NEW v \in Version, Exists(p, v)
               PROVE  v = 1 /\ header[p] # None /\ header[p].active
    OBVIOUS
  <2>1. v = 1 /\ p \in seeded
    BY <1>1 DEF Exists
  <2>2. header[p] = [key |-> None, active |-> TRUE, def |-> d[p]]
    BY <2>1, <1>1
  <2>3. header[p] \in Header
    BY <2>2 DEF Header
  <2>4. header[p] # None
    BY <2>3, PolicyAssumption
  <2>5. header[p].active
    BY <2>2
  <2> QED
    BY <2>1, <2>4, <2>5
<1>5. PolicyTypeOK
  BY <1>2, <1>3, PolicyAssumption DEF Init, PolicyTypeOK, Selection
<1>6. Rooted /\ OneActiveVersion /\ ActiveHasHeader
  BY <1>4 DEF Init, Rooted, OneActiveVersion, ActiveHasHeader, HasStatus
<1>7. Grounded /\ Informed
  BY DEF Init, Grounded, Ground, Informed, Knows
<1> QED
  BY <1>5, <1>6, <1>7 DEF IInv

-----------------------------------------------------------------------------
(* What is carried over a step. *)

\* A call is about rows of the tables.
LEMMA About ==
  ASSUME NEW b \in Pending
  PROVE  /\ b.op # "create" => b.p \in Policy /\ b.v \in Version
         /\ b.op = "supersede" => b.found \subseteq Version /\ b.retired \subseteq Version
  BY DEF Pending

\* What a call has read is still there.
LEMMA StillGround ==
  ASSUME IInv, Grows, NEW d \in Call, call'[d] = call[d]
  PROVE  Ground(call[d])'
<1> SUFFICES ASSUME call[d] # None PROVE Ground(call[d])'
  BY DEF Ground
<1>1. call[d] \in Pending /\ Ground(call[d])
  BY DEF IInv, PolicyTypeOK, Grounded
<1> QED
  BY <1>1, About DEF Ground, Grows, Exists

\* The rows that change are not made ACTIVE, and no header changes.
Quiet ==
  /\ version' \in [Policy -> [Version -> Row \cup {None}]]
  /\ UNCHANGED header
  /\ Rooted'
  /\ Grows
  /\ \A p \in Policy, v \in Version : HasStatus(p, v, {"ACTIVE"})' => HasStatus(p, v, {"ACTIVE"})

\* A quiet step of one call keeps the invariant.
LEMMA QuietStep ==
  ASSUME IInv, NEW c \in Call, Quiet,
         call' \in [Call -> Pending \cup {None}],
         \A d \in Call \ {c} : call'[d] = call[d],
         outrun' \in {outrun, outrun \ {c}},
         UNCHANGED <<now, muddled, runs>>,
         Ground(call[c])',
         c \in outrun' \/ Knows(call[c])'
  PROVE  IInv'
<1>1. PolicyTypeOK'
  BY DEF IInv, PolicyTypeOK, Quiet, runs
<1>2. Grounded'
  BY StillGround DEF Grounded, Quiet
<1>3. Informed'
  <2> SUFFICES ASSUME NEW d \in Call \ {c}, d \notin outrun, call[d] # None, Knows(call[d])
               PROVE  Knows(call[d])'
    BY DEF Informed, IInv, Knows
  <2>1. call[d] \in Pending
    BY DEF IInv, PolicyTypeOK
  <2>2. CASE call[d].op \in {"supersede", "withdraw"}
    <3>1. call[d].p \in Policy
      BY <2>1, <2>2, About
    <3> QED
      BY <3>1 DEF Knows, Quiet
  <2>3. CASE call[d].op \notin {"supersede", "withdraw"}
    BY <2>3 DEF Knows
  <2> QED
    BY <2>2, <2>3
<1>4. OneActiveVersion' /\ ActiveHasHeader'
  BY DEF Quiet, IInv, OneActiveVersion, ActiveHasHeader
<1> QED
  BY <1>1, <1>2, <1>3, <1>4 DEF IInv, Quiet

\* A step that changes the rows of one policy and ends a call, past which go
\* the open transactions on that policy.
LEMMA LoudStep ==
  ASSUME IInv, NEW c \in Call, NEW p \in Policy,
         TablesOK', Rooted', Grows,
         \A q \in Policy \ {p} : header'[q] = header[q] /\ version'[q] = version[q],
         call' = [call EXCEPT ![c] = None],
         outrun' \subseteq Call,
         \A d \in Call \ {c} : d \notin outrun' => d \notin outrun /\ ~Open(d, p),
         muddled \ {p} \subseteq muddled', muddled' \subseteq muddled \cup {p},
         UNCHANGED <<now, runs>>,
         p \notin muddled' =>
           /\ \A v, w \in Version :
                HasStatus(p, v, {"ACTIVE"})' /\ HasStatus(p, w, {"ACTIVE"})' => v = w
           /\ \A v \in Version : HasStatus(p, v, {"ACTIVE"})' => header'[p] # None /\ header'[p].active
  PROVE  IInv'
<1>1. PolicyTypeOK'
  BY DEF IInv, PolicyTypeOK, TablesOK, runs
<1>2. call'[c] = None /\ \A d \in Call \ {c} : call'[d] = call[d]
  BY DEF IInv, PolicyTypeOK
<1>3. Grounded'
  <2>1. Ground(call[c])'
    BY <1>2 DEF Ground
  <2> QED
    BY <1>2, <2>1, StillGround DEF Grounded
<1>4. Informed'
  <2> SUFFICES ASSUME NEW d \in Call \ {c}, d \notin outrun', call[d] # None
               PROVE  Knows(call[d])'
    BY <1>2 DEF Informed, Knows
  <2>1. call[d] \in Pending /\ Knows(call[d]) /\ ~Open(d, p)
    BY DEF IInv, PolicyTypeOK, Informed
  <2>2. CASE call[d].op \in {"supersede", "withdraw"}
    <3>1. call[d].p \in Policy \ {p}
      BY <2>1, <2>2, About DEF Open
    <3> QED
      BY <1>2, <2>1, <3>1 DEF Knows, HasStatus, Exists
  <2>3. CASE call[d].op \notin {"supersede", "withdraw"}
    BY <1>2, <2>3 DEF Knows
  <2> QED
    BY <2>2, <2>3
<1>5. \A q \in Policy \ {p}, v \in Version : HasStatus(q, v, {"ACTIVE"})' <=> HasStatus(q, v, {"ACTIVE"})
  BY DEF HasStatus, Exists
<1>6. OneActiveVersion'
  BY <1>5 DEF IInv, OneActiveVersion
<1>7. ActiveHasHeader'
  BY <1>5 DEF IInv, ActiveHasHeader
<1> QED
  BY <1>1, <1>3, <1>4, <1>6, <1>7 DEF IInv

\* A call that goes on without writing.
LEMMA GoesStep ==
  ASSUME IInv, NEW c \in Call,
         UNCHANGED <<tables, now, muddled, runs>>,
         outrun' \in {outrun, outrun \ {c}},
         call'[c] \in Pending \cup {None},
         call' = [call EXCEPT ![c] = call'[c]],
         Ground(call[c])',
         c \in outrun' \/ Knows(call[c])'
  PROVE  IInv'
<1>1. Quiet
  BY DEF Quiet, IInv, PolicyTypeOK, tables, Rooted, Grows, Exists, HasStatus
<1>2. /\ call' \in [Call -> Pending \cup {None}]
      /\ \A d \in Call \ {c} : call'[d] = call[d]
  BY DEF IInv, PolicyTypeOK
<1> QED
  BY <1>1, <1>2, QuietStep

-----------------------------------------------------------------------------
(* Calls that read. *)

\* What a reading call keeps to itself is of the right kind and was read.
LEMMA RequestStep ==
  ASSUME IInv, NEW c \in Call, Request(c)
  PROVE  IInv'
<1>1. SUFFICES ASSUME NEW a \in Pending, Reads(c, a),
                      a.op = "draft" => header[a.p] # None,
                      a.op \notin {"create", "draft"} => Exists(a.p, a.v),
                      a.op \notin {"supersede", "withdraw"}
               PROVE  IInv'
  <2>1. CASE ReadKey(c)
    BY <1>1, <2>1 DEF ReadKey, Pending
  <2>2. CASE ReadLatest(c)
    <3>1. PICK p \in Policy, n \in 0..(MaxVersion - 1), d \in Definition \cup {None}, w \in Windows :
            /\ header[p] # None
            /\ IsLatest(p, n)
            /\ Reads(c, [op |-> "draft", p |-> p, v |-> n + 1, window |-> w,
                         def |-> IF d = None
                                   THEN IF n = 0 THEN header[p].def ELSE version[p][n].def
                                   ELSE d])
      BY <2>2 DEF ReadLatest
    <3>2. n + 1 \in Version
      BY PolicyAssumption DEF Version
    <3>3. header[p].def \in Definition
      BY <3>1 DEF IInv, PolicyTypeOK, Header
    <3>4. n # 0 => version[p][n].def \in Definition
      BY <3>1, PolicyAssumption DEF IInv, PolicyTypeOK, Row, IsLatest, Exists, Version
    <3>5. (IF d = None THEN IF n = 0 THEN header[p].def ELSE version[p][n].def ELSE d) \in Definition
      BY <3>3, <3>4
    <3> QED
      BY <1>1, <3>1, <3>2, <3>5 DEF Pending
  <2>3. CASE ReadDraft(c)
    BY <1>1, <2>3 DEF ReadDraft, Pending, HasStatus
  <2>4. CASE ReadSubject(c)
    <3>1. PICK p \in Policy, v \in Version, s \in Subjects :
            HasStatus(p, v, s[2]) /\ Reads(c, [op |-> s[1], p |-> p, v |-> v])
      BY <2>4 DEF ReadSubject
    <3>2. s[1] \in {"submit", "approve", "retire"}
      BY DEF Subjects
    <3> QED
      BY <1>1, <3>1, <3>2 DEF Pending, HasStatus
  <2>5. CASE ReadActivation(c)
    <3>1. PICK p \in Policy, v \in Version : MayActivate(p, v) /\ Reads(c, ToActivate(p, v))
      BY <2>5 DEF ReadActivation
    <3>2. version[p][v].def \in Definition /\ Exists(p, v)
      BY <3>1 DEF MayActivate, HasStatus, Exists, IInv, PolicyTypeOK, Row
    <3> QED
      BY <1>1, <3>1, <3>2 DEF ToActivate, Pending
  <2>6. CASE ReadRollback(c)
    <3>1. PICK p \in Policy, v \in Version :
            /\ HasStatus(p, v, {"APPROVED", "ACTIVE", "RETIRED"})
            /\ Reads(c, [op |-> IF version[p][v].status = "RETIRED" THEN "reapprove" ELSE "reactivate",
                         p |-> p, v |-> v])
      BY <2>6 DEF ReadRollback
    <3> QED
      BY <1>1, <3>1 DEF Pending, HasStatus
  <2> QED
    BY <2>1, <2>2, <2>3, <2>4, <2>5, <2>6 DEF Request
<1>2. /\ UNCHANGED <<tables, now, outrun, muddled, runs>>
      /\ call' = [call EXCEPT ![c] = a]
      /\ call'[c] = a
  BY <1>1 DEF Reads, Goes, IInv, PolicyTypeOK
<1>3. Ground(call[c])' /\ Knows(call[c])'
  BY <1>1, <1>2 DEF Ground, Knows, Exists, tables
<1> QED
  BY <1>2, <1>3, GoesStep

-----------------------------------------------------------------------------
(* Calls that write one row that is not, or stays, ACTIVE. *)

LEMMA RowStatus ==
  ASSUME NEW row \in Row, NEW s \in Status
  PROVE  /\ [row EXCEPT !.status = s] \in Row
         /\ [row EXCEPT !.status = s].status = s
         /\ [row EXCEPT !.status = s] # None
<1>1. [row EXCEPT !.status = s] \in Row
  BY DEF Row
<1> QED
  BY <1>1, PolicyAssumption DEF Row

\* Giving an existing version a row that is not ACTIVE disturbs nothing.
LEMMA QuietRow ==
  ASSUME IInv, NEW p \in Policy, NEW v \in Version, Exists(p, v) \/ header[p] # None,
         NEW row \in Row, row.status # "ACTIVE",
         version' = [version EXCEPT ![p][v] = row], UNCHANGED header
  PROVE  Quiet
<1>1. header[p] # None
  BY DEF IInv, Rooted
<1>2. version' \in [Policy -> [Version -> Row \cup {None}]]
  BY DEF IInv, PolicyTypeOK
<1>3. \A q \in Policy, w \in Version :
        version'[q][w] = IF q = p /\ w = v THEN row ELSE version[q][w]
  BY DEF IInv, PolicyTypeOK
<1>4. row # None
  BY PolicyAssumption
<1>5. Rooted' /\ Grows
  BY <1>1, <1>3, <1>4 DEF IInv, Rooted, Grows, Exists
<1>6. \A q \in Policy, w \in Version : HasStatus(q, w, {"ACTIVE"})' => HasStatus(q, w, {"ACTIVE"})
  BY <1>3 DEF HasStatus, Exists
<1> QED
  BY <1>2, <1>5, <1>6 DEF Quiet

\* An existing row with another definition.
LEMMA EditedRow ==
  ASSUME IInv, NEW p \in Policy, NEW v \in Version, Exists(p, v), NEW d \in Definition,
         version' = [version EXCEPT ![p][v].def = d], UNCHANGED header
  PROVE  Quiet
<1>1. version[p][v] \in Row
  BY DEF IInv, PolicyTypeOK, Exists
<1>2. [version[p][v] EXCEPT !.def = d] \in Row
  BY <1>1 DEF Row
<1>3. /\ version' \in [Policy -> [Version -> Row \cup {None}]]
      /\ \A q \in Policy, w \in Version :
           version'[q][w] = IF q = p /\ w = v THEN [version[p][v] EXCEPT !.def = d]
                                              ELSE version[q][w]
  BY <1>2 DEF IInv, PolicyTypeOK
<1>4. [version[p][v] EXCEPT !.def = d].status = version[p][v].status
  BY <1>1 DEF Row
<1>5. [version[p][v] EXCEPT !.def = d] # None
  BY <1>2, PolicyAssumption
<1>6. Rooted' /\ Grows
  BY <1>3, <1>5 DEF IInv, Rooted, Grows, Exists
<1>7. \A q \in Policy, w \in Version : HasStatus(q, w, {"ACTIVE"})' => HasStatus(q, w, {"ACTIVE"})
  BY <1>3, <1>4 DEF HasStatus, Exists
<1> QED
  BY <1>3, <1>6, <1>7 DEF Quiet

\* A quiet write and its return.
LEMMA QuietReturn ==
  ASSUME IInv, NEW c \in Call, Quiet, Returns(c), UNCHANGED <<now, outrun, muddled, runs>>
  PROVE  IInv'
<1>1. call' \in [Call -> Pending \cup {None}] /\ call'[c] = None
      /\ \A d \in Call \ {c} : call'[d] = call[d]
  BY DEF Returns, IInv, PolicyTypeOK
<1>2. Ground(call[c])' /\ Knows(call[c])'
  BY <1>1 DEF Ground, Knows
<1> QED
  BY <1>1, <1>2, QuietStep

-----------------------------------------------------------------------------
(* Calls that make a version ACTIVE, or change a header. *)

LEMMA CreatePolicyStep ==
  ASSUME IInv, NEW c \in Call, CreatePolicy(c)
  PROVE  IInv'
<1> DEFINE a == call[c]
<1>1. a \in Pending /\ a.op = "create"
  BY DEF CreatePolicy, Writes, IInv, PolicyTypeOK
<1>2. a.key \in Key /\ a.def \in Definition /\ a.auto \in BOOLEAN
  BY <1>1 DEF Pending
<1>3. PICK p \in Policy :
        /\ header[p] = None
        /\ header' = [header EXCEPT ![p] = [key |-> a.key, active |-> a.auto, def |-> a.def]]
        /\ version' = [version EXCEPT ![p][1] =
             [status |-> IF a.auto THEN "ACTIVE" ELSE "DRAFT", def |-> a.def,
              window |-> Always, approved |-> FALSE]]
  BY DEF CreatePolicy
<1> DEFINE row == [status |-> IF a.auto THEN "ACTIVE" ELSE "DRAFT", def |-> a.def,
                   window |-> Always, approved |-> FALSE]
           hd == [key |-> a.key, active |-> a.auto, def |-> a.def]
<1>4. row \in Row /\ row # None
  <2>1. row \in Row
    BY <1>2, PolicyAssumption DEF Row, Status
  <2> QED
    BY <2>1, PolicyAssumption
<1>5. 1 \in Version
  BY PolicyAssumption DEF Version
<1>6. hd \in Header
  BY <1>2 DEF Header
<1>7. hd # None /\ hd.active = a.auto
  BY <1>6, PolicyAssumption
<1>8. TablesOK'
  BY <1>3, <1>4, <1>5, <1>6 DEF IInv, PolicyTypeOK, TablesOK
<1>9. \A q \in Policy, w \in Version :
        version'[q][w] = IF q = p /\ w = 1 THEN row ELSE version[q][w]
  BY <1>3, <1>5 DEF IInv, PolicyTypeOK
<1>10. \A q \in Policy : header'[q] = IF q = p THEN hd ELSE header[q]
  BY <1>3 DEF IInv, PolicyTypeOK
<1>11. \A w \in Version : ~Exists(p, w)
  BY <1>3 DEF IInv, Rooted
<1>12. Rooted' /\ Grows
  BY <1>4, <1>7, <1>9, <1>10 DEF IInv, Rooted, Grows, Exists
<1>13. \A w \in Version : HasStatus(p, w, {"ACTIVE"})' => w = 1 /\ a.auto
  BY <1>9, <1>11, <1>2 DEF HasStatus, Exists
<1>14. \A q \in Policy \ {p} : header'[q] = header[q] /\ version'[q] = version[q]
  BY <1>3 DEF IInv, PolicyTypeOK
<1>15. \A d \in Call : ~Open(d, p)
  <2> SUFFICES ASSUME NEW d \in Call, Open(d, p) PROVE FALSE
    OBVIOUS
  <2>1. call[d] \in Pending /\ call[d].op \in {"supersede", "withdraw"} /\ call[d].p = p
    BY DEF Open, IInv, PolicyTypeOK
  <2>2. call[d].v \in Version
    BY <2>1, About
  <2>3. Exists(p, call[d].v)
    BY <2>1 DEF IInv, Grounded, Ground, Open
  <2> QED
    BY <2>2, <2>3, <1>11
<1>16. call' = [call EXCEPT ![c] = None] /\ UNCHANGED <<now, outrun, muddled, runs>>
  BY DEF CreatePolicy, Returns
<1>17. outrun' \subseteq Call
  BY <1>16 DEF IInv, PolicyTypeOK
<1>18. \A w \in Version : HasStatus(p, w, {"ACTIVE"})' => header'[p] # None /\ header'[p].active
  BY <1>7, <1>10, <1>13
<1> HIDE DEF row, hd
<1> QED
  BY <1>8, <1>12, <1>13, <1>14, <1>15, <1>16, <1>17, <1>18, LoudStep

\* What a commit does to the calls.
LEMMA Committed ==
  ASSUME IInv, NEW c \in Call, NEW p \in Policy, Commits(c, p)
  PROVE  /\ call' = [call EXCEPT ![c] = None]
         /\ outrun' \subseteq Call
         /\ \A d \in Call \ {c} : d \notin outrun' => d \notin outrun /\ ~Open(d, p)
  BY DEF Commits, Returns, IInv, PolicyTypeOK

LEMMA ActivateStep ==
  ASSUME IInv, NEW c \in Call, ActivateVersion(c), NEW p \in Policy, NEW v0 \in Version,
         p = call[c].p, v0 = call[c].v
  PROVE  IInv'
<1> DEFINE a == call[c]
           ToActive(v) == [version[p][v] EXCEPT !.status = "ACTIVE"]
           ToRetired(v) == [version[p][v] EXCEPT !.status = "RETIRED"]
           hd == [header[p] EXCEPT !.active = TRUE, !.def = a.def]
<1>1. /\ a \in Pending /\ a # None /\ a.op = "supersede" /\ a.found = {}
      /\ version' = [version EXCEPT ![p] = [v \in Version |->
           IF v = v0 THEN ToActive(v)
           ELSE IF v \in a.retired THEN ToRetired(v)
           ELSE version[p][v]]]
      /\ header' = [header EXCEPT ![p].active = TRUE, ![p].def = a.def]
      /\ muddled' = IF c \in outrun THEN muddled \cup {p} ELSE muddled \ {p}
      /\ Commits(c, p)
      /\ UNCHANGED <<now, runs>>
  BY DEF ActivateVersion, Writes, IInv, PolicyTypeOK
<1>2. a.p = p /\ a.v = v0 /\ a.def \in Definition /\ a.retired \subseteq Version
  BY <1>1 DEF Pending
<1>3. Ground(a)
  BY DEF IInv, Grounded
<1>4. /\ Exists(p, v0) /\ header[p] # None
      /\ \A v \in a.retired : Exists(p, v)
  BY <1>1, <1>2, <1>3, About DEF Ground, IInv, Rooted
<1>5. header[p] \in Header
  BY <1>2, <1>4 DEF IInv, PolicyTypeOK
<1>6. hd \in Header /\ hd.active
  BY <1>2, <1>5 DEF Header
<1>7. /\ header' \in [Policy -> Header \cup {None}]
      /\ \A q \in Policy : header'[q] = IF q = p THEN hd ELSE header[q]
  BY <1>1, <1>2, <1>6 DEF IInv, PolicyTypeOK
<1>8. header'[p] # None /\ header'[p].active
  BY <1>2, <1>6, <1>7, PolicyAssumption
<1>9. \A v \in Version : Exists(p, v) =>
        /\ ToActive(v) \in Row
        /\ ToRetired(v) \in Row
        /\ ToRetired(v).status = "RETIRED"
        /\ ToActive(v) # None
        /\ ToRetired(v) # None
  <2>1. \A v \in Version : Exists(p, v) => version[p][v] \in Row
    BY <1>2 DEF IInv, PolicyTypeOK, Exists
  <2>2. "ACTIVE" \in Status /\ "RETIRED" \in Status
    BY DEF Status
  <2> QED
    BY <2>1, <2>2, RowStatus
<1>10. \A v \in Version :
        version'[p][v] =
          IF v = v0 THEN ToActive(v)
          ELSE IF v \in a.retired THEN ToRetired(v)
          ELSE version[p][v]
  BY <1>1, <1>2 DEF IInv, PolicyTypeOK
<1>11. \A q \in Policy \ {p} : header'[q] = header[q] /\ version'[q] = version[q]
  BY <1>1, <1>2 DEF IInv, PolicyTypeOK
<1> HIDE DEF ToActive, ToRetired, hd
<1>12. \A v \in Version : version'[p][v] \in Row \cup {None}
  <2> SUFFICES ASSUME NEW v \in Version PROVE version'[p][v] \in Row \cup {None}
    OBVIOUS
  <2>1. version[p][v] \in Row \cup {None}
    BY <1>2 DEF IInv, PolicyTypeOK
  <2> QED
    BY <2>1, <1>2, <1>4, <1>9, <1>10
<1>13. TablesOK'
  <2>1. version'[p] \in [Version -> Row \cup {None}]
    BY <1>1, <1>2, <1>12 DEF IInv, PolicyTypeOK
  <2> QED
    BY <1>1, <1>2, <1>7, <2>1 DEF IInv, PolicyTypeOK, TablesOK
<1>14. Rooted' /\ Grows
  <2>1. \A v \in Version : Exists(p, v)' <=> Exists(p, v)
    BY <1>2, <1>4, <1>9, <1>10 DEF Exists
  <2>2. \A q \in Policy, v \in Version : Exists(q, v)' <=> Exists(q, v)
    BY <2>1, <1>11 DEF Exists
  <2>3. \A q \in Policy : header[q] # None => header'[q] # None
    BY <1>7, <1>8
  <2> QED
    BY <2>2, <2>3 DEF IInv, Rooted, Grows, Exists
<1>15. ASSUME p \notin muddled'
       PROVE  \A v \in Version : HasStatus(p, v, {"ACTIVE"})' => v = v0
  <2>1. c \notin outrun
    BY <1>1, <1>15
  <2>2. Knows(a)
    BY <2>1 DEF IInv, Informed
  <2>3. \A w \in Version : HasStatus(p, w, {"ACTIVE"}) => w = v0 \/ w \in a.retired
    BY <1>1, <2>2, About DEF Knows
  <2> QED
    BY <2>3, <1>4, <1>9, <1>10 DEF HasStatus, Exists
<1>16. muddled \ {p} \subseteq muddled' /\ muddled' \subseteq muddled \cup {p}
  BY <1>1
<1>17. /\ call' = [call EXCEPT ![c] = None]
       /\ outrun' \subseteq Call
       /\ \A d \in Call \ {c} : d \notin outrun' => d \notin outrun /\ ~Open(d, p)
  BY <1>1, <1>2, Committed
<1>18. UNCHANGED <<now, runs>>
  BY <1>1
<1> HIDE DEF a
<1> QED
  BY <1>2, <1>8, <1>11, <1>13, <1>14, <1>15, <1>16, <1>17, <1>18, LoudStep

LEMMA RetireStep ==
  ASSUME IInv, NEW c \in Call, RetireVersion(c), NEW p \in Policy, NEW v0 \in Version,
         p = call[c].p, v0 = call[c].v
  PROVE  IInv'
<1> DEFINE a == call[c]
           row == [version[p][v0] EXCEPT !.status = "RETIRED"]
           hd == [header[p] EXCEPT !.active = header[p].active /\ ~a.last]
<1>1. /\ a \in Pending /\ a # None /\ a.op = "withdraw"
      /\ version' = [version EXCEPT ![p][v0] = row]
      /\ header' = [header EXCEPT ![p].active = header[p].active /\ ~a.last]
      /\ muddled' = IF c \in outrun THEN muddled \cup {p} ELSE muddled
      /\ Commits(c, p)
      /\ UNCHANGED <<now, runs>>
  BY DEF RetireVersion, SetStatus, Writes, IInv, PolicyTypeOK
<1>2. a.p = p /\ a.v = v0 /\ a.last \in BOOLEAN
  BY <1>1 DEF Pending
<1>3. Ground(a)
  BY DEF IInv, Grounded
<1>4. Exists(p, v0) /\ header[p] # None
  BY <1>1, <1>2, <1>3, About DEF Ground, IInv, Rooted
<1>5. row \in Row /\ row.status = "RETIRED" /\ row # None
  <2>1. version[p][v0] \in Row
    BY <1>2, <1>4 DEF IInv, PolicyTypeOK, Exists
  <2>2. "RETIRED" \in Status
    BY DEF Status
  <2> QED
    BY <2>1, <2>2, RowStatus
<1>6. header[p] \in Header /\ header[p].active \in BOOLEAN
  BY <1>2, <1>4 DEF IInv, PolicyTypeOK, Header
<1>7. hd \in Header /\ hd.active = (header[p].active /\ ~a.last)
  <2>1. (header[p].active /\ ~a.last) \in BOOLEAN
    BY <1>6
  <2> QED
    BY <1>6, <2>1 DEF Header
<1>8. TablesOK'
  BY <1>1, <1>2, <1>5, <1>7 DEF IInv, PolicyTypeOK, TablesOK
<1>9. \A q \in Policy, v \in Version :
        version'[q][v] = IF q = p /\ v = v0 THEN row ELSE version[q][v]
  BY <1>1, <1>2 DEF IInv, PolicyTypeOK
<1>10. \A q \in Policy : header'[q] = IF q = p THEN hd ELSE header[q]
  BY <1>1, <1>2 DEF IInv, PolicyTypeOK
<1>11. hd # None
  BY <1>7, PolicyAssumption
<1>12. \A q \in Policy \ {p} : header'[q] = header[q] /\ version'[q] = version[q]
  BY <1>1, <1>2 DEF IInv, PolicyTypeOK
<1> HIDE DEF row, hd
<1>13. Rooted' /\ Grows
  <2>1. \A q \in Policy, v \in Version : Exists(q, v)' <=> Exists(q, v)
    BY <1>2, <1>4, <1>5, <1>9 DEF Exists
  <2>2. \A q \in Policy : header[q] # None => header'[q] # None
    BY <1>10, <1>11
  <2> QED
    BY <2>1, <2>2 DEF IInv, Rooted, Grows, Exists
<1>14. \A v \in Version :
         HasStatus(p, v, {"ACTIVE"})' => HasStatus(p, v, {"ACTIVE"}) /\ v # v0
  BY <1>2, <1>5, <1>9 DEF HasStatus, Exists
<1>15. ASSUME p \notin muddled', NEW v \in Version, HasStatus(p, v, {"ACTIVE"})'
       PROVE  header'[p] # None /\ header'[p].active
  <2>1. HasStatus(p, v, {"ACTIVE"}) /\ v # v0 /\ p \notin muddled /\ c \notin outrun
    BY <1>1, <1>14, <1>15
  <2>2. Knows(a)
    BY <2>1 DEF IInv, Informed
  <2>3. ~a.last
    BY <1>1, <2>1, <2>2, About DEF Knows
  <2>4. header[p].active
    BY <1>2, <2>1 DEF IInv, ActiveHasHeader
  <2> QED
    BY <1>2, <1>7, <1>10, <1>11, <2>3, <2>4
<1>16. p \notin muddled' =>
         \A v, w \in Version :
           HasStatus(p, v, {"ACTIVE"})' /\ HasStatus(p, w, {"ACTIVE"})' => v = w
  BY <1>1, <1>2, <1>14 DEF IInv, OneActiveVersion
<1>17. muddled \ {p} \subseteq muddled' /\ muddled' \subseteq muddled \cup {p}
  BY <1>1
<1>18. /\ call' = [call EXCEPT ![c] = None]
       /\ outrun' \subseteq Call
       /\ \A d \in Call \ {c} : d \notin outrun' => d \notin outrun /\ ~Open(d, p)
  BY <1>1, <1>2, Committed
<1>19. UNCHANGED <<now, runs>>
  BY <1>1
<1> HIDE DEF a
<1> QED
  BY <1>2, <1>8, <1>12, <1>13, <1>15, <1>16, <1>17, <1>18, <1>19, LoudStep

-----------------------------------------------------------------------------
(* Every step. *)

LEMMA CommitStep ==
  ASSUME IInv, NEW c \in Call, Commit(c)
  PROVE  IInv'
<1> DEFINE a == call[c]
<1>1. \A op \in {"update", "submit", "approve", "reapprove", "reactivate", "activate",
                 "retire", "supersede", "withdraw"} : Writes(c, op) =>
        /\ a \in Pending
        /\ a.p \in Policy /\ a.v \in Version /\ Exists(a.p, a.v)
        /\ version[a.p][a.v] \in Row
  <2> SUFFICES ASSUME NEW op \in {"update", "submit", "approve", "reapprove", "reactivate",
                                  "activate", "retire", "supersede", "withdraw"}, Writes(c, op)
               PROVE  /\ a \in Pending
                      /\ a.p \in Policy /\ a.v \in Version /\ Exists(a.p, a.v)
                      /\ version[a.p][a.v] \in Row
    OBVIOUS
  <2>1. a \in Pending /\ a.op = op /\ a # None
    BY DEF Writes, IInv, PolicyTypeOK
  <2>2. a.p \in Policy /\ a.v \in Version
    BY <2>1, About
  <2>3. Ground(a)
    BY DEF IInv, Grounded
  <2>4. Exists(a.p, a.v)
    BY <2>1, <2>2, <2>3 DEF Ground
  <2> QED
    BY <2>1, <2>2, <2>4 DEF Exists, IInv, PolicyTypeOK
<1>2. CASE CreatePolicy(c)
  BY <1>2, CreatePolicyStep
<1>3. CASE CreateVersion(c)
  <2>1. a \in Pending /\ a.op = "draft"
    BY <1>3 DEF CreateVersion, Writes, IInv, PolicyTypeOK
  <2>2. a.p \in Policy /\ a.v \in Version /\ a.def \in Definition /\ a.window \in Windows
    BY <2>1 DEF Pending
  <2>3. Ground(a) /\ a # None
    BY <1>3 DEF CreateVersion, Writes, IInv, Grounded
  <2>4. header[a.p] # None
    BY <2>1, <2>3 DEF Ground
  <2> DEFINE row == [status |-> "DRAFT", def |-> a.def, window |-> a.window, approved |-> FALSE]
  <2>5. row \in Row /\ row.status # "ACTIVE"
    BY <2>2 DEF Row, Status
  <2>6. version' = [version EXCEPT ![a.p][a.v] = IF version[a.p][a.v] = None THEN row ELSE version[a.p][a.v]]
    BY <1>3 DEF CreateVersion
  <2>7. UNCHANGED header
    BY <1>3 DEF CreateVersion
  <2>8. CASE version[a.p][a.v] = None
    <3>1. version' = [version EXCEPT ![a.p][a.v] = row]
      BY <2>6, <2>8
    <3>2. Quiet
      BY ONLY IInv, <2>2, <2>4, <2>5, <2>7, <3>1, QuietRow
    <3> QED
      BY <3>2, <1>3, QuietReturn DEF CreateVersion
  <2>9. CASE version[a.p][a.v] # None
    <3>1. UNCHANGED <<header, version>>
      BY <2>6, <2>7, <2>9, <2>2 DEF IInv, PolicyTypeOK
    <3>2. Quiet
      BY <3>1 DEF Quiet, Grows, IInv, PolicyTypeOK, Rooted, Exists, HasStatus
    <3> QED
      BY <3>2, <1>3, QuietReturn DEF CreateVersion
  <2> QED
    BY <2>8, <2>9
<1>4. CASE UpdateVersion(c)
  <2>1. a.op = "update" /\ a \in Pending /\ a.p \in Policy /\ a.v \in Version /\ Exists(a.p, a.v)
    BY <1>1, <1>4 DEF UpdateVersion, Writes
  <2>2. a.def \in Definition
    BY <2>1 DEF Pending
  <2>3. Quiet
    BY <1>4, <2>1, <2>2, EditedRow DEF UpdateVersion
  <2> QED
    BY <2>3, <1>4, QuietReturn DEF UpdateVersion
<1>5. CASE SubmitVersion(c)
  <2>1. a.p \in Policy /\ a.v \in Version /\ Exists(a.p, a.v) /\ version[a.p][a.v] \in Row
    BY <1>1, <1>5 DEF SubmitVersion
  <2> DEFINE row == [version[a.p][a.v] EXCEPT !.status = "PENDING_APPROVAL"]
  <2>2. row \in Row /\ row.status # "ACTIVE"
    BY <2>1, RowStatus DEF Status
  <2>3. version' = [version EXCEPT ![a.p][a.v] = row] /\ UNCHANGED header
    BY <1>5 DEF SubmitVersion, SetStatus
  <2>4. Quiet
    BY ONLY IInv, <2>1, <2>2, <2>3, QuietRow
  <2> QED
    BY <2>4, <1>5, QuietReturn DEF SubmitVersion
<1>6. CASE ApproveVersion(c)
  <2>1. a.p \in Policy /\ a.v \in Version /\ Exists(a.p, a.v) /\ version[a.p][a.v] \in Row
    BY <1>1, <1>6 DEF ApproveVersion
  <2> DEFINE row == [version[a.p][a.v] EXCEPT !.status = "APPROVED", !.approved = TRUE]
  <2>2. row \in Row /\ row.status # "ACTIVE"
    BY <2>1 DEF Row, Status
  <2>3. version' = [version EXCEPT ![a.p][a.v] = row] /\ UNCHANGED header
    BY <1>6, <2>1 DEF ApproveVersion, IInv, PolicyTypeOK
  <2>4. Quiet
    BY ONLY IInv, <2>1, <2>2, <2>3, QuietRow
  <2> QED
    BY <2>4, <1>6, QuietReturn DEF ApproveVersion
<1>7. CASE FindActive(c)
  <2> DEFINE b == [op |-> "supersede", p |-> a.p, v |-> a.v, def |-> a.def,
                   found |-> {w \in Version \ {a.v} : HasStatus(a.p, w, {"ACTIVE"})},
                   retired |-> {}]
  <2>1. a.op = "activate" /\ a \in Pending /\ a.p \in Policy /\ a.v \in Version /\ Exists(a.p, a.v)
    BY <1>1, <1>7 DEF FindActive, Writes
  <2>2. b \in Pending
    BY <2>1 DEF Pending
  <2>3. /\ UNCHANGED <<tables, now, outrun, muddled, runs>>
        /\ call' = [call EXCEPT ![c] = b] /\ call'[c] = b
    BY <1>7 DEF FindActive, Goes, IInv, PolicyTypeOK
  <2>4. /\ b.op = "supersede" /\ b.p = a.p /\ b.v = a.v
        /\ \A w \in Version : w \in b.found \cup b.retired <=> w # a.v /\ HasStatus(a.p, w, {"ACTIVE"})
        /\ b.found \cup b.retired \subseteq Version
    OBVIOUS
  <2> HIDE DEF b
  <2>5. Ground(call[c])'
    BY <2>1, <2>3, <2>4 DEF Ground, HasStatus, Exists, tables
  <2>6. Knows(call[c])'
    BY <2>1, <2>3, <2>4 DEF Knows, HasStatus, Exists, tables
  <2> QED
    BY <2>2, <2>3, <2>5, <2>6, GoesStep
<1>8. CASE RetireOther(c)
  <2>1. a.op = "supersede" /\ a \in Pending /\ a # None
        /\ a.p \in Policy /\ a.v \in Version /\ Exists(a.p, a.v)
        /\ a.found \subseteq Version /\ a.retired \subseteq Version
    BY <1>1, <1>8, About DEF RetireOther, Writes
  <2>2. PICK w \in a.found :
          Goes(c, [a EXCEPT !.found = @ \ {w},
                            !.retired = IF HasStatus(a.p, w, {"ACTIVE"}) THEN @ \cup {w} ELSE @])
    BY <1>8 DEF RetireOther
  <2> DEFINE f == a.found \ {w}
             g == IF HasStatus(a.p, w, {"ACTIVE"}) THEN a.retired \cup {w} ELSE a.retired
             b == [a EXCEPT !.found = f, !.retired = g]
  <2>3. /\ b \in Pending
        /\ b.op = "supersede" /\ b.p = a.p /\ b.v = a.v /\ b.found = f /\ b.retired = g
    <3>1. f \in SUBSET Version /\ g \in SUBSET Version
      BY <2>1
    <3>2. a \in [op : {"supersede"}, p : Policy, v : Version, def : Definition,
                 found : SUBSET Version, retired : SUBSET Version]
      BY <2>1 DEF Pending
    <3> HIDE DEF f, g, a
    <3>3. /\ b \in [op : {"supersede"}, p : Policy, v : Version, def : Definition,
                    found : SUBSET Version, retired : SUBSET Version]
          /\ b.op = "supersede" /\ b.p = a.p /\ b.v = a.v /\ b.found = f /\ b.retired = g
      BY <3>1, <3>2
    <3> QED
      BY <3>3 DEF Pending
  <2>4. /\ UNCHANGED <<tables, now, outrun, muddled, runs>>
        /\ call' = [call EXCEPT ![c] = b] /\ call'[c] = b
    BY <2>2 DEF Goes, IInv, PolicyTypeOK
  <2>5. Ground(a) /\ (c \notin outrun => Knows(a))
    BY DEF IInv, Grounded, Informed
  <2>6. \A u \in f \cup g : u \in a.found \cup a.retired
    OBVIOUS
  <2>7. \A u \in a.found \cup a.retired : HasStatus(a.p, u, {"ACTIVE"}) => u \in f \cup g
    OBVIOUS
  <2> HIDE DEF b, f, g
  <2>8. Ground(call[c])'
    BY <2>1, <2>3, <2>4, <2>5, <2>6 DEF Ground, Exists, tables
  <2>9. c \notin outrun => Knows(call[c])'
    <3> SUFFICES ASSUME c \notin outrun, NEW u \in Version,
                        version[a.p][u] # None, version[a.p][u].status = "ACTIVE"
                 PROVE  u = a.v \/ u \in f \cup g
      BY <2>3, <2>4 DEF Knows, HasStatus, Exists, tables
    <3>1. HasStatus(a.p, u, {"ACTIVE"})
      BY DEF HasStatus, Exists
    <3>2. u = a.v \/ u \in a.found \cup a.retired
      BY <2>1, <2>5, <3>1 DEF Knows
    <3> QED
      BY <2>7, <3>1, <3>2
  <2> QED
    BY <2>3, <2>4, <2>8, <2>9, GoesStep
<1>9. CASE ActivateVersion(c)
  <2>1. PICK p \in Policy, v0 \in Version : p = a.p /\ v0 = a.v
    BY <1>1, <1>9 DEF ActivateVersion
  <2> QED
    BY <1>9, <2>1, ActivateStep
<1>10. CASE LookForActive(c)
  <2> DEFINE l == ~\E w \in Version \ {a.v} : HasStatus(a.p, w, {"ACTIVE"})
             b == [op |-> "withdraw", p |-> a.p, v |-> a.v, last |-> l]
  <2>1. a.op = "retire" /\ a \in Pending /\ a.p \in Policy /\ a.v \in Version /\ Exists(a.p, a.v)
    BY <1>1, <1>10 DEF LookForActive, Writes
  <2>2. b \in Pending
    <3>1. l \in BOOLEAN
      OBVIOUS
    <3> HIDE DEF l
    <3> QED
      BY <2>1, <3>1 DEF Pending
  <2>3. /\ UNCHANGED <<tables, now, outrun, muddled, runs>>
        /\ call' = [call EXCEPT ![c] = b] /\ call'[c] = b
    BY <1>10 DEF LookForActive, Goes, IInv, PolicyTypeOK
  <2>4. Ground(call[c])'
    BY <2>1, <2>3 DEF Ground, Exists, tables
  <2>5. Knows(call[c])'
    <3>1. l => \A w \in Version : HasStatus(a.p, w, {"ACTIVE"}) => w = a.v
      OBVIOUS
    <3>2. b.op = "withdraw" /\ b.p = a.p /\ b.v = a.v /\ b.last = l
      OBVIOUS
    <3> HIDE DEF l, b
    <3> QED
      BY <2>3, <3>1, <3>2 DEF Knows, HasStatus, Exists, tables
  <2> HIDE DEF b
  <2> QED
    BY <2>2, <2>3, <2>4, <2>5, GoesStep
<1>11. CASE RetireVersion(c)
  <2>1. PICK p \in Policy, v0 \in Version : p = a.p /\ v0 = a.v
    BY <1>1, <1>11 DEF RetireVersion
  <2> QED
    BY <1>11, <2>1, RetireStep
<1>12. CASE Reapprove(c)
  <2>1. a.op = "reapprove" /\ a \in Pending
        /\ a.p \in Policy /\ a.v \in Version /\ Exists(a.p, a.v) /\ version[a.p][a.v] \in Row
    BY <1>1, <1>12 DEF Reapprove, Writes
  <2> DEFINE row == [version[a.p][a.v] EXCEPT !.status = "APPROVED"]
             b == [a EXCEPT !.op = "reactivate"]
  <2>2. row \in Row /\ row.status # "ACTIVE"
    BY <2>1, RowStatus DEF Status
  <2>3. version' = [version EXCEPT ![a.p][a.v] = row] /\ UNCHANGED header
    BY <1>12 DEF Reapprove, SetStatus
  <2>4. Quiet
    BY ONLY IInv, <2>1, <2>2, <2>3, QuietRow
  <2>5. b \in Pending /\ b.p = a.p /\ b.v = a.v /\ b.op = "reactivate"
    BY <2>1 DEF Pending
  <2>6. call' = [call EXCEPT ![c] = b] /\ UNCHANGED <<now, outrun, muddled, runs>>
    BY <1>12 DEF Reapprove
  <2>7. /\ call' \in [Call -> Pending \cup {None}] /\ call'[c] = b
        /\ \A d \in Call \ {c} : call'[d] = call[d]
    BY <2>5, <2>6 DEF IInv, PolicyTypeOK
  <2>8. Ground(call[c])'
    BY <2>1, <2>4, <2>5, <2>7 DEF Ground, Quiet, Grows, Exists
  <2>9. Knows(call[c])'
    BY <2>5, <2>7 DEF Knows
  <2> HIDE DEF b
  <2> QED
    BY <2>4, <2>6, <2>7, <2>8, <2>9, QuietStep
<1>13. CASE Reactivate(c)
  <2>1. a.p \in Policy /\ a.v \in Version /\ Exists(a.p, a.v) /\ version[a.p][a.v] \in Row
    BY <1>1, <1>13 DEF Reactivate
  <2> DEFINE b == IF MayActivate(a.p, a.v) THEN ToActivate(a.p, a.v) ELSE None
  <2>2. b \in Pending \cup {None} /\ (b # None => b.op = "activate" /\ b.p = a.p /\ b.v = a.v)
    BY <2>1 DEF ToActivate, Pending, Row
  <2>3. /\ UNCHANGED <<tables, now, outrun, muddled, runs>>
        /\ call' = [call EXCEPT ![c] = b] /\ call'[c] = b
    BY <1>13 DEF Reactivate, Goes, IInv, PolicyTypeOK
  <2>4. Ground(call[c])' /\ Knows(call[c])'
    BY <2>1, <2>2, <2>3 DEF Ground, Knows, Exists, tables
  <2> HIDE DEF b
  <2> QED
    BY <2>2, <2>3, <2>4, GoesStep
<1>14. CASE Fail(c)
  <2>1. /\ UNCHANGED <<tables, now, muddled, runs>> /\ outrun' = outrun \ {c}
        /\ call' = [call EXCEPT ![c] = None] /\ call'[c] = None
    BY <1>14 DEF Fail, Returns, IInv, PolicyTypeOK
  <2>2. Ground(call[c])' /\ Knows(call[c])'
    BY <2>1 DEF Ground, Knows
  <2> QED
    BY <2>1, <2>2, GoesStep
<1> QED
  BY <1>2, <1>3, <1>4, <1>5, <1>6, <1>7, <1>8, <1>9, <1>10, <1>11, <1>12, <1>13, <1>14 DEF Commit

\* The tables and the calls do not change: only types are at stake.
LEMMA ElsewhereStep ==
  ASSUME IInv, UNCHANGED <<tables, calls>>,
         now' \in 0..MaxTime,
         stage' \in [Run -> {"idle", "versions", "headers", "pin"}],
         fetched' \in [Run -> Selection],
         pinned' \in [Run -> Selection],
         used' \in [Run -> Selection]
  PROVE  IInv'
  BY DEF IInv, tables, calls, PolicyTypeOK, Rooted, Grounded, Ground, Informed, Knows,
         OneActiveVersion, ActiveHasHeader, HasStatus, Exists

LEMMA EvaluateStep ==
  ASSUME IInv, NEW r \in Run, Evaluate(r)
  PROVE  IInv'
<1>1. {} \in Selection /\ VersionsInEffect \in Selection /\ ActiveHeaders \in Selection
  <2>1. Version \subseteq 0..MaxVersion /\ 0 \in 0..MaxVersion
    BY PolicyAssumption DEF Version
  <2> QED
    BY <2>1 DEF Selection, VersionsInEffect, ActiveHeaders
<1>2. now \in 0..MaxTime /\ fetched[r] \in Selection /\ pinned[r] \in Selection
  BY DEF IInv, PolicyTypeOK
<1>3. CASE ReadPin(r)
  BY <1>1, <1>2, <1>3, ElsewhereStep DEF ReadPin, IInv, PolicyTypeOK
<1>4. CASE FetchVersions(r)
  BY <1>1, <1>2, <1>4, ElsewhereStep DEF FetchVersions, IInv, PolicyTypeOK
<1>5. CASE FetchHeaders(r)
  BY <1>1, <1>2, <1>5, ElsewhereStep DEF FetchHeaders, IInv, PolicyTypeOK
<1>6. CASE Pin(r)
  BY <1>1, <1>2, <1>6, ElsewhereStep DEF Pin, IInv, PolicyTypeOK
<1>7. CASE EvaluationFails(r)
  BY <1>1, <1>2, <1>7, ElsewhereStep DEF EvaluationFails, IInv, PolicyTypeOK
<1> QED
  BY <1>3, <1>4, <1>5, <1>6, <1>7 DEF Evaluate

LEMMA Inductive == IInv /\ [Next]_vars => IInv'
<1> SUFFICES ASSUME IInv, [Next]_vars PROVE IInv'
  OBVIOUS
<1>1. ASSUME NEW c \in Call, Request(c) PROVE IInv'
  BY <1>1, RequestStep
<1>2. ASSUME NEW c \in Call, Commit(c) PROVE IInv'
  BY <1>2, CommitStep
<1>3. ASSUME NEW r \in Run, Evaluate(r) PROVE IInv'
  BY <1>3, EvaluateStep
<1>4. CASE Tick
  <2>1. now' \in 0..MaxTime
    BY <1>4, PolicyAssumption DEF Tick, IInv, PolicyTypeOK
  <2> QED
    BY <2>1, <1>4, ElsewhereStep DEF Tick, runs, IInv, PolicyTypeOK
<1>5. CASE UNCHANGED vars
  BY <1>5, ElsewhereStep DEF vars, runs, IInv, PolicyTypeOK
<1> QED
  BY <1>1, <1>2, <1>3, <1>4, <1>5 DEF Next

\* The tables, the calls and the runs keep their types.
THEOREM TypeCorrect == Spec => []PolicyTypeOK
<1>1. IInv => PolicyTypeOK
  BY DEF IInv
<1> QED
  BY InitIInv, Inductive, <1>1, PTL DEF Spec

\* However the statements of overlapping transactions interleave, a policy has
\* two ACTIVE versions only after a transaction past which another committed
\* has written it, and until an activation past which none has
\* (activateVersion's transaction, without an isolation level).
THEOREM OneActive == Spec => []OneActiveVersion
<1>1. IInv => OneActiveVersion
  BY DEF IInv
<1> QED
  BY InitIInv, Inductive, <1>1, PTL DEF Spec

\* Under the same condition an ACTIVE version is one that getActivePolicies can
\* find, its policy's header being active: what a retirement or an activation saw
\* of the other versions is true when it commits (activateVersion, retireVersion).
THEOREM ActiveFound == Spec => []ActiveHasHeader
<1>1. IInv => ActiveHasHeader
  BY DEF IInv
<1> QED
  BY InitIInv, Inductive, <1>1, PTL DEF Spec

-----------------------------------------------------------------------------
(* Runs keep their policies. *)

\* Between evaluations, a run's pin is what it last applied.
UsedIsPinned == \A r \in Run : used[r] # {} => used[r] = pinned[r] /\ stage[r] = "idle"

Typed == pinned \in [Run -> Selection] /\ used \in [Run -> Selection]
         /\ stage \in [Run -> {"idle", "versions", "headers", "pin"}]

LEMMA UsedStep ==
  ASSUME Typed, UsedIsPinned, [Next]_vars
  PROVE  /\ UsedIsPinned'
         /\ \A r \in Run : used[r] # {} => used'[r] \in {used[r], {}}
<1>1. CASE UNCHANGED runs
  BY <1>1 DEF runs, UsedIsPinned
<1>2. ASSUME NEW r \in Run, Evaluate(r)
      PROVE  /\ UsedIsPinned'
             /\ \A s \in Run : used[s] # {} => used'[s] \in {used[s], {}}
  <2>1. CASE ReadPin(r)
    BY <2>1 DEF ReadPin, Typed, UsedIsPinned
  <2>2. CASE FetchVersions(r)
    BY <2>2 DEF FetchVersions, Typed, UsedIsPinned
  <2>3. CASE FetchHeaders(r)
    BY <2>3 DEF FetchHeaders, Typed, UsedIsPinned
  <2>4. CASE Pin(r)
    BY <2>4 DEF Pin, Typed, UsedIsPinned
  <2>5. CASE EvaluationFails(r)
    BY <2>5 DEF EvaluationFails, Typed, UsedIsPinned
  <2> QED
    BY <1>2, <2>1, <2>2, <2>3, <2>4, <2>5 DEF Evaluate
<1>3. ASSUME NEW c \in Call, Request(c) PROVE UNCHANGED runs
  BY <1>3 DEF Request, ReadKey, ReadLatest, ReadDraft, ReadSubject, ReadActivation,
              ReadRollback, Reads, Goes
<1>4. ASSUME NEW c \in Call, Commit(c) PROVE UNCHANGED runs
  BY <1>4 DEF Commit, CreatePolicy, CreateVersion, UpdateVersion, SubmitVersion,
              ApproveVersion, FindActive, RetireOther, ActivateVersion, LookForActive,
              RetireVersion, Reapprove, Reactivate, Fail, Goes
<1>5. Tick \/ UNCHANGED vars => UNCHANGED runs
  BY DEF Tick, vars
<1> QED
  BY <1>1, <1>2, <1>3, <1>4, <1>5 DEF Next

\* A run goes on with the policies it has applied, however often it is resumed
\* or replanned, unless its pin could not be read or written (PolicyEngine.evaluate).
THEOREM PoliciesKept == Spec => RunKeepsPolicies
<1>1. Init => UsedIsPinned
  BY DEF Init, UsedIsPinned
<1>2. IInv => Typed
  BY DEF IInv, PolicyTypeOK, Typed
<1>3. Typed /\ UsedIsPinned /\ [Next]_vars =>
        /\ UsedIsPinned'
        /\ [\A r \in Run : used[r] # {} => used'[r] \in {used[r], {}}]_vars
  BY UsedStep
<1> QED
  BY InitIInv, Inductive, <1>1, <1>2, <1>3, PTL DEF Spec, RunKeepsPolicies

-----------------------------------------------------------------------------
(* What was submitted does not become a draft again. *)

Submitted(p, v) == Exists(p, v) /\ version[p][v].status # "DRAFT"

Forward ==
  \A p \in Policy, v \in Version : Submitted(p, v) =>
    /\ version'[p][v].status # "DRAFT"
    /\ version[p][v].approved => version'[p][v].approved

\* A row replaced by one that is further on, or written where there was none.
LEMMA RowGoesForward ==
  ASSUME IInv, NEW p \in Policy, NEW v \in Version, NEW row,
         version' = [version EXCEPT ![p][v] = row],
         Submitted(p, v) => row.status # "DRAFT" /\ (version[p][v].approved => row.approved)
  PROVE  Forward
<1>1. \A q \in Policy, w \in Version :
        version'[q][w] = IF q = p /\ w = v THEN row ELSE version[q][w]
  BY DEF IInv, PolicyTypeOK
<1> QED
  BY <1>1 DEF Forward, Submitted

\* A call that is about to write a status writes it to a row that it has read.
LEMMA SetsStatus ==
  ASSUME IInv, NEW c \in Call, NEW s \in Status \ {"DRAFT"}, call[c] # None,
         call[c].op \in {"submit", "approve", "withdraw", "reapprove"},
         \/ SetStatus(call[c].p, call[c].v, s)
         \/ version' = [version EXCEPT ![call[c].p][call[c].v].status = s,
                                       ![call[c].p][call[c].v].approved = TRUE]
  PROVE  Forward
<1> DEFINE a == call[c]
           old == version[a.p][a.v]
<1>1. a.p \in Policy /\ a.v \in Version
  <2>1. a \in Pending
    BY DEF IInv, PolicyTypeOK
  <2> QED
    BY <2>1 DEF Pending
<1>2. old \in Row
  BY <1>1 DEF IInv, PolicyTypeOK, Grounded, Ground, Exists
<1>3. CASE SetStatus(a.p, a.v, s)
  <2>1. version' = [version EXCEPT ![a.p][a.v] = [old EXCEPT !.status = s]]
    BY <1>3 DEF SetStatus
  <2>2. [old EXCEPT !.status = s].status = s /\ [old EXCEPT !.status = s].approved = old.approved
    BY <1>2 DEF Row
  <2> QED
    BY <1>1, <2>1, <2>2, RowGoesForward
<1>4. CASE version' = [version EXCEPT ![a.p][a.v].status = s, ![a.p][a.v].approved = TRUE]
  <2> DEFINE row == [old EXCEPT !.status = s, !.approved = TRUE]
  <2>1. version' = [version EXCEPT ![a.p][a.v] = row]
    BY <1>1, <1>4 DEF IInv, PolicyTypeOK
  <2>2. row.status = s /\ row.approved = TRUE
    BY <1>2 DEF Row
  <2> QED
    BY ONLY IInv, <1>1, <2>1, <2>2, RowGoesForward
<1> QED
  BY <1>3, <1>4

LEMMA ForwardStep ==
  ASSUME IInv, [Next]_vars
  PROVE  Forward
<1>1. CASE UNCHANGED version
  BY <1>1 DEF Forward, Submitted
<1>2. ASSUME NEW c \in Call, Commit(c)
      PROVE  Forward
  <2> DEFINE a == call[c]
  <2>1. CASE CreatePolicy(c)
    <3>1. PICK p \in Policy :
            /\ header[p] = None
            /\ version' = [version EXCEPT ![p][1] =
                 [status |-> IF a.auto THEN "ACTIVE" ELSE "DRAFT", def |-> a.def,
                  window |-> Always, approved |-> FALSE]]
      BY <2>1 DEF CreatePolicy
    <3>2. 1 \in Version /\ ~Submitted(p, 1)
      BY <3>1, PolicyAssumption DEF IInv, Rooted, Submitted, Version
    <3> QED
      BY <3>1, <3>2, RowGoesForward
  <2>2. CASE CreateVersion(c)
    <3>1. a \in Pending /\ a.op = "draft"
      BY <2>2 DEF CreateVersion, Writes, IInv, PolicyTypeOK
    <3>2. a.p \in Policy /\ a.v \in Version
      BY <3>1 DEF Pending
    <3> DEFINE row == IF version[a.p][a.v] = None
                        THEN [status |-> "DRAFT", def |-> a.def, window |-> a.window,
                              approved |-> FALSE]
                        ELSE version[a.p][a.v]
    <3>3. version' = [version EXCEPT ![a.p][a.v] = row]
      BY <2>2 DEF CreateVersion
    <3>4. Submitted(a.p, a.v) => row = version[a.p][a.v] /\ row.status # "DRAFT"
      BY DEF Submitted, Exists
    <3> QED
      BY ONLY IInv, <3>2, <3>3, <3>4, RowGoesForward
  <2>3. CASE UpdateVersion(c)
    <3>1. a \in Pending /\ a.op = "update" /\ Exists(a.p, a.v)
      BY <2>3 DEF UpdateVersion, Writes, IInv, PolicyTypeOK, Grounded, Ground
    <3>2. a.p \in Policy /\ a.v \in Version
      BY <3>1 DEF Pending
    <3> DEFINE row == [version[a.p][a.v] EXCEPT !.def = a.def]
    <3>3. version' = [version EXCEPT ![a.p][a.v] = row]
      BY <2>3 DEF UpdateVersion
    <3>4. row.status = version[a.p][a.v].status /\ row.approved = version[a.p][a.v].approved
      BY <3>1, <3>2 DEF IInv, PolicyTypeOK, Exists, Row
    <3> QED
      BY <3>2, <3>3, <3>4, RowGoesForward DEF Submitted
  <2>4. CASE SubmitVersion(c)
    <3>1. call[c] # None /\ call[c].op = "submit" /\ SetStatus(call[c].p, call[c].v, "PENDING_APPROVAL")
      BY <2>4 DEF SubmitVersion, Writes
    <3>2. "PENDING_APPROVAL" \in Status \ {"DRAFT"}
      BY DEF Status
    <3> QED
      BY ONLY IInv, <3>1, <3>2, SetsStatus
  <2>5. CASE ApproveVersion(c)
    <3>1. /\ call[c] # None /\ call[c].op = "approve"
          /\ version' = [version EXCEPT ![call[c].p][call[c].v].status = "APPROVED",
                                        ![call[c].p][call[c].v].approved = TRUE]
      BY <2>5 DEF ApproveVersion, Writes
    <3>2. "APPROVED" \in Status \ {"DRAFT"}
      BY DEF Status
    <3> QED
      BY ONLY IInv, <3>1, <3>2, SetsStatus
  <2>6. CASE ActivateVersion(c)
    <3>1. a \in Pending /\ a.op = "supersede"
      BY <2>6 DEF ActivateVersion, Writes, IInv, PolicyTypeOK
    <3>2. a.p \in Policy /\ a.v \in Version
      BY <3>1 DEF Pending
    <3> DEFINE New(v) == IF v = a.v THEN [version[a.p][v] EXCEPT !.status = "ACTIVE"]
                         ELSE IF v \in a.retired
                           THEN [version[a.p][v] EXCEPT !.status = "RETIRED"]
                         ELSE version[a.p][v]
    <3>3. version' = [version EXCEPT ![a.p] = [v \in Version |-> New(v)]]
      BY <2>6 DEF ActivateVersion
    <3>4. \A v \in Version : Submitted(a.p, v) =>
            New(v).status # "DRAFT" /\ New(v).approved = version[a.p][v].approved
      <4> SUFFICES ASSUME NEW v \in Version, Submitted(a.p, v)
                   PROVE  New(v).status # "DRAFT" /\ New(v).approved = version[a.p][v].approved
        OBVIOUS
      <4> DEFINE old == version[a.p][v]
      <4>1. old \in Row
        BY <3>2 DEF IInv, PolicyTypeOK, Submitted, Exists
      <4>2. \A s \in {"ACTIVE", "RETIRED"} :
              [old EXCEPT !.status = s].status = s /\ [old EXCEPT !.status = s].approved = old.approved
        BY <4>1 DEF Row
      <4>3. \/ New(v) = [old EXCEPT !.status = "ACTIVE"]
            \/ New(v) = [old EXCEPT !.status = "RETIRED"]
            \/ New(v) = old
        OBVIOUS
      <4>4. old.status # "DRAFT"
        BY DEF Submitted
      <4> HIDE DEF New, old
      <4>5. QED
        BY <4>2, <4>3, <4>4 DEF old
    <3> HIDE DEF New
    <3>5. \A q \in Policy, v \in Version :
            version'[q][v] = IF q = a.p THEN New(v) ELSE version[q][v]
      BY <3>2, <3>3 DEF IInv, PolicyTypeOK
    <3> QED
      BY <3>4, <3>5 DEF Forward, Submitted
  <2>7. CASE RetireVersion(c)
    BY <2>7, SetsStatus DEF RetireVersion, Writes, Status
  <2>8. CASE Reapprove(c)
    <3>1. call[c] # None /\ call[c].op = "reapprove" /\ SetStatus(call[c].p, call[c].v, "APPROVED")
      BY <2>8 DEF Reapprove, Writes
    <3>2. "APPROVED" \in Status \ {"DRAFT"}
      BY DEF Status
    <3> QED
      BY ONLY IInv, <3>1, <3>2, SetsStatus
  <2>9. CASE FindActive(c) \/ RetireOther(c) \/ LookForActive(c) \/ Reactivate(c) \/ Fail(c)
    BY <1>1, <2>9 DEF FindActive, RetireOther, LookForActive, Reactivate, Fail, Goes, tables
  <2> QED
    BY <1>2, <2>1, <2>2, <2>3, <2>4, <2>5, <2>6, <2>7, <2>8, <2>9 DEF Commit
<1>3. ASSUME NEW c \in Call, Request(c) PROVE UNCHANGED version
  BY <1>3 DEF Request, ReadKey, ReadLatest, ReadDraft, ReadSubject, ReadActivation,
              ReadRollback, Reads, Goes, tables
<1>4. ASSUME NEW r \in Run, Evaluate(r) PROVE UNCHANGED version
  BY <1>4 DEF Evaluate, ReadPin, FetchVersions, FetchHeaders, Pin, EvaluationFails, tables
<1>5. Tick \/ UNCHANGED vars => UNCHANGED version
  BY DEF Tick, vars, tables
<1> QED
  BY <1>1, <1>2, <1>3, <1>4, <1>5 DEF Next

\* However creations, edits and changes of status overlap, a version that has
\* been submitted never becomes a draft again and keeps its approval
\* (createVersion's unique pair of policy and version).
THEOREM SubmittedForGood == Spec => VersionNotRecreated
<1>1. IInv /\ [Next]_vars =>
        [\A p \in Policy, v \in Version :
           Exists(p, v) /\ version[p][v].status # "DRAFT" =>
             /\ version'[p][v].status # "DRAFT"
             /\ version[p][v].approved => version'[p][v].approved]_version
  <2>1. IInv /\ [Next]_vars => Forward
    BY ForwardStep
  <2> QED
    BY <2>1, Zenon DEF Forward, Submitted
<1> QED
  BY InitIInv, Inductive, <1>1, PTL DEF Spec, VersionNotRecreated

-----------------------------------------------------------------------------
(*                                Decisions                                *)

-----------------------------------------------------------------------------
(* Least elements. *)

LEMMA LeastNatural ==
  ASSUME NEW S \in SUBSET Nat, S # {}
  PROVE  \E n \in S : \A k \in S : n <= k
<1> DEFINE R == OpToRel(<, Nat)
<1>1. IsWellFoundedOn(R, Nat)
  BY NatLessThanWellFounded
<1>2. \A k, n \in Nat : k < n => <<k, n>> \in R
  BY DEF OpToRel
<1> HIDE DEF R
<1>3. PICK n \in S : \A k \in S : ~(<<k, n>> \in R)
  BY <1>1, WFMin
<1>4. \A k \in S : ~(k < n)
  BY <1>2, <1>3
<1> QED
  BY <1>4

LEMMA MinIsLeast ==
  ASSUME NEW S \in SUBSET Nat, S # {}
  PROVE  Min(S) \in S /\ Min(S) \in Nat
  BY LeastNatural DEF Min

-----------------------------------------------------------------------------
(* The candidates. *)

\* Someone who was flagged.
Flagged(f) == "FRAUD_RISK_FLAG" \in f.signals

\* A candidate as generateCandidateActions makes them from the facts f.
Sound(c, f) ==
  /\ c.rank \in Nat /\ c.priority \in Nat
  /\ c.approval => c.action \in {"REFUND", "CANCELLATION"}
  /\ c.feasible = "APPROVAL_REQUIRED" => c.action = "REFUND" /\ c.approval
  /\ c.action = "REFUND" => c.feasible \in {"APPROVAL_REQUIRED", "FEASIBLE"}
  /\ c.action = "REFUND" /\ Flagged(f) => c.approval
  /\ c.feasible = "REQUIRES_CUSTOMER_CONSENT" => c.action = "REPLACEMENT" /\ c.rank = 3
  /\ c.product = "other" => c.action = "REPLACEMENT" /\ c.feasible = "REQUIRES_CUSTOMER_CONSENT"

LEMMA PriorityIsNatural ==
  ASSUME case \in Cases, NEW f, NEW i, NEW action, NEW default \in Nat
  PROVE  Priority(f, i, action, default) \in Nat
<1> DEFINE S == {default} \cup {p.priority : p \in {q \in Applicable(f, i) : q.action = action}}
<1>1. case.policies \in Policies
  BY DEF Cases
<1>2. S \in SUBSET Nat /\ S # {}
  BY <1>1, DecisionAssumption DEF Applicable
<1> QED
  BY <1>2, MinIsLeast DEF Priority

LEMMA CandidatesSound ==
  ASSUME case \in Cases, NEW f, NEW i
  PROVE  /\ \A c \in Candidates(f, i) : Sound(c, f)
         /\ \A action \in {"REFUND", "REPLACEMENT", "CANCELLATION", "ESCALATION"} :
              \E c \in Candidates(f, i) : c.action = action
         /\ \E c \in Candidates(f, i) : c.action = "ESCALATION" /\ c.feasible = "FEASIBLE"
         /\ \A c, d \in Candidates(f, i) : c.rank = d.rank => c = d
         /\ \A c, d \in Candidates(f, i) :
              c.action = d.action /\ c.action \in {"REFUND", "CANCELLATION"} => c = d
         /\ \A c \in Candidates(f, i) :
              c.action = "REPLACEMENT" /\ c.feasible = "FEASIBLE" => f.stock # 0
         /\ \A c \in Candidates(f, i) : c.rank = 3 => f.stock = 0
         /\ \E c \in Candidates(f, i) : c.action = "REPLACEMENT" /\ c.rank = 2
<1> DEFINE needs == RefundApproval(f, i)
           refundPriority == Priority(f, i, "REFUND", 1)
           replacementPriority == Priority(f, i, "REPLACEMENT", 2)
           out == f.stock = 0
           cancels == f.order # Absent /\ f.order.cancelable
           approves == \E p \in Applicable(f, i) : p.action = "CANCELLATION" /\ NeedsApproval(p, f)
           refund == Candidate(1, "REFUND", IF needs THEN "APPROVAL_REQUIRED" ELSE "FEASIBLE",
                               needs, refundPriority, AmountOf(f.order), Absent)
           replacement == Candidate(2, "REPLACEMENT", IF out THEN "BLOCKED" ELSE "FEASIBLE", FALSE,
                                    replacementPriority, 0, "ordered")
           other == Candidate(3, "REPLACEMENT", "REQUIRES_CUSTOMER_CONSENT", FALSE, 2, 0, "other")
           cancellation == Candidate(4, "CANCELLATION", IF cancels THEN "FEASIBLE" ELSE "BLOCKED",
                                     approves, 3, 0, Absent)
           coupon == Candidate(5, "COUPON", "FEASIBLE", FALSE, 4, 0, Absent)
           escalation == Candidate(6, "ESCALATION", "FEASIBLE", FALSE, 5, 0, Absent)
<1>1. Candidates(f, i) = {refund, replacement, cancellation, coupon, escalation}
                           \cup (IF out THEN {other} ELSE {})
  BY DEF Candidates
<1>2. refundPriority \in Nat /\ replacementPriority \in Nat
  BY PriorityIsNatural
<1>3. needs \in BOOLEAN /\ approves \in BOOLEAN /\ (Flagged(f) => needs)
  BY DEF RefundApproval, Flagged
<1>4. Absent # "other"
  BY DecisionAssumption
<1> HIDE DEF needs, refundPriority, replacementPriority, cancels, approves
<1>5. \A c \in {refund, replacement, other, cancellation, coupon, escalation} : Sound(c, f)
  BY <1>2, <1>3, <1>4 DEF Candidate, Sound
<1>6. /\ refund.rank = 1 /\ refund.action = "REFUND"
      /\ replacement.rank = 2 /\ replacement.action = "REPLACEMENT"
      /\ replacement.feasible = IF out THEN "BLOCKED" ELSE "FEASIBLE"
      /\ other.rank = 3 /\ other.action = "REPLACEMENT"
      /\ other.feasible = "REQUIRES_CUSTOMER_CONSENT"
      /\ cancellation.rank = 4 /\ cancellation.action = "CANCELLATION"
      /\ coupon.rank = 5 /\ coupon.action = "COUPON"
      /\ escalation.rank = 6 /\ escalation.action = "ESCALATION"
      /\ escalation.feasible = "FEASIBLE"
  BY DEF Candidate
<1> HIDE DEF refund, replacement, other, cancellation, coupon, escalation
<1> QED
  BY <1>1, <1>5, <1>6

LEMMA EarliestIsOne ==
  ASSUME NEW some, some # {}, \A c \in some : c.rank \in Nat
  PROVE  Earliest(some) \in some /\ \A d \in some : Earliest(some).rank <= d.rank
<1>1. \E n \in {c.rank : c \in some} : \A k \in {c.rank : c \in some} : n <= k
  BY LeastNatural
<1> QED
  BY <1>1 DEF Earliest

\* What is selected is a candidate: the one that was asked for, a human, or one
\* that may go ahead or needs an approval.
LEMMA SelectedIsCandidate ==
  ASSUME case \in Cases, NEW f, NEW i
  PROVE  LET s == Selected(Candidates(f, i), i) IN
         /\ s \in Candidates(f, i)
         /\ i.wants \in {"REFUND", "REPLACEMENT"} => s.action = i.wants
         /\ i.wants = "CANCELLATION" => s.action \in {"CANCELLATION", "ESCALATION"}
         /\ s.action = "CANCELLATION" => s.feasible = "FEASIBLE"
         /\ s.feasible # "REQUIRES_CUSTOMER_CONSENT"
<1> DEFINE all == Candidates(f, i)
           open == {c \in all : c.feasible \in {"FEASIBLE", "APPROVAL_REQUIRED"}}
           best == {c \in open : \A d \in open : c.priority <= d.priority}
<1>1. /\ \A c \in all : Sound(c, f)
      /\ \A action \in {"REFUND", "REPLACEMENT", "CANCELLATION", "ESCALATION"} :
           \E c \in all : c.action = action
      /\ open # {}
      /\ \E c \in all : c.action = "REPLACEMENT" /\ c.rank = 2
  BY CandidatesSound
<1> HIDE DEF all
<1>2. ASSUME NEW action \in {"REFUND", "REPLACEMENT", "CANCELLATION", "ESCALATION"}
      PROVE  /\ First(all, action) \in all /\ First(all, action).action = action
             /\ First(all, action).feasible # "REQUIRES_CUSTOMER_CONSENT"
  <2> DEFINE some == {c \in all : c.action = action}
  <2>1. some # {} /\ \A c \in some : c.rank \in Nat
    BY <1>1 DEF Sound
  <2>2. Earliest(some) \in some /\ \A d \in some : Earliest(some).rank <= d.rank
    BY <2>1, EarliestIsOne
  <2>3. First(all, action) = Earliest(some)
    BY DEF First
  <2>4. First(all, action).feasible = "REQUIRES_CUSTOMER_CONSENT" =>
          First(all, action).rank = 3 /\ action = "REPLACEMENT"
    BY <2>2, <2>3, <1>1 DEF Sound
  <2> QED
    BY <1>1, <2>2, <2>3, <2>4
<1>3. Best(all) \in open
  <2> DEFINE priorities == {c.priority : c \in open}
  <2>1. priorities \in SUBSET Nat /\ priorities # {}
    BY <1>1 DEF Sound
  <2> HIDE DEF open
  <2>2. \E n \in priorities : \A k \in priorities : n <= k
    <3> HIDE DEF priorities
    <3> QED
      BY <2>1, LeastNatural
  <2>3. best # {}
    BY <2>2
  <2>4. \A c \in best : c.rank \in Nat
    BY <1>1 DEF Sound, open
  <2>5. Earliest(best) \in best
    BY <2>3, <2>4, EarliestIsOne
  <2> QED
    BY <2>5 DEF Best, open
<1>4. CASE i.wants \in {"REFUND", "REPLACEMENT"}
  <2>1. Selected(all, i) = First(all, i.wants)
    BY <1>4 DEF Selected
  <2>2. /\ First(all, i.wants) \in all /\ First(all, i.wants).action = i.wants
        /\ First(all, i.wants).feasible # "REQUIRES_CUSTOMER_CONSENT"
    BY <1>2, <1>4
  <2> QED
    BY <1>4, <2>1, <2>2 DEF all
<1>5. CASE i.wants = "CANCELLATION"
  <2>1. Selected(all, i) = First(all, IF First(all, "CANCELLATION").feasible = "FEASIBLE"
                                        THEN "CANCELLATION" ELSE "ESCALATION")
    BY <1>5 DEF Selected
  <2> QED
    BY <1>2, <1>5, <2>1 DEF all
<1>6. CASE i.wants \notin {"REFUND", "REPLACEMENT", "CANCELLATION"}
  <2>1. Selected(all, i) = Best(all)
    BY <1>6 DEF Selected
  <2>2. Best(all).action = "CANCELLATION" => Best(all).feasible = "FEASIBLE"
    BY <1>1, <1>3 DEF Sound
  <2> QED
    BY <1>3, <1>6, <2>1, <2>2 DEF all
<1> QED
  BY <1>4, <1>5, <1>6

-----------------------------------------------------------------------------
(* The decision. *)

\* What a decision d about the facts f and the intent i says that gates rely on.
Decides(d, f, i) ==
  /\ d.action = "REFUND" /\ Flagged(f) => d.approval
  /\ i.wants \in {"REFUND", "REPLACEMENT", "CANCELLATION"} => d.action \in {i.wants, "ESCALATION"}
  /\ d.target.approval \/ d.target.feasible = "APPROVAL_REQUIRED" => d.approval

LEMMA DecideDecides ==
  ASSUME case \in Cases, NEW f, NEW i
  PROVE  /\ Decides(Decide(f, i), f, i)
         /\ Decide(f, i).target.feasible # "REQUIRES_CUSTOMER_CONSENT"
<1> DEFINE all == Candidates(f, i)
           s == Selected(all, i)
           approval == s.approval /\ s.action # "CANCELLATION"
           rest == {c \in all : c.action = s.action /\ c.feasible # "FEASIBLE"}
           madeUp == Candidate(0, s.action, "FEASIBLE", approval, 1, 0, Absent)
           target == IF rest # {} THEN Earliest(rest) ELSE madeUp
<1>1. Decide(f, i) = [action |-> s.action, approval |-> approval, blocked |-> rest # {},
                      target |-> target]
  BY DEF Decide, Decided
<1>2. /\ s \in all
      /\ i.wants \in {"REFUND", "REPLACEMENT"} => s.action = i.wants
      /\ i.wants = "CANCELLATION" => s.action \in {"CANCELLATION", "ESCALATION"}
      /\ s.action = "CANCELLATION" => s.feasible = "FEASIBLE"
      /\ s.feasible # "REQUIRES_CUSTOMER_CONSENT"
  BY SelectedIsCandidate
<1>3. /\ \A c \in all : Sound(c, f)
      /\ \A c, d \in all : c.action = d.action /\ c.action \in {"REFUND", "CANCELLATION"} => c = d
      /\ \E c \in all : c.action = "REPLACEMENT" /\ c.rank = 2
      /\ \A c \in all : c.action = "REPLACEMENT" /\ c.feasible = "FEASIBLE" => f.stock # 0
      /\ \A c \in all : c.rank = 3 => f.stock = 0
  BY CandidatesSound
<1> HIDE DEF all, s
<1>4. rest # {} => Earliest(rest) \in rest /\ \A d \in rest : Earliest(rest).rank <= d.rank
  BY <1>3, EarliestIsOne DEF Sound
<1> HIDE DEF rest
<1>5. \/ target \in rest /\ \A d \in rest : target.rank <= d.rank
      \/ target.feasible = "FEASIBLE" /\ target.approval = approval
  BY <1>4 DEF Candidate
<1> HIDE DEF target
<1>6. target.feasible # "REQUIRES_CUSTOMER_CONSENT"
  <2> SUFFICES ASSUME target.feasible = "REQUIRES_CUSTOMER_CONSENT" PROVE FALSE
    OBVIOUS
  <2>1. target \in all /\ target.action = s.action /\ \A d \in rest : target.rank <= d.rank
    BY <1>5 DEF rest
  <2>2. target.action = "REPLACEMENT" /\ target.rank = 3 /\ f.stock = 0
    BY <1>3, <2>1 DEF Sound
  <2>3. PICK c \in all : c.action = "REPLACEMENT" /\ c.rank = 2
    BY <1>3
  <2>4. c \in rest
    BY <1>3, <2>1, <2>2, <2>3 DEF rest
  <2> QED
    BY <2>1, <2>2, <2>3, <2>4
<1>7. target.approval \/ target.feasible = "APPROVAL_REQUIRED" => approval
  <2> SUFFICES ASSUME target \in rest, target.approval \/ target.feasible = "APPROVAL_REQUIRED"
               PROVE  approval
    BY <1>5
  <2>1. target \in all /\ target.action = s.action /\ target.feasible # "FEASIBLE"
    BY DEF rest
  <2>2. target.approval /\ target.action \in {"REFUND", "CANCELLATION"}
    BY <1>3, <2>1 DEF Sound
  <2>3. target = s
    BY <1>2, <1>3, <2>1, <2>2
  <2> QED
    BY <1>2, <2>1, <2>2, <2>3
<1>8. s.action = "REFUND" /\ Flagged(f) => approval
  BY <1>2, <1>3 DEF Sound
<1>9. i.wants \in {"REFUND", "REPLACEMENT", "CANCELLATION"} => s.action \in {i.wants, "ESCALATION"}
  BY <1>2
<1> HIDE DEF approval
<1> QED
  BY <1>1, <1>6, <1>7, <1>8, <1>9 DEF Decides

-----------------------------------------------------------------------------
(* The inductive invariant of a case. *)

CaseTypeOK ==
  /\ case \in Cases
  /\ token \in BOOLEAN /\ consent \in BOOLEAN /\ resumed \in BOOLEAN

\* resumeRun starts with an answer in hand.
AnsweredOnResume == resumed => token /\ consent

\* A decision that was taken is about the facts and the intent of the case.
DecidedOnFacts == step \notin {"investigate", "failed"} => Decides(decision, found, intent)

\* What is to be carried out lacks no answer.
Cleared ==
  step \in {"execute", "again", "recover"} =>
    /\ decision.approval => token
    /\ decision.target.feasible = "REQUIRES_CUSTOMER_CONSENT" => consent

\* What was carried out is what was decided, with the answers it took.
DoneAsDecided ==
  done # Absent =>
    /\ step = "resolved"
    /\ done.action = decision.action
    /\ done.risky => Flagged(found)
    /\ done.token = token
    /\ decision.approval => token

CInv == CaseTypeOK /\ AnsweredOnResume /\ DecidedOnFacts /\ Cleared /\ DoneAsDecided /\ GatesAgree

LEMMA CaseInitCInv == CaseInit => CInv
  BY DEF CaseInit, CInv, CaseTypeOK, AnsweredOnResume, DecidedOnFacts, Cleared, DoneAsDecided, GatesAgree

LEMMA InvestigateCInv == CInv /\ Investigate => CInv'
<1> SUFFICES ASSUME CInv, Investigate PROVE CInv'
  OBVIOUS
<1>1. CaseTypeOK' /\ AnsweredOnResume'
  BY DEF CInv, CaseTypeOK, AnsweredOnResume, Investigate, Keep
<1>2. done = Absent /\ done' = Absent
  BY DEF CInv, DoneAsDecided, Investigate
<1>3. CASE step' = "failed"
  BY <1>1, <1>2, <1>3 DEF CInv, DecidedOnFacts, Cleared, DoneAsDecided, GatesAgree
<1>4. CASE step' # "failed"
  <2>1. PICK f \in Investigated :
          /\ found' = f /\ decision' = Decide(f, intent')
          /\ step' = IF resumed THEN "execute" ELSE "gate"
    BY <1>4 DEF Investigate
  <2>2. Decides(decision', found', intent')
    BY <2>1, DecideDecides DEF CInv, CaseTypeOK
  <2>3. step' = "execute" => token' /\ consent'
    BY <2>1 DEF CInv, AnsweredOnResume, Investigate, Keep
  <2>4. step' \in {"execute", "gate"}
    BY <2>1
  <2> QED
    BY <1>1, <1>2, <2>2, <2>3, <2>4 DEF CInv, DecidedOnFacts, Cleared, DoneAsDecided, GatesAgree
<1> QED
  BY <1>3, <1>4

LEMMA GateCInv == CInv /\ Gate => CInv'
<1> SUFFICES ASSUME CInv, Gate PROVE CInv'
  OBVIOUS
<1>1. UNCHANGED <<case, token, consent, resumed, intent, found, decision, done>> /\ step = "gate"
  BY DEF Gate, Keep
<1>2. /\ step' \in {"waitApproval", "escalated", "waitConsent", "execute"}
      /\ step' = "execute" =>
           /\ decision.approval => token
           /\ decision.target.feasible = "REQUIRES_CUSTOMER_CONSENT" => consent
  BY DEF Gate
<1>3. done' = Absent
  BY <1>1 DEF CInv, DoneAsDecided
<1> QED
  BY <1>1, <1>2, <1>3
     DEF CInv, CaseTypeOK, AnsweredOnResume, DecidedOnFacts, Cleared, DoneAsDecided, GatesAgree

\* The executor has nothing to ask for.
LEMMA NothingWithheld ==
  ASSUME CInv, step \in {"execute", "again"}
  PROVE  ~Withholds
  BY DEF CInv, DecidedOnFacts, Decides, Cleared, Withholds

LEMMA ExecuteCInv == CInv /\ Execute => CInv'
<1> SUFFICES ASSUME CInv, Execute PROVE CInv'
  OBVIOUS
<1>1. UNCHANGED <<case, token, consent, resumed, intent, found, decision>> /\ step \in {"execute", "again"}
  BY DEF Execute, Keep
<1>2. ~Withholds
  BY <1>1, NothingWithheld
<1>3. \/ step' \in {"escalated", "recover"} /\ UNCHANGED done
      \/ step' = "resolved" /\ done' = Act
  BY <1>1, <1>2 DEF Execute
<1>4. done = Absent
  BY <1>1 DEF CInv, DoneAsDecided
<1>5. /\ Act.action = decision.action /\ Act.token = token
      /\ Act.risky = Flagged(found)
  BY DEF Act, Flagged
<1> QED
  BY <1>1, <1>3, <1>4, <1>5
     DEF CInv, CaseTypeOK, AnsweredOnResume, DecidedOnFacts, Cleared, DoneAsDecided, GatesAgree

\* Another product in place of one that is out of stock.
LEMMA OtherProduct ==
  ASSUME case \in Cases, NEW f, NEW i,
         NEW others, others = {c \in Candidates(f, i) : c.product = "other"}, others # {}
  PROVE  /\ ~Earliest(others).approval
         /\ Earliest(others).feasible = "REQUIRES_CUSTOMER_CONSENT"
<1>1. \A c \in others : Sound(c, f) /\ c.product = "other"
  BY CandidatesSound
<1>2. Earliest(others) \in others
  BY <1>1, EarliestIsOne DEF Sound
<1> QED
  BY <1>1, <1>2 DEF Sound

LEMMA RecoverCInv == CInv /\ Recover => CInv'
<1> SUFFICES ASSUME CInv, Recover PROVE CInv'
  OBVIOUS
<1>1. UNCHANGED <<case, token, consent, resumed, intent, done>> /\ step = "recover"
  BY DEF Recover, Keep
<1>2. done' = Absent
  BY <1>1 DEF CInv, DoneAsDecided
<1>3. PICK f \in Investigated, lack \in {Lacking, TRUE} :
       LET others == {c \in Candidates(f, intent) : c.product = "other"}
           d == Decide(f, intent)
       IN /\ found' = f
          /\ IF decision.action = "REPLACEMENT" /\ lack /\ others # {}
             THEN /\ step' = IF consent THEN "again" ELSE Waits("waitConsent")
                  /\ decision' = [d EXCEPT !.action = "REPLACEMENT", !.approval = FALSE, !.target = Earliest(others)]
             ELSE /\ step' = CASE d.approval -> Waits("waitApproval")
                                [] d.action = "ESCALATION" -> "escalated"
                                [] OTHER -> "again"
                  /\ decision' = d
  BY DEF Recover
<1> DEFINE others == {c \in Candidates(f, intent) : c.product = "other"}
           d == Decide(f, intent)
<1>4. /\ step' \in {"again", "waitApproval", "waitConsent", "escalated"}
      /\ Decides(decision', found', intent)
      /\ step' = "again" =>
           /\ decision'.approval => token
           /\ decision'.target.feasible = "REQUIRES_CUSTOMER_CONSENT" => consent
  <2>1. /\ Decides(d, f, intent) /\ d.target.feasible # "REQUIRES_CUSTOMER_CONSENT"
        /\ DOMAIN d = {"action", "approval", "blocked", "target"}
    BY DecideDecides DEF CInv, CaseTypeOK, Decide, Decided
  <2>2. CASE decision.action = "REPLACEMENT" /\ lack /\ others # {}
    <3>1. /\ step' = IF consent THEN "again" ELSE Waits("waitConsent")
          /\ decision' = [d EXCEPT !.action = "REPLACEMENT", !.approval = FALSE, !.target = Earliest(others)]
      BY <1>3, <2>2
    <3>2. ~Earliest(others).approval /\ Earliest(others).feasible = "REQUIRES_CUSTOMER_CONSENT"
      BY <2>2, OtherProduct DEF CInv, CaseTypeOK
    <3>3. intent.wants \in {"REFUND", "REPLACEMENT", "CANCELLATION"} => "REPLACEMENT" \in {intent.wants, "ESCALATION"}
      BY <1>1, <2>2 DEF CInv, DecidedOnFacts, Decides
    <3> HIDE DEF d, others
    <3>4. decision'.action = "REPLACEMENT" /\ decision'.approval = FALSE /\ decision'.target = Earliest(others)
      BY <2>1, <3>1
    <3>5. step' = "again" => consent
      BY <3>1 DEF Waits
    <3> QED
      BY <3>1, <3>2, <3>3, <3>4, <3>5 DEF Decides, Waits
  <2>3. CASE ~(decision.action = "REPLACEMENT" /\ lack /\ others # {})
    <3>1. /\ step' = CASE d.approval -> Waits("waitApproval")
                        [] d.action = "ESCALATION" -> "escalated"
                        [] OTHER -> "again"
          /\ decision' = d /\ found' = f
      BY <1>3, <2>3
    <3> HIDE DEF d, others
    <3> QED
      BY <2>1, <3>1 DEF Waits
  <2> QED
    BY <2>2, <2>3
<1> QED
  BY <1>1, <1>2, <1>4
     DEF CInv, CaseTypeOK, AnsweredOnResume, DecidedOnFacts, Cleared, DoneAsDecided, GatesAgree

LEMMA AnswerCInv == CInv /\ Answer => CInv'
  BY DEF CInv, CaseTypeOK, AnsweredOnResume, DecidedOnFacts, Cleared, DoneAsDecided, GatesAgree, Answer

LEMMA CaseStepCInv == CInv /\ [CaseNext]_caseVars => CInv'
<1> SUFFICES ASSUME CInv, [CaseNext]_caseVars PROVE CInv'
  OBVIOUS
<1>1. CASE Investigate
  BY <1>1, InvestigateCInv
<1>2. CASE Gate
  BY <1>2, GateCInv
<1>3. CASE Execute
  BY <1>3, ExecuteCInv
<1>4. CASE Recover
  BY <1>4, RecoverCInv
<1>5. CASE Answer
  BY <1>5, AnswerCInv
<1>6. CASE UNCHANGED caseVars
  BY <1>6 DEF CInv, CaseTypeOK, AnsweredOnResume, DecidedOnFacts, Cleared, DoneAsDecided, GatesAgree, caseVars
<1> QED
  BY <1>1, <1>2, <1>3, <1>4, <1>5, <1>6 DEF CaseNext

LEMMA CInvHolds == CaseSpec => []CInv
  BY CaseInitCInv, CaseStepCInv, PTL DEF CaseSpec

\* The executor never asks for an approval or a consent that the gates of run()
\* and of the recovery did not wait for, whatever the message, the policies and
\* the tools that failed.
THEOREM GatesAlwaysAgree == CaseSpec => []GatesAgree
<1>1. CInv => GatesAgree
  BY DEF CInv
<1> QED
  BY CInvHolds, <1>1, PTL

\* A refund to a flagged customer is never carried out before someone answered.
THEOREM RiskyRefundsWait == CaseSpec => []RiskyRefundAnswered
<1>1. CInv => RiskyRefundAnswered
  BY DEF CInv, DecidedOnFacts, Decides, DoneAsDecided, RiskyRefundAnswered
<1> QED
  BY CInvHolds, <1>1, PTL

\* Who asks for a refund, a replacement or a cancellation gets that, a human or
\* nothing.
THEOREM WishesRespected == CaseSpec => []WishRespected
<1>1. CInv => WishRespected
  BY DEF CInv, DecidedOnFacts, Decides, DoneAsDecided, WishRespected
<1> QED
  BY CInvHolds, <1>1, PTL
==============================================================================
