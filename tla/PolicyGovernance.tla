--------------------------- MODULE PolicyGovernance ---------------------------
(***************************************************************************)
(* Change control of policies (db/repositories/policyRepository.ts) and    *)
(* the pinning of policies to agent runs (policy/PolicyEngine.ts).         *)
(*                                                                         *)
(* A policy is a header row and a history of version rows.  Every call of  *)
(* the API reads the version, checks its status, and then writes: reading  *)
(* and writing are two steps, between which other calls get through.  The  *)
(* transactions of activateVersion and retireVersion give no isolation     *)
(* level: on PostgreSQL (READ COMMITTED) each statement sees what has been *)
(* committed when it begins, a row that is written is locked until the     *)
(* transaction ends, and two transactions may each miss what the other is  *)
(* about to commit.                                                        *)
(***************************************************************************)
EXTENDS Naturals
CONSTANTS
  Policy,      \* identities of policy rows
  Legacy,      \* those that may date from before versions
  Seeded,      \* those that may have been seeded
  Key,         \* the policy keys administrators create policies under
  Definition,  \* what a policy can say
  Windows,     \* [from, until]: when a version is meant to be in effect
  Call,        \* API calls in flight at once
  Run,         \* agent runs, whose evaluations follow one another
  MaxVersion,  \* bound: versions per policy
  MaxTime,     \* bound: ticks of the clock
  None

Version == 1..MaxVersion
Status == {"DRAFT", "PENDING_APPROVAL", "APPROVED", "ACTIVE", "RETIRED"}
Header == [key : Key \cup {None}, active : BOOLEAN, def : Definition]
Row == [status : Status, def : Definition, window : Windows, approved : BOOLEAN]

\* No effectiveFrom and no effectiveUntil.
Always == [from |-> 0, until |-> MaxTime]

ASSUME PolicyAssumption ==
  /\ Legacy \subseteq Policy /\ Seeded \subseteq Policy
  /\ Definition # {}
  /\ Always \in Windows /\ Windows \subseteq [from : Nat, until : Nat]
  /\ MaxVersion \in Nat \ {0}
  /\ MaxTime \in Nat
  /\ None \notin Header /\ None \notin Row /\ None \notin Definition

VARIABLES
  header,   \* header[p]: the Policy row, or None
  version,  \* version[p][v]: the PolicyVersion row, or None
  now,      \* the clock
  call,     \* call[c]: what the call has read and is about to write, or None
  outrun,   \* calls past whose open transaction another has committed (history)
  muddled,  \* policies a call that was outrun has written, until an activation
            \* that was not (history)
  stage,    \* stage[r]: the query r's evaluation is about to make
  fetched,  \* fetched[r]: the policies it has fetched
  pinned,   \* pinned[r]: AgentRun.pinnedPolicies
  used      \* used[r]: the policies r's last evaluation applied, {} when there
            \* is none or when its pin could not be read or written (history)

tables == <<header, version>>
runs == <<stage, fetched, pinned, used>>
calls == <<call, outrun, muddled>>
vars == <<tables, now, calls, runs>>

Init ==
  /\ \E old \in SUBSET Legacy, seeded \in SUBSET Seeded, d \in [Policy -> Definition] :
       /\ header = [p \in Policy |->
            IF p \in old \cup seeded THEN [key |-> None, active |-> TRUE, def |-> d[p]] ELSE None]
       /\ version = [p \in Policy |-> [v \in Version |->
            IF p \in seeded /\ v = 1
              THEN [status |-> "ACTIVE", def |-> d[p], window |-> Always, approved |-> TRUE]
              ELSE None]]
  /\ now = 0
  /\ call = [c \in Call |-> None]
  /\ outrun = {}
  /\ muddled = {}
  /\ stage = [r \in Run |-> "idle"]
  /\ fetched = [r \in Run |-> {}]
  /\ pinned = [r \in Run |-> {}]
  /\ used = [r \in Run |-> {}]

-----------------------------------------------------------------------------
(* What the queries ask. *)

Exists(p, v) == version[p][v] # None
HasStatus(p, v, S) == Exists(p, v) /\ version[p][v].status \in S

InEffect(w) == w.from <= now /\ now <= w.until

IsLatest(p, n) ==
  /\ n \in {0} \cup {v \in Version : Exists(p, v)}
  /\ \A v \in Version : Exists(p, v) => v <= n

-----------------------------------------------------------------------------
(* Calls: what is read first. *)

Goes(c, what) ==
  /\ call' = [call EXCEPT ![c] = what]
  /\ UNCHANGED <<tables, now, outrun, muddled, runs>>
Reads(c, what) == call[c] = None /\ Goes(c, what)
Writes(c, op) == call[c] # None /\ call[c].op = op
Returns(c) == call' = [call EXCEPT ![c] = None]
SetStatus(p, v, s) == version' = [version EXCEPT ![p][v].status = s]

\* createPolicy: no policy has the key yet.
ReadKey(c) ==
  \E k \in Key, d \in Definition, auto \in BOOLEAN :
    /\ \A p \in Policy : header[p] # None => header[p].key # k
    /\ Reads(c, [op |-> "create", key |-> k, def |-> d, auto |-> auto])

\* createVersion: the number and, unless one is given, the definition follow
\* the latest version, or else the header.
ReadLatest(c) ==
  \E p \in Policy, n \in 0..(MaxVersion - 1), d \in Definition \cup {None}, w \in Windows :
    /\ header[p] # None
    /\ IsLatest(p, n)
    /\ LET base == IF n = 0 THEN header[p].def ELSE version[p][n].def IN
       Reads(c, [op |-> "draft", p |-> p, v |-> n + 1, window |-> w,
                 def |-> IF d = None THEN base ELSE d])

\* updateVersion
ReadDraft(c) ==
  \E p \in Policy, v \in Version, d \in Definition :
    /\ HasStatus(p, v, {"DRAFT"})
    /\ Reads(c, [op |-> "update", p |-> p, v |-> v, def |-> d])

\* submitVersion, approveVersion, retireVersion: op, and who may be subject to it.
Subjects ==
  {<<"submit", {"DRAFT"}>>, <<"approve", {"PENDING_APPROVAL"}>>,
   <<"retire", Status \ {"RETIRED"}>>}

ReadSubject(c) ==
  \E p \in Policy, v \in Version, s \in Subjects :
    /\ HasStatus(p, v, s[2])
    /\ Reads(c, [op |-> s[1], p |-> p, v |-> v])

\* The checks of activateVersion.
MayActivate(p, v) ==
  HasStatus(p, v, {"APPROVED", "ACTIVE"}) /\ InEffect(version[p][v].window)

ToActivate(p, v) == [op |-> "activate", p |-> p, v |-> v, def |-> version[p][v].def]

ReadActivation(c) ==
  \E p \in Policy, v \in Version :
    MayActivate(p, v) /\ Reads(c, ToActivate(p, v))

\* rollbackPolicy refuses what was not approved.
ReadRollback(c) ==
  \E p \in Policy, v \in Version :
    /\ HasStatus(p, v, {"APPROVED", "ACTIVE", "RETIRED"})
    /\ Reads(c, [op |-> IF version[p][v].status = "RETIRED" THEN "reapprove" ELSE "reactivate",
                 p |-> p, v |-> v])

-----------------------------------------------------------------------------
(* Calls: what is written then, whatever has happened since. *)

\* The transaction of c on the versions of p is open.
Open(c, p) ==
  call[c] # None /\ call[c].op \in {"supersede", "withdraw"} /\ call[c].p = p

\* It holds the lock of a row it has written.
Holds(c, p, v) ==
  /\ Open(c, p)
  /\ v \in IF call[c].op = "supersede" THEN call[c].retired ELSE {call[c].v}

\* A write of c to the row need not wait.
Free(c, p, v) == \A d \in Call \ {c} : ~Holds(d, p, v)

\* A transaction of c on p commits past those that are open.
Commits(c, p) ==
  /\ Returns(c)
  /\ outrun' = (outrun \cup {d \in Call : Open(d, p)}) \ {c}

\* A header and its version 1; nothing in the schema makes the key unique.
CreatePolicy(c) ==
  /\ Writes(c, "create")
  /\ LET a == call[c] IN
     \E p \in Policy :
       /\ header[p] = None
       /\ header' = [header EXCEPT ![p] = [key |-> a.key, active |-> a.auto, def |-> a.def]]
       /\ version' = [version EXCEPT ![p][1] =
            [status |-> IF a.auto THEN "ACTIVE" ELSE "DRAFT", def |-> a.def,
             window |-> Always, approved |-> FALSE]]
  /\ Returns(c)
  /\ UNCHANGED <<now, outrun, muddled, runs>>

\* Mutant: the second of two replaces the first.
UpsertVersion(c) ==
  /\ Writes(c, "draft")
  /\ LET a == call[c] IN
     version' = [version EXCEPT ![a.p][a.v] =
       [status |-> "DRAFT", def |-> a.def, window |-> a.window, approved |-> FALSE]]
  /\ Returns(c)
  /\ UNCHANGED <<header, now, outrun, muddled, runs>>

\* The pair of policy and version is unique: the second of two fails.
CreateVersion(c) ==
  /\ Writes(c, "draft")
  /\ LET a == call[c] IN
     version' = [version EXCEPT ![a.p][a.v] =
       IF @ = None
         THEN [status |-> "DRAFT", def |-> a.def, window |-> a.window, approved |-> FALSE]
         ELSE @]
  /\ Returns(c)
  /\ UNCHANGED <<header, now, outrun, muddled, runs>>

UpdateVersion(c) ==
  /\ Writes(c, "update") /\ Free(c, call[c].p, call[c].v)
  /\ version' = [version EXCEPT ![call[c].p][call[c].v].def = call[c].def]
  /\ Returns(c)
  /\ UNCHANGED <<header, now, outrun, muddled, runs>>

SubmitVersion(c) ==
  /\ Writes(c, "submit") /\ Free(c, call[c].p, call[c].v)
  /\ SetStatus(call[c].p, call[c].v, "PENDING_APPROVAL")
  /\ Returns(c)
  /\ UNCHANGED <<header, now, outrun, muddled, runs>>

ApproveVersion(c) ==
  /\ Writes(c, "approve") /\ Free(c, call[c].p, call[c].v)
  /\ version' = [version EXCEPT ![call[c].p][call[c].v].status = "APPROVED",
                                ![call[c].p][call[c].v].approved = TRUE]
  /\ Returns(c)
  /\ UNCHANGED <<header, now, outrun, muddled, runs>>

\* activateVersion's transaction finds the versions that are active ...
FindActive(c) ==
  /\ Writes(c, "activate")
  /\ LET a == call[c] IN
     Goes(c, [op |-> "supersede", p |-> a.p, v |-> a.v, def |-> a.def,
              found |-> {w \in Version \ {a.v} : HasStatus(a.p, w, {"ACTIVE"})},
              retired |-> {}])

\* ... retires each that still is when it has the row's lock ...
RetireOther(c) ==
  /\ Writes(c, "supersede")
  /\ LET a == call[c] IN
     \E w \in a.found :
       /\ Free(c, a.p, w)
       /\ Goes(c, [a EXCEPT !.found = @ \ {w},
                            !.retired = IF HasStatus(a.p, w, {"ACTIVE"}) THEN @ \cup {w} ELSE @])

\* Mutant: the versions that were active stay active.
ActivateBesides(c) ==
  /\ Writes(c, "supersede") /\ call[c].found = {} /\ Free(c, call[c].p, call[c].v)
  /\ LET a == call[c] IN
     /\ SetStatus(a.p, a.v, "ACTIVE")
     /\ header' = [header EXCEPT ![a.p].active = TRUE, ![a.p].def = a.def]
     /\ muddled' = IF c \in outrun THEN muddled \cup {a.p} ELSE muddled \ {a.p}
     /\ Commits(c, a.p)
  /\ UNCHANGED <<now, runs>>

\* ... activates this one, copies what was read of it to the header, and
\* commits.
ActivateVersion(c) ==
  /\ Writes(c, "supersede") /\ call[c].found = {} /\ Free(c, call[c].p, call[c].v)
  /\ LET a == call[c] IN
     /\ version' = [version EXCEPT ![a.p] = [v \in Version |->
          IF v = a.v THEN [@[v] EXCEPT !.status = "ACTIVE"]
          ELSE IF v \in a.retired THEN [@[v] EXCEPT !.status = "RETIRED"]
          ELSE @[v]]]
     /\ header' = [header EXCEPT ![a.p].active = TRUE, ![a.p].def = a.def]
     /\ muddled' = IF c \in outrun THEN muddled \cup {a.p} ELSE muddled \ {a.p}
     /\ Commits(c, a.p)
  /\ UNCHANGED <<now, runs>>

\* retireVersion's transaction takes the row's lock and looks for another
\* version that is active ...
LookForActive(c) ==
  /\ Writes(c, "retire") /\ Free(c, call[c].p, call[c].v)
  /\ LET a == call[c] IN
     Goes(c, [op |-> "withdraw", p |-> a.p, v |-> a.v,
              last |-> ~\E w \in Version \ {a.v} : HasStatus(a.p, w, {"ACTIVE"})])

\* Mutant: the header is retired with the version.
RetireHeaderToo(c) ==
  /\ Writes(c, "withdraw")
  /\ LET a == call[c] IN
     /\ SetStatus(a.p, a.v, "RETIRED")
     /\ header' = [header EXCEPT ![a.p].active = FALSE]
     /\ muddled' = IF c \in outrun THEN muddled \cup {a.p} ELSE muddled
     /\ Commits(c, a.p)
  /\ UNCHANGED <<now, runs>>

\* ... and retires the header with the version when there was none.
RetireVersion(c) ==
  /\ Writes(c, "withdraw")
  /\ LET a == call[c] IN
     /\ SetStatus(a.p, a.v, "RETIRED")
     /\ header' = [header EXCEPT ![a.p].active = @ /\ ~a.last]
     /\ muddled' = IF c \in outrun THEN muddled \cup {a.p} ELSE muddled
     /\ Commits(c, a.p)
  /\ UNCHANGED <<now, runs>>

\* rollbackPolicy makes a retired version an approved one, in a statement of its own.
Reapprove(c) ==
  /\ Writes(c, "reapprove") /\ Free(c, call[c].p, call[c].v)
  /\ SetStatus(call[c].p, call[c].v, "APPROVED")
  /\ call' = [call EXCEPT ![c].op = "reactivate"]
  /\ UNCHANGED <<header, now, outrun, muddled, runs>>

\* Then activateVersion begins, and may refuse.
Reactivate(c) ==
  /\ Writes(c, "reactivate")
  /\ LET a == call[c] IN
     Goes(c, IF MayActivate(a.p, a.v) THEN ToActivate(a.p, a.v) ELSE None)

\* A statement fails, or the process dies: an open transaction is rolled back.
Fail(c) ==
  /\ call[c] # None
  /\ Returns(c)
  /\ outrun' = outrun \ {c}
  /\ UNCHANGED <<tables, now, muddled, runs>>

-----------------------------------------------------------------------------
(* PolicyEngine.evaluate of a run. *)

\* getActivePolicies: the versions in effect ...
VersionsInEffect ==
  {s \in Policy \X Version \X Definition :
     /\ HasStatus(s[1], s[2], {"ACTIVE"})
     /\ header[s[1]].active
     /\ InEffect(version[s[1]][s[2]].window)
     /\ s[3] = version[s[1]][s[2]].def}

\* ... and, when there is none, whatever headers are active.
ActiveHeaders ==
  {s \in Policy \X {0} \X Definition :
     header[s[1]] # None /\ header[s[1]].active /\ s[3] = header[s[1]].def}

\* Mutant: what was pinned is not looked at.
FetchAlways(r) ==
  /\ stage[r] = "idle"
  /\ stage' = [stage EXCEPT ![r] = "versions"]
  /\ UNCHANGED <<tables, now, calls, fetched, pinned, used>>

\* The run's pin is used if there is one.
ReadPin(r) ==
  /\ stage[r] = "idle"
  /\ \/ pinned[r] # {} /\ used' = [used EXCEPT ![r] = pinned[r]] /\ UNCHANGED stage
     \/ pinned[r] = {} /\ stage' = [stage EXCEPT ![r] = "versions"] /\ UNCHANGED used
     \/ \* The read fails: the run is taken for one that has no pin.
        /\ stage' = [stage EXCEPT ![r] = "versions"]
        /\ used' = [used EXCEPT ![r] = {}]
  /\ UNCHANGED <<tables, now, calls, fetched, pinned>>

FetchVersions(r) ==
  /\ stage[r] = "versions"
  /\ fetched' = [fetched EXCEPT ![r] = VersionsInEffect]
  /\ stage' = [stage EXCEPT ![r] = IF VersionsInEffect = {} THEN "headers" ELSE "pin"]
  /\ UNCHANGED <<tables, now, calls, pinned, used>>

FetchHeaders(r) ==
  /\ stage[r] = "headers"
  /\ fetched' = [fetched EXCEPT ![r] = ActiveHeaders]
  /\ stage' = [stage EXCEPT ![r] = "pin"]
  /\ UNCHANGED <<tables, now, calls, pinned, used>>

\* The pin is written, or is not and the error swallowed; the evaluation goes on.
Pin(r) ==
  /\ stage[r] = "pin"
  /\ \/ /\ pinned' = [pinned EXCEPT ![r] = fetched[r]]
        /\ used' = [used EXCEPT ![r] = fetched[r]]
     \/ UNCHANGED pinned /\ used' = [used EXCEPT ![r] = {}]
  /\ fetched' = [fetched EXCEPT ![r] = {}]
  /\ stage' = [stage EXCEPT ![r] = "idle"]
  /\ UNCHANGED <<tables, now, calls>>

\* A fetch fails: evaluate rejects.
EvaluationFails(r) ==
  /\ stage[r] \in {"versions", "headers"}
  /\ fetched' = [fetched EXCEPT ![r] = {}]
  /\ stage' = [stage EXCEPT ![r] = "idle"]
  /\ UNCHANGED <<tables, now, calls, pinned, used>>

-----------------------------------------------------------------------------
Tick == now < MaxTime /\ now' = now + 1 /\ UNCHANGED <<tables, calls, runs>>

Request(c) ==
  \/ ReadKey(c) \/ ReadLatest(c) \/ ReadDraft(c) \/ ReadSubject(c)
  \/ ReadActivation(c) \/ ReadRollback(c)

Commit(c) ==
  \/ CreatePolicy(c) \/ CreateVersion(c) \/ UpdateVersion(c) \/ SubmitVersion(c)
  \/ ApproveVersion(c) \/ FindActive(c) \/ RetireOther(c) \/ ActivateVersion(c)
  \/ LookForActive(c) \/ RetireVersion(c)
  \/ Reapprove(c) \/ Reactivate(c) \/ Fail(c)

Evaluate(r) ==
  ReadPin(r) \/ FetchVersions(r) \/ FetchHeaders(r) \/ Pin(r) \/ EvaluationFails(r)

Next ==
  \/ \E c \in Call : Request(c) \/ Commit(c)
  \/ \E r \in Run : Evaluate(r)
  \/ Tick

Spec == Init /\ [][Next]_vars

-----------------------------------------------------------------------------
(* Properties. *)

Selection == SUBSET (Policy \X (0..MaxVersion) \X Definition)

\* What a call may be about to write.
Pending ==
  [op : {"create"}, key : Key, def : Definition, auto : BOOLEAN]
  \cup [op : {"draft"}, p : Policy, v : Version, window : Windows, def : Definition]
  \cup [op : {"update", "activate"}, p : Policy, v : Version, def : Definition]
  \cup [op : {"supersede"}, p : Policy, v : Version, def : Definition,
        found : SUBSET Version, retired : SUBSET Version]
  \cup [op : {"withdraw"}, p : Policy, v : Version, last : BOOLEAN]
  \cup [op : {"submit", "approve", "retire", "reapprove", "reactivate"}, p : Policy, v : Version]

\* Type invariant. A call that writes to a version has read it, and versions
\* are never removed.
PolicyTypeOK ==
  /\ header \in [Policy -> Header \cup {None}]
  /\ version \in [Policy -> [Version -> Row \cup {None}]]
  /\ now \in 0..MaxTime
  /\ call \in [Call -> Pending \cup {None}]
  /\ outrun \subseteq Call
  /\ muddled \subseteq Policy
  /\ stage \in [Run -> {"idle", "versions", "headers", "pin"}]
  /\ fetched \in [Run -> Selection]
  /\ pinned \in [Run -> Selection]
  /\ used \in [Run -> Selection]

\* At most one version of a policy is ACTIVE, through late approvals,
\* retirements, rollbacks and failures (activateVersion's transaction): only a
\* transaction past which another one committed can leave two, and the next
\* activation that is not outrun puts it right.
OneActiveVersion ==
  \A p \in Policy \ muddled, v, w \in Version :
    HasStatus(p, v, {"ACTIVE"}) /\ HasStatus(p, w, {"ACTIVE"}) => v = w

\* A policy with an ACTIVE version has an active header, without which
\* getActivePolicies would not find the version: what retireVersion saw of the
\* other versions still holds when it commits, unless another transaction on
\* the policy committed in between; the next activation that is not outrun
\* puts that right too.
ActiveHasHeader ==
  \A p \in Policy \ muddled, v \in Version :
    HasStatus(p, v, {"ACTIVE"}) => header[p] # None /\ header[p].active

\* Versions created at the same time get the same number, and the second is
\* refused: what has been submitted never becomes a draft again, and no approval
\* is forgotten (createVersion, and the unique pair of policy and version).
VersionNotRecreated ==
  [][\A p \in Policy, v \in Version :
       Exists(p, v) /\ version[p][v].status # "DRAFT" =>
         /\ version'[p][v].status # "DRAFT"
         /\ version[p][v].approved => version'[p][v].approved]_version

\* A run that has applied policies applies the same ones when it is resumed or
\* replanned, whatever is activated, retired or edited meanwhile, unless its
\* pin could not be read or written.
RunKeepsPolicies ==
  [][\A r \in Run : used[r] # {} => used'[r] \in {used[r], {}}]_vars
=============================================================================
