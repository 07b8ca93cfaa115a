------------------------------- MODULE AgentRun -------------------------------
(***************************************************************************)
(* The life of AgentRuns: AgentOrchestrator.run and resumeRun, the recovery *)
(* agent's replan, and reconcileAgentRun, over the rows of                  *)
(* agentStateRepository.ts, and the routes that call one agent by itself.   *)
(*                                                                          *)
(* The agents and tools are their results; what a case deserves is decided  *)
(* in module Decisions, how an action is carried out in ActionExecution.    *)
(*                                                                          *)
(* Calls of one run overlap: the synchronous route takes no lease, a second *)
(* answer goes on without one (executionCoordinator.ts:196-209), and two    *)
(* requests make two jobs.                                                  *)
(***************************************************************************)
EXTENDS Naturals
CONSTANTS
  Run,        \* agent runs, all of one ticket and its order
  Call,       \* calls of the orchestrator, of reconcile or of one agent in flight
  MaxReplans, \* MAX_REPLAN_COUNT
  None

Step ==
  {"GOAL_RECEIVED", "INTENT_CLASSIFICATION", "INVESTIGATION", "POLICY_EVALUATION",
   "DECISION_FORMULATION", "TOOL_EXECUTION", "ACTION_VERIFICATION", "REPLANNING",
   "WAITING_FOR_APPROVAL", "WAITING_FOR_CUSTOMER_CONSENT", "CASE_RESOLVED",
   "HUMAN_ESCALATION", "FAILED"}
Status ==
  {"PLANNING", "IN_PROGRESS", "ACTION_PENDING", "REPLANNING", "COMPLETED", "ESCALATED", "FAILED"}
\* A count of replans matters up to the limit; it is kept up to there.
Row == [step : Step, status : Status, replans : 0..MaxReplans]

ASSUME RunAssumption ==
  /\ MaxReplans \in Nat
  /\ None \notin Row /\ None \notin Run

VARIABLES
  run,      \* run[r]: the AgentRun row, or None
  audit,    \* audit[r]: what actions of r, or of no run, were found to be: VERIFIED, FAILED
  refunded, \* whether the order has a completed refund
  ticket,   \* the status of the ticket
  call,     \* call[c]: a call in flight and its locals, or None
  rejected  \* rejected[r]: a human's refusal is recorded in the row, and no call
            \* that was in flight then has made the row wait again (history)

vars == <<run, audit, refunded, ticket, call, rejected>>

Init ==
  /\ run = [r \in Run |-> None]
  /\ audit = [r \in Run \cup {None} |-> {}]
  /\ refunded = FALSE
  /\ ticket = "OPEN"
  /\ call = [c \in Call |-> None]
  /\ rejected = [r \in Run |-> FALSE]

-----------------------------------------------------------------------------
(* The row of a call's run. *)

At(c, pc) == call[c] # None /\ call[c].pc = pc
Goto(c, pc) == call' = [call EXCEPT ![c].pc = pc]
Return(c) == call' = [call EXCEPT ![c] = None]

Store(c, step, status) ==
  run' = [run EXCEPT ![call[c].r].step = step, ![call[c].r].status = status]

\* updateAgentRunState(...).catch(() => null): a run that was never created is
\* not written to, and a write that fails is forgotten.
Write(c, step, status) ==
  \/ call[c].r # None /\ Store(c, step, status)
  \/ UNCHANGED run

Alone(c) == call[c].kind = "alone"
Orchestrating(c) == call[c] # None /\ call[c].kind \notin {"reconcile", "alone"}

\* late: a refusal was written since the call began (history).
NewCall(kind, r, pc) ==
  [kind |-> kind, r |-> r, pc |-> pc, alt |-> FALSE, ok |-> FALSE, count |-> 0,
   late |-> FALSE]

-----------------------------------------------------------------------------
(* AgentOrchestrator.run. *)

\* createAgentRun.
NewRow == [step |-> "GOAL_RECEIVED", status |-> "PLANNING", replans |-> 0]

\* With a new row, with none because it could not be created, or with one that
\* exists. The token, the consent and the loop limit the client may bring are
\* choices where they are looked at.
Begin(c) ==
  \E r \in Run \cup {None} :
    /\ call[c] = None
    /\ call' = [call EXCEPT ![c] = NewCall("run", r, "intent")]
    /\ run' = [q \in Run |-> IF q = r /\ run[q] = None THEN NewRow ELSE run[q]]
    /\ rejected' = [q \in Run |-> rejected[q] /\ q # r]
    /\ UNCHANGED <<audit, refunded, ticket>>

Phase == [intent |-> "INTENT_CLASSIFICATION", investigate |-> "INVESTIGATION",
          evaluate |-> "POLICY_EVALUATION", formulate |-> "DECISION_FORMULATION"]
After == [intent |-> "investigate", investigate |-> "evaluate",
          evaluate |-> "formulate", formulate |-> "decide"]

EnterPhase(c) ==
  \E p \in DOMAIN Phase :
    /\ At(c, p)
    /\ Write(c, Phase[p], "IN_PROGRESS")
    /\ Goto(c, After[p])
    /\ UNCHANGED <<audit, refunded, ticket, rejected>>

\* The message is not understood.
IntentUnknown(c) ==
  /\ At(c, "investigate")
  /\ Write(c, "FAILED", "FAILED")
  /\ Return(c)
  /\ UNCHANGED <<audit, refunded, ticket, rejected>>

\* What run() does with a decision: one that needs an approval waits for it,
\* escalates if the client's token is REJECTED, or goes on with a token; one
\* that escalates does; one that needs a consent waits for it or has it.
Gates(c) ==
  IF Alone(c) THEN {"act", "leave"}
  ELSE IF call[c].kind = "grant" THEN {"start"}
  ELSE {"pauseForApproval", "pauseForConsent", "escalateRun", "escalateTicket", "start"}

\* DecisionEngine.decide writes the row itself; resumeRun passes no gate.
Decide(c) ==
  /\ At(c, "decide")
  /\ IF call[c].r = None THEN UNCHANGED run ELSE Store(c, "DECISION_FORMULATION", "IN_PROGRESS")
  /\ \E pc \in Gates(c) : Goto(c, pc)
  /\ UNCHANGED <<audit, refunded, ticket, rejected>>

Pauses == [pauseForApproval |-> "WAITING_FOR_APPROVAL", pauseForConsent |-> "WAITING_FOR_CUSTOMER_CONSENT"]

Pause(c) ==
  \E p \in DOMAIN Pauses :
    /\ At(c, p)
    /\ Write(c, Pauses[p], "ACTION_PENDING")
    /\ Return(c)
    /\ rejected' = [r \in Run |-> rejected[r] /\ ~(call[c].r = r /\ call[c].late /\ run'[r] # run[r])]
    /\ UNCHANGED <<audit, refunded, ticket>>

\* escalateTicket, whose failure is ignored; resumeRun then asks the guard for a
\* transition from TOOL_EXECUTION to HUMAN_ESCALATION, which the table lacks.
EscalateTicket(c) ==
  /\ At(c, "escalateTicket")
  /\ ticket' \in {ticket, "ESCALATED"}
  /\ Goto(c, IF call[c].kind = "grant" THEN "leave" ELSE "escalateRun")
  /\ UNCHANGED <<run, audit, refunded, rejected>>

\* c writes a refusal to the row of r.
Refuses(c, r) == call[c].kind = "reject" /\ call[c].r = r /\ run'[r].status = "ESCALATED"

\* A run, a refusal, or reconcile.
EscalateRun(c) ==
  /\ At(c, "escalateRun")
  /\ Write(c, "HUMAN_ESCALATION", "ESCALATED")
  /\ rejected' = [r \in Run |-> rejected[r] \/ Refuses(c, r)]
  /\ call' = [d \in Call |->
       IF d = c \/ call[d] = None THEN None
       ELSE [call[d] EXCEPT !.late = @ \/ (Orchestrating(d) /\ call[d].r \in Run /\ Refuses(c, call[d].r))]]
  /\ UNCHANGED <<audit, refunded, ticket>>

\* resumeRun throws what the guard throws; a route of one agent answers.
Leave(c) ==
  /\ At(c, "leave")
  /\ Return(c)
  /\ UNCHANGED <<run, audit, refunded, ticket, rejected>>

-----------------------------------------------------------------------------
(* The action and its verification. *)

StartAction(c) ==
  /\ At(c, "start")
  /\ Write(c, "TOOL_EXECUTION", "IN_PROGRESS")
  /\ Goto(c, "act")
  /\ UNCHANGED <<audit, refunded, ticket, rejected>>

\* Where a call goes whose action is not known to have succeeded.
Unresolved(c) ==
  IF Alone(c) THEN {"count", "leave"}
  ELSE IF call[c].alt THEN {"escalateTicket"}
  ELSE {IF call[c].kind = "run" THEN "replanning" ELSE "count"}

\* The tool succeeds, or fails; it may have changed the order all the same.
Act(c) ==
  /\ At(c, "act")
  /\ refunded' \in {refunded, TRUE}
  /\ \E pc \in {"verify"} \cup Unresolved(c) : Goto(c, pc)
  /\ UNCHANGED <<run, audit, ticket, rejected>>

\* The executor asks for an approval or a consent that run() did not: run()
\* returns, and the row stays where StartAction left it.
Withheld(c) ==
  /\ At(c, "act")
  /\ call[c].kind = "run" /\ ~call[c].alt
  /\ Return(c)
  /\ UNCHANGED <<run, audit, refunded, ticket, rejected>>

\* What an action of r is found to be. A failure of no run's action is asked for
\* by no one.
Finding(r, ok) ==
  IF ok THEN {"VERIFIED"} ELSE IF r = None THEN {} ELSE {"FAILED"}

Verify(c) ==
  \E ok \in BOOLEAN :
    /\ At(c, "verify")
    /\ audit' = [audit EXCEPT ![call[c].r] = @ \cup Finding(call[c].r, ok)]
    /\ call' = [call EXCEPT ![c].pc = "record", ![c].ok = ok]
    /\ UNCHANGED <<run, refunded, ticket, rejected>>

\* An action that was verified ends a run.
Judged(c) ==
  IF ~call[c].ok THEN Unresolved(c) ELSE {IF Alone(c) THEN "leave" ELSE "closeTicket"}

\* Mutant: the verdict is not looked at.
RecordAnyVerdict(c) ==
  /\ At(c, "record")
  /\ Write(c, "ACTION_VERIFICATION", IF call[c].ok THEN "COMPLETED" ELSE "FAILED")
  /\ call' = [call EXCEPT ![c].pc = "closeTicket", ![c].ok = FALSE]
  /\ UNCHANGED <<audit, refunded, ticket, rejected>>

RecordVerdict(c) ==
  /\ At(c, "record")
  /\ Write(c, "ACTION_VERIFICATION", IF call[c].ok THEN "COMPLETED" ELSE "FAILED")
  /\ \E pc \in Judged(c) : call' = [call EXCEPT ![c].pc = pc, ![c].ok = FALSE]
  /\ UNCHANGED <<audit, refunded, ticket, rejected>>

CloseTicket(c) ==
  /\ At(c, "closeTicket")
  /\ ticket' \in {ticket, "RESOLVED"}
  /\ Goto(c, "complete")
  /\ UNCHANGED <<run, audit, refunded, rejected>>

\* completeAgentRun, of run, resumeRun and reconcile.
Complete(c) ==
  /\ At(c, "complete")
  /\ Write(c, "CASE_RESOLVED", "COMPLETED")
  /\ Return(c)
  /\ UNCHANGED <<audit, refunded, ticket, rejected>>

-----------------------------------------------------------------------------
(* FailureRecoveryAgent.replan. *)

StartReplanning(c) ==
  /\ At(c, "replanning")
  /\ Write(c, "REPLANNING", "REPLANNING")
  /\ Goto(c, "count")
  /\ UNCHANGED <<audit, refunded, ticket, rejected>>

\* replanAgentRun reads the count ...
ReadCount(c) ==
  /\ At(c, "count")
  /\ call' = [call EXCEPT ![c].pc = "recount",
       ![c].count = IF call[c].r = None THEN 0 ELSE run[call[c].r].replans]
  /\ UNCHANGED <<run, audit, refunded, ticket, rejected>>

\* ... and writes it; if that fails, the caller's own count is far from the limit.
WriteCount(c) ==
  /\ At(c, "recount")
  /\ \/ /\ call[c].r # None
        /\ run' = [run EXCEPT ![call[c].r] =
             [step |-> "REPLANNING", status |-> "REPLANNING",
              replans |-> IF call[c].count = MaxReplans THEN MaxReplans ELSE call[c].count + 1]]
        /\ call' = [call EXCEPT ![c].count = 0,
             ![c].pc = IF call[c].count = MaxReplans THEN "giveUp" ELSE "redecide"]
     \/ /\ call' = [call EXCEPT ![c].count = 0, ![c].pc = "redecide"]
        /\ UNCHANGED run
  /\ UNCHANGED <<audit, refunded, ticket, rejected>>

\* The recovery agent escalates the run before its caller does.
GiveUp(c) ==
  /\ At(c, "giveUp")
  /\ Write(c, "HUMAN_ESCALATION", "ESCALATED")
  /\ Goto(c, IF Alone(c) THEN "leave" ELSE "escalateTicket")
  /\ UNCHANGED <<audit, refunded, ticket, rejected>>

\* What run() and resumeRun do with what the recovery agent says: an action, if
\* the loops run() allows are not used up; an approval or a consent, for which
\* resumeRun waits no second time; or an escalation.
Recoveries(c) ==
  IF Alone(c) THEN {"giveUp", "leave"}
  ELSE {"act", "giveUp", "escalateTicket"} \cup (IF call[c].kind = "run" THEN DOMAIN Pauses ELSE {})

\* A new decision, which the row shows.
Redecide(c) ==
  /\ At(c, "redecide")
  /\ IF call[c].r = None THEN UNCHANGED run ELSE Store(c, "DECISION_FORMULATION", "IN_PROGRESS")
  /\ \E pc \in Recoveries(c) : call' = [call EXCEPT ![c].pc = pc, ![c].alt = (pc = "act")]
  /\ UNCHANGED <<audit, refunded, ticket, rejected>>

-----------------------------------------------------------------------------
(* The routes that answer for a human, resumeRun, and reconcile. *)

\* The call has checked the row and its step against the guard's table.
Answer(c, kind, r) ==
  /\ call' = [call EXCEPT ![c] =
       NewCall(kind, r, IF kind = "grant" THEN "decide" ELSE "escalateTicket")]
  /\ UNCHANGED <<run, audit, refunded, ticket, rejected>>

\* Mutant: the status of the run is not looked at, nor its step if it is final.
ResumeFinal(c, r, steps) ==
  /\ call[c] = None
  /\ run[r] # None
  /\ run[r].step \in steps \cup {"HUMAN_ESCALATION"}
  /\ \E kind \in {"grant", "reject"} : Answer(c, kind, r)

\* A final run is not resumed, nor one whose step does not wait for the answer.
Resume(c, r, steps) ==
  /\ call[c] = None
  /\ run[r] # None
  /\ run[r].status \notin {"COMPLETED", "ESCALATED"}
  /\ run[r].step \in steps
  /\ \E kind \in {"grant", "reject"} : Answer(c, kind, r)

\* POST .../approve brings a token, so the run must wait for an approval;
\* .../consent takes what the run waits for to be what it answers.
Approve(c) == \E r \in Run : Resume(c, r, {"WAITING_FOR_APPROVAL"})
Consent(c) == \E r \in Run : Resume(c, r, {"WAITING_FOR_APPROVAL", "WAITING_FOR_CUSTOMER_CONSENT"})

\* The route, or the coordinator when it takes over a run. No row's status is
\* WAITING_FOR_APPROVAL or _CONSENT: of the early returns only one is taken.
ReadRun(c) ==
  \E r \in Run :
    /\ call[c] = None
    /\ run[r] # None
    /\ run[r].status # "COMPLETED"
    /\ call' = [call EXCEPT ![c] =
         [NewCall("reconcile", r, "compare") EXCEPT !.ok = "VERIFIED" \in audit[r],
            !.alt = "FAILED" \in audit[r] \/ run[r].replans >= MaxReplans]]
    /\ UNCHANGED <<run, audit, refunded, ticket, rejected>>

\* The routes that have one agent decide, execute or replan for a run, from what
\* their bodies bring or from what the agents before it find: they ask for no
\* lease, and look at no row.
Serve(c) ==
  \E r \in Run, pc \in {"decide", "act", "count"} :
    /\ call[c] = None
    /\ run[r] # None
    /\ call' = [call EXCEPT ![c] = NewCall("alone", r, pc)]
    /\ UNCHANGED <<run, audit, refunded, ticket, rejected>>

\* The refunds of the order are read after the run.
Compare(c) ==
  /\ At(c, "compare")
  /\ IF refunded \/ call[c].ok THEN Goto(c, "complete")
     ELSE IF call[c].alt THEN Goto(c, "escalateRun") ELSE Return(c)
  /\ UNCHANGED <<run, audit, refunded, ticket, rejected>>

-----------------------------------------------------------------------------
(* A statement whose failure no one catches, or the end of the process. *)

Dies(c) ==
  /\ call[c] # None
  /\ Return(c)
  /\ UNCHANGED <<run, audit, refunded, ticket, rejected>>

-----------------------------------------------------------------------------
(* CaseManager: what the customer and the operators are shown. *)

RunShows == [PLANNING |-> "INVESTIGATING", REPLANNING |-> "PROCESSING",
             ESCALATED |-> "ESCALATED", FAILED |-> "FAILED"]

\* The status of the case whose latest run is r, or that has none; it looks for
\* statuses no run has, so most are shown as the ticket's.
CaseStatus(r) ==
  IF r # None /\ run[r] # None /\ run[r].status \in DOMAIN RunShows
  THEN RunShows[run[r].status] ELSE ticket

-----------------------------------------------------------------------------
Next ==
  \E c \in Call :
    \/ Begin(c) \/ EnterPhase(c) \/ IntentUnknown(c) \/ Decide(c) \/ Pause(c)
    \/ EscalateTicket(c) \/ EscalateRun(c) \/ Leave(c)
    \/ StartAction(c) \/ Act(c) \/ Withheld(c) \/ Verify(c) \/ RecordVerdict(c) \/ CloseTicket(c) \/ Complete(c)
    \/ StartReplanning(c) \/ ReadCount(c) \/ WriteCount(c) \/ GiveUp(c) \/ Redecide(c)
    \/ Approve(c) \/ Consent(c) \/ ReadRun(c) \/ Compare(c) \/ Serve(c) \/ Dies(c)

Spec == Init /\ [][Next]_vars

-----------------------------------------------------------------------------
(* Properties *)

PC == {"intent", "investigate", "evaluate", "formulate", "decide", "pauseForApproval", "pauseForConsent", "escalateTicket",
       "escalateRun", "leave", "start", "act", "verify", "record", "closeTicket", "complete",
       "replanning", "count", "recount", "giveUp", "redecide", "compare"}
CallRecord ==
  [kind : {"run", "grant", "reject", "reconcile", "alone"}, r : Run \cup {None}, pc : PC,
   alt : BOOLEAN, ok : BOOLEAN, count : 0..MaxReplans, late : BOOLEAN]

\* The rows and the calls have the types their tables and locals have; the
\* replan count is a count, whatever was read and written back.
RunTypeOK ==
  /\ run \in [Run -> Row \cup {None}]
  /\ audit \in [Run \cup {None} -> SUBSET {"VERIFIED", "FAILED"}]
  /\ refunded \in BOOLEAN
  /\ ticket \in {"OPEN", "ESCALATED", "RESOLVED"}
  /\ call \in [Call -> CallRecord \cup {None}]
  /\ rejected \in [Run -> BOOLEAN]

\* A run is completed only if an action of it was verified or the order refunded,
\* and a case is shown as RESOLVED, whichever run is its latest, only if an action
\* was verified (run, resumeRun, reconcileAgentRun and CaseManager.mapStatus,
\* whatever the failures and the overlap).
ResolvedIsVerified ==
  /\ \A r \in Run : run[r] # None /\ run[r].step = "CASE_RESOLVED" =>
       "VERIFIED" \in audit[r] \/ refunded
  /\ \A r \in Run \cup {None} : CaseStatus(r) = "RESOLVED" =>
       \E q \in Run \cup {None} : "VERIFIED" \in audit[q]

\* Once a human's refusal stands in the row, no other answer is taken and no
\* call of the orchestrator takes the run up (AgentOrchestrator.ts:808), until a
\* client starts it anew: only calls that were in flight when the refusal was
\* written still work on it, and only one of them can make it wait for another
\* answer, whatever reconcile and the routes of one agent write meanwhile.
RejectionHolds ==
  \A c \in Call :
    Orchestrating(c) /\ call[c].r \in Run /\ rejected[call[c].r] => call[c].late
=============================================================================
