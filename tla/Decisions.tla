------------------------------ MODULE Decisions -------------------------------
(***************************************************************************)
(* What a case gets: the intent read from its message, the facts found, the *)
(* policies that apply, the decision, and the gates before the action       *)
(* (IntentAgent, InvestigationAgent, PolicyEngine, DecisionEngine,          *)
(* ActionExecutor, FailureRecoveryAgent).                                   *)
(*                                                                          *)
(* Amounts are numbers that matter only by comparison; a message is the set *)
(* of the groups of words the classifier looks for.                         *)
(***************************************************************************)
EXTENDS Naturals, FiniteSetsExt
CONSTANTS
  Message,    \* messages: sets of word groups
  AI,         \* what the AI may take a message for; empty if it is not used
  Asked,      \* amounts a message may name; 0 for none
  Total,      \* totals of orders
  Policies,   \* sets of policies that may be in effect
  Limit,      \* the automatic refund limit in the code
  Absent

\* The repository keeps no priority below 1; the products have names.
ASSUME DecisionAssumption ==
  /\ \A some \in Policies : \A p \in some : p.priority \in Nat
  /\ Absent \notin {"ordered", "other"}

VARIABLES
  case,     \* the case: message, order, customer; it does not change
  token,    \* an approval token was brought, or stands for an answer
  consent,  \* the same of the customer's consent
  step,     \* where the case is
  resumed,  \* in resumeRun, which passes no gate
  intent,   \* what the message was taken for last
  found,    \* what the investigation found
  decision, \* the decision to be carried out
  done      \* the action carried out, or Absent

caseVars == <<case, token, consent, step, resumed, intent, found, decision, done>>

-----------------------------------------------------------------------------
(* IntentAgent *)

Rule == <<
  [word |-> "cancel",    issue |-> "CANCELLATION_REQUEST", wants |-> "CANCELLATION"],
  [word |-> "coupon",    issue |-> "COUPON_REQUEST",       wants |-> "COUPON"],
  [word |-> "damage",    issue |-> "DAMAGED_ITEM",         wants |-> Absent],
  [word |-> "defective", issue |-> "DEFECTIVE_ITEM",       wants |-> Absent],
  [word |-> "missing",   issue |-> "MISSING_ITEM",         wants |-> Absent],
  [word |-> "wrong",     issue |-> "WRONG_ITEM",           wants |-> Absent],
  [word |-> "late",      issue |-> "LATE_DELIVERY",        wants |-> Absent],
  [word |-> "refund",    issue |-> "REFUND_REQUEST",       wants |-> "REFUND"],
  [word |-> "replace",   issue |-> "REPLACEMENT_REQUEST",  wants |-> "REPLACEMENT"],
  [word |-> "help",      issue |-> "GENERAL_SUPPORT",      wants |-> Absent]>>

\* The first group of words that is in the message names the issue; what the
\* customer wants, if that does not say, is named by others.
ByWords(words) ==
  LET hits == {i \in DOMAIN Rule : Rule[i].word \in words}
      issue == IF hits = {} THEN "UNKNOWN" ELSE Rule[Min(hits)].issue
  IN [issue |-> issue,
      wants |-> IF hits # {} /\ Rule[Min(hits)].wants # Absent THEN Rule[Min(hits)].wants
                ELSE IF words \cap {"refund", "payback"} # {} THEN "REFUND"
                ELSE IF words \cap {"replace", "exchange"} # {} THEN "REPLACEMENT"
                ELSE IF issue = "LATE_DELIVERY" THEN "INFORMATION" ELSE "NONE"]

\* What the AI says; the words refund and replace have the last word.
Meaning == [
  REFUND         |-> [issue |-> "REFUND_REQUEST",       wants |-> "REFUND"],
  REPLACEMENT    |-> [issue |-> "REPLACEMENT_REQUEST",  wants |-> "REPLACEMENT"],
  CANCELLATION   |-> [issue |-> "CANCELLATION_REQUEST", wants |-> "CANCELLATION"],
  COUPON         |-> [issue |-> "COUPON_REQUEST",       wants |-> "COUPON"],
  DAMAGED_ITEM   |-> [issue |-> "DAMAGED_ITEM",         wants |-> "REPLACEMENT"],
  DEFECTIVE_ITEM |-> [issue |-> "DEFECTIVE_ITEM",       wants |-> "REPLACEMENT"],
  MISSING_ITEM   |-> [issue |-> "MISSING_ITEM",         wants |-> "REPLACEMENT"],
  WRONG_ITEM     |-> [issue |-> "WRONG_ITEM",           wants |-> "REPLACEMENT"],
  LATE_DELIVERY  |-> [issue |-> "LATE_DELIVERY",        wants |-> "INFORMATION"],
  UNKNOWN        |-> [issue |-> "UNKNOWN",              wants |-> "NONE"],
  GENERAL        |-> [issue |-> "GENERAL_SUPPORT",      wants |-> "NONE"]]
ByAI(answer, words) ==
  [Meaning[answer] EXCEPT !.wants = IF "refund" \in words THEN "REFUND"
                                    ELSE IF "replace" \in words THEN "REPLACEMENT" ELSE @]

\* classifyIntent fails whenever it likes: the run's calls are used up, the message
\* is blocked, the provider fails, or its answer is invalid or not sure. Then the
\* words decide, so a message may be read anew in another way.
Readings == {ByWords(case.words)} \cup {ByAI(answer, case.words) : answer \in AI}

-----------------------------------------------------------------------------
(* InvestigationAgent and the read-only tools *)

\* checkPolicy("DAMAGED", "REFUND", amount): whether an approval is required. It
\* throws if no policy is for both but one is for either.
Named(issue, action) == {p \in case.policies : p.issue = issue /\ p.action = action}
CheckPolicyThrows == Named("DAMAGED", "REFUND") = {} /\ \E p \in case.policies : p.issue = "DAMAGED" \/ p.action = "REFUND"
CheckPolicy(amount) ==
  \E p \in Named("DAMAGED", "REFUND") :
    /\ \A q \in Named("DAMAGED", "REFUND") : p.priority <= q.priority
    /\ IF p.limit # 0 THEN amount > p.limit ELSE p.approval

\* The amount at stake, of an order that was found or of none.
AmountOf(order) == IF case.asked # 0 THEN case.asked ELSE IF order = Absent THEN 0 ELSE order.total

\* checkRefundEligibility, whose limit is in the code.
RefundCheck(order) ==
  LET amount == AmountOf(order)
  IN IF order.refunds + amount > order.total THEN "INELIGIBLE"
     ELSE IF CheckPolicy(amount) \/ amount > Limit THEN "REQUIRES_APPROVAL" ELSE "ELIGIBLE"

\* A tool that fails leaves out what it would have found; stock and refunds are
\* looked up only for an order that was found.
OrderFound == {Absent, case.order}
StockFound(order) == IF order = Absent THEN {Absent} ELSE {Absent, order.stock}
RiskFound == IF case.risky THEN {{}, {"FRAUD_RISK_FLAG"}} ELSE {{}}
RefundChecked(order) == IF order = Absent \/ CheckPolicyThrows THEN {{}} ELSE {{}, {RefundCheck(order)}}

Investigated ==
  UNION {{[order |-> order, stock |-> stock, signals |-> risk \cup check] :
            stock \in StockFound(order), risk \in RiskFound, check \in RefundChecked(order)} :
         order \in OrderFound}

-----------------------------------------------------------------------------
(* PolicyConditionEvaluator and PolicyEngine *)

Alias == [
  DAMAGED              |-> {"DAMAGED_ITEM", "DEFECTIVE_ITEM", "REFUND_REQUEST", "REPLACEMENT_REQUEST"},
  DAMAGED_ITEM         |-> {"DAMAGED", "DEFECTIVE_ITEM", "REFUND_REQUEST", "REPLACEMENT_REQUEST"},
  NOT_RECEIVED         |-> {"MISSING_ITEM", "LATE_DELIVERY", "REFUND_REQUEST"},
  MISSING_ITEM         |-> {"NOT_RECEIVED", "REFUND_REQUEST", "REPLACEMENT_REQUEST"},
  CANCEL_REQUEST       |-> {"CANCELLATION_REQUEST"},
  CANCELLATION_REQUEST |-> {"CANCEL_REQUEST"},
  REFUND_REQUEST       |-> {"DAMAGED", "DAMAGED_ITEM", "DEFECTIVE_ITEM", "MISSING_ITEM", "LATE_DELIVERY"},
  REPLACEMENT_REQUEST  |-> {"DAMAGED", "DAMAGED_ITEM", "DEFECTIVE_ITEM", "WRONG_ITEM"}]
Aliases(issue, other) == issue \in DOMAIN Alias /\ other \in Alias[issue]

\* A policy for the issue whose window and tiers the case is within.
Applicable(f, i) ==
  {p \in case.policies :
     /\ p.issue = i.issue \/ Aliases(p.issue, i.issue) \/ Aliases(i.issue, p.issue)
     /\ p.recentOnly => case.recent \/ f.order = Absent}

NeedsApproval(p, f) ==
  IF p.limit # 0 /\ p.action = "REFUND" THEN AmountOf(f.order) > p.limit ELSE p.approval

\* Mutant: what the investigation flagged is not looked at.
RefundApprovalByPolicy(f, i) == \E p \in Applicable(f, i) : p.action = "REFUND" /\ NeedsApproval(p, f)

RefundApproval(f, i) ==
  \/ \E p \in Applicable(f, i) : p.action = "REFUND" /\ NeedsApproval(p, f)
  \/ f.signals \cap {"FRAUD_RISK_FLAG", "REQUIRES_APPROVAL"} # {}

Priority(f, i, action, default) == Min({default} \cup {p.priority : p \in {q \in Applicable(f, i) : q.action = action}})

Candidate(rank, action, feasible, approval, priority, amount, product) ==
  [rank |-> rank, action |-> action, feasible |-> feasible, approval |-> approval,
   priority |-> priority, amount |-> amount, product |-> product]

\* generateCandidateActions; rank is the place in its list.
Candidates(f, i) ==
  LET out == f.stock = 0
      cancels == f.order # Absent /\ f.order.cancelable
      approves == \E p \in Applicable(f, i) : p.action = "CANCELLATION" /\ NeedsApproval(p, f)
  IN { Candidate(1, "REFUND", IF RefundApproval(f, i) THEN "APPROVAL_REQUIRED" ELSE "FEASIBLE",
                 RefundApproval(f, i), Priority(f, i, "REFUND", 1), AmountOf(f.order), Absent),
       Candidate(2, "REPLACEMENT", IF out THEN "BLOCKED" ELSE "FEASIBLE", FALSE,
                 Priority(f, i, "REPLACEMENT", 2), 0, "ordered"),
       Candidate(4, "CANCELLATION", IF cancels THEN "FEASIBLE" ELSE "BLOCKED", approves, 3, 0, Absent),
       Candidate(5, "COUPON", "FEASIBLE", FALSE, 4, 0, Absent),
       Candidate(6, "ESCALATION", "FEASIBLE", FALSE, 5, 0, Absent) }
     \cup (IF out THEN {Candidate(3, "REPLACEMENT", "REQUIRES_CUSTOMER_CONSENT", FALSE, 2, 0, "other")}
                  ELSE {})

-----------------------------------------------------------------------------
(* DecisionEngine *)

Earliest(some) == CHOOSE c \in some : \A d \in some : c.rank <= d.rank

First(all, action) == Earliest({c \in all : c.action = action})

\* The sort is stable: of equal priorities the earlier candidate.
Best(all) ==
  LET open == {c \in all : c.feasible \in {"FEASIBLE", "APPROVAL_REQUIRED"}}
  IN Earliest({c \in open : \A d \in open : c.priority <= d.priority})

\* Mutant: the best candidate in place of a replacement that is not possible.
SelectedIfPossible(all, i) ==
  IF i.wants \in {"REFUND", "REPLACEMENT"} /\ First(all, i.wants).feasible # "BLOCKED"
  THEN First(all, i.wants) ELSE Best(all)

\* What is asked for, as far as it is a refund, a replacement or a cancellation
\* that is possible; the best of all candidates for any other wish.
Selected(all, i) ==
  CASE i.wants \in {"REFUND", "REPLACEMENT"} -> First(all, i.wants)
    [] i.wants = "CANCELLATION" ->
         First(all, IF First(all, "CANCELLATION").feasible = "FEASIBLE" THEN "CANCELLATION" ELSE "ESCALATION")
    [] OTHER -> Best(all)

\* A cancellation's approval is not looked at. The executor's candidate is looked
\* for among the alternatives, where the selected one is not if it is feasible:
\* then it is made up, without parameters.
Decided(f, i) ==
  LET all == Candidates(f, i)
      s == Selected(all, i)
      approval == s.approval /\ s.action # "CANCELLATION"
      rest == {c \in all : c.action = s.action /\ c.feasible # "FEASIBLE"}
  IN [action |-> s.action, approval |-> approval,
      blocked |-> rest # {},
      target |-> IF rest # {} THEN Earliest(rest) ELSE Candidate(0, s.action, "FEASIBLE", approval, 1, 0, Absent)]

\* Mutant: a refund that was asked for is allowed without a look at the candidate.
DecidedFreely(f, i) == [Decided(f, i) EXCEPT !.approval = @ /\ i.wants # "REFUND"]
Decide(f, i) == Decided(f, i)

-----------------------------------------------------------------------------
(* ActionExecutor *)

Withholds ==
  \/ (decision.approval \/ decision.target.approval \/ decision.target.feasible = "APPROVAL_REQUIRED") /\ ~token
  \/ decision.target.feasible = "REQUIRES_CUSTOMER_CONSENT" /\ ~consent

Blocks == (decision.target.feasible = "BLOCKED" \/ decision.blocked) /\ ~token /\ ~consent

\* The parameters of the candidate, or those of the order, or made up.
Act ==
  [action |-> decision.action,
   amount |-> IF decision.action # "REFUND" THEN 0
              ELSE IF decision.target.amount # 0 THEN decision.target.amount
              ELSE IF found.order # Absent THEN found.order.total ELSE Max(Total),
   product |-> IF decision.action # "REPLACEMENT" THEN Absent
               ELSE IF decision.target.product # Absent THEN decision.target.product
               ELSE IF found.stock # Absent THEN "ordered" ELSE "default",
   risky |-> "FRAUD_RISK_FLAG" \in found.signals, token |-> token]

-----------------------------------------------------------------------------
(* The case *)

Orders == {Absent} \cup [total : Total, refunds : {0}, cancelable : BOOLEAN, stock : {0, 1}]
Cases == [words : Message, asked : Asked, order : Orders, risky : BOOLEAN, recent : BOOLEAN, policies : Policies]

NoDecision == [action |-> "NONE", approval |-> FALSE, blocked |-> FALSE, target |-> Candidate(0, "NONE", "FEASIBLE", FALSE, 1, 0, Absent)]
Nothing == [order |-> Absent, stock |-> Absent, signals |-> {}]

CaseInit ==
  /\ case \in Cases
  /\ token \in BOOLEAN /\ consent \in BOOLEAN
  /\ step = "investigate"
  /\ resumed = FALSE
  /\ intent = ByWords(case.words)
  /\ found = Nothing /\ decision = NoDecision /\ done = Absent

Keep == UNCHANGED <<case, token, consent>>

\* An issue that is not known ends the case; the facts lead to a decision.
Investigate ==
  /\ step = "investigate"
  /\ intent' \in Readings
  /\ IF intent'.issue = "UNKNOWN" /\ ~resumed
     THEN step' = "failed" /\ UNCHANGED <<found, decision>>
     ELSE \E f \in Investigated :
            /\ found' = f /\ decision' = Decide(f, intent')
            /\ step' = IF resumed THEN "execute" ELSE "gate"
  /\ Keep /\ UNCHANGED <<resumed, done>>

\* run()'s gates.
Gate ==
  /\ step = "gate"
  /\ step' = CASE decision.approval /\ ~token -> "waitApproval"
                [] decision.action = "ESCALATION" -> "escalated"
                [] decision.target.feasible = "REQUIRES_CUSTOMER_CONSENT" /\ ~consent -> "waitConsent"
                [] OTHER -> "execute"
  /\ Keep /\ UNCHANGED <<resumed, intent, found, decision, done>>

Lacking == Blocks \/ (Act.product = "ordered" /\ case.order.stock = 0)

\* The tool has no stock to replace from, or fails for a reason of its own.
Execute ==
  /\ step \in {"execute", "again"}
  /\ IF Withholds THEN step' = "withheld" /\ UNCHANGED done
     ELSE IF Lacking THEN step' = (IF step = "again" THEN "escalated" ELSE "recover") /\ UNCHANGED done
     ELSE \/ done' = Act /\ step' = "resolved"
          \/ step' = (IF step = "again" THEN "escalated" ELSE "recover") /\ UNCHANGED done
  /\ Keep /\ UNCHANGED <<resumed, intent, found, decision>>

\* FailureRecoveryAgent: another product in place of one that is out of stock,
\* with consent; else what is decided now. resumeRun waits for no one again.
Waits(s) == IF resumed THEN "escalated" ELSE s
Recover ==
  /\ step = "recover"
  /\ \E f \in Investigated, lack \in {Lacking, TRUE} :
       LET others == {c \in Candidates(f, intent) : c.product = "other"}
           d == Decide(f, intent)
       IN /\ found' = f
          /\ IF decision.action = "REPLACEMENT" /\ lack /\ others # {}
             THEN /\ step' = IF consent THEN "again" ELSE Waits("waitConsent")
                  /\ decision' = [d EXCEPT !.action = "REPLACEMENT", !.approval = FALSE, !.target = Earliest(others)]
             ELSE /\ step' = CASE d.approval -> Waits("waitApproval")
                                [] d.action = "ESCALATION" -> "escalated"
                                [] OTHER -> "again"
                  /\ decision' = d
  /\ Keep /\ UNCHANGED <<resumed, intent, done>>

\* resumeRun: whoever answers, there is a token and a consent from now on.
Answer ==
  /\ step \in {"waitApproval", "waitConsent"}
  /\ token' = TRUE /\ consent' = TRUE
  /\ resumed' = TRUE /\ step' = "investigate"
  /\ UNCHANGED <<case, intent, found, decision, done>>

CaseNext == Investigate \/ Gate \/ Execute \/ Recover \/ Answer
CaseSpec == CaseInit /\ [][CaseNext]_caseVars

-----------------------------------------------------------------------------
(* Properties *)

\* The executor asks for no approval and no consent that run() and the recovery
\* did not wait for: it would leave the row where no answer is taken
\* (AgentOrchestrator.ts:502, ActionExecutor.ts:49-117).
GatesAgree == step # "withheld"

\* A refund to a customer the investigation flagged is not carried out before
\* someone has answered for it, whichever wish, policies and failed tools led
\* there (InvestigationAgent.ts:84-112).
RiskyRefundAnswered == done # Absent /\ done.action = "REFUND" /\ done.risky => done.token

\* Who asks for a refund, a replacement or a cancellation, as the message was read
\* last, gets that, a human or nothing:
\* neither facts that are found only after an answer nor the recovery of a failed
\* action puts another action in its place (FailureRecoveryAgent.ts:184-301).
WishRespected ==
  done # Absent /\ intent.wants \in {"REFUND", "REPLACEMENT", "CANCELLATION"} =>
    done.action \in {intent.wants, "ESCALATION"}

\* "Refunds exceeding 10,000 strictly halt at WAITING_FOR_APPROVAL" (README.md:80).
\* They do not: with no order found and no amount asked for there is nothing to
\* compare with the limit, and the executor refunds a default order's total
\* (ActionExecutor.ts:175, 182).
HighRefundAnswered == done # Absent /\ done.action = "REFUND" /\ done.amount > Limit => done.token
=============================================================================
