----------------------------- MODULE Notifications -----------------------------
(***************************************************************************)
(* The notifications of one run: NotificationDispatcher, which creates a     *)
(* row for an event and a recipient, claims it, sends it and records the     *)
(* result, and the operator's retry (notificationRepository.ts).             *)
(*                                                                          *)
(* The orchestrator does not wait for a dispatch, so calls overlap with each *)
(* other, with retries and with whatever happens to the run.                *)
(***************************************************************************)
EXTENDS Naturals
CONSTANTS
  Event,       \* the events that occur
  Call,        \* dispatches and retries in flight
  MaxAttempts, \* maxAttempts of a row
  MaxRetries,  \* bound: retries of operators
  None

Recipient == {"CUSTOMER", "OPERATOR"}
Status == {"QUEUED", "SENDING", "SENT", "FAILED", "FAILED_PERMANENTLY"}

\* The idempotency key: the event, on the channel IN_APP, for a recipient.
Key == Event \X Recipient
Row == [status : Status, attempts : 0..MaxAttempts, isRead : BOOLEAN]

\* A dispatch or a retry: its event, the recipients left and the one it is at.
CallRecord ==
  [event : Event, todo : SUBSET Recipient, to : Recipient \cup {None}, attempts : 0..MaxAttempts,
   pc : {"evidence", "next", "create", "claim", "send", "markSent", "readFailed", "markFailed", "requeue"}]

ASSUME NotificationAssumption ==
  /\ MaxAttempts \in Nat /\ MaxRetries \in Nat
  /\ None \notin Row \cup CallRecord \cup Recipient

VARIABLES
  row,       \* row[k]: the notification, or None
  completed, \* the status of the AgentRun is COMPLETED
  evidence,  \* it has a verified action, or its order a completed refund
  call,      \* call[c]: a dispatch or a retry and its locals, or None
  once,      \* the run has been completed (history)
  tries,     \* tries[k]: how often k was claimed (history)
  delivered, \* delivered[k]: how often k was sent (history)
  retries    \* retries[k]: how often an operator put k back (history)

vars == <<row, completed, evidence, call, once, tries, delivered, retries>>

\* TEMPLATES for IN_APP.
Template ==
  ({"CASE_CREATED", "INVESTIGATION_COMPLETED", "CUSTOMER_CONSENT_REQUIRED", "RESOLUTION_COMPLETED",
    "RESOLUTION_FAILED", "CASE_ESCALATED", "RECOVERY_STARTED", "RECOVERY_COMPLETED"} \X {"CUSTOMER"})
  \cup ({"APPROVAL_REQUIRED", "CASE_ESCALATED", "RESOLUTION_FAILED"} \X {"OPERATOR"})
HasTemplate(e, r) == <<e, r>> \in Template \/ (r = "OPERATOR" /\ <<e, "CUSTOMER">> \in Template)

\* Who is to be told, if the customer is known.
Recipients(e) ==
  IF e = "APPROVAL_REQUIRED" THEN {"OPERATOR"}
  ELSE IF e \in {"CASE_ESCALATED", "RESOLUTION_FAILED"} THEN Recipient ELSE {"CUSTOMER"}

Init ==
  /\ row = [k \in Key |-> None]
  /\ completed = FALSE
  /\ evidence = FALSE
  /\ call = [c \in Call |-> None]
  /\ once = FALSE
  /\ tries = [k \in Key |-> 0]
  /\ delivered = [k \in Key |-> 0]
  /\ retries = [k \in Key |-> 0]

Business == <<completed, evidence, once>>
History == <<tries, delivered, retries>>
At(c, pc) == call[c] # None /\ call[c].pc = pc
Goto(c, pc) == call' = [call EXCEPT ![c] = [call[c] EXCEPT !.pc = pc]]
Return(c) == call' = [call EXCEPT ![c] = None]
Its(c) == <<call[c].event, call[c].to>>

-----------------------------------------------------------------------------
(* The run, whatever the orchestrator and reconcile do to it. *)

RunMoves ==
  /\ completed' \in BOOLEAN
  /\ evidence' \in {evidence, TRUE}
  /\ once' = (once \/ completed')
  /\ UNCHANGED <<row, call, tries, delivered, retries>>

-----------------------------------------------------------------------------
(* NotificationDispatcher *)

NewCall(e, pc) ==
  [event |-> e, pc |-> pc, todo |-> {}, to |-> None, attempts |-> 0]

\* dispatch(event): the recipients one after the other, the customer first.
Dispatch(c, e) ==
  \E known \in BOOLEAN :
    call' = [call EXCEPT ![c] =
      [NewCall(e, "next") EXCEPT !.todo = IF known THEN Recipients(e) ELSE Recipients(e) \ {"CUSTOMER"}]]

\* The orchestrator's dispatch of any event but a resolution.
Notify(c) ==
  \E e \in Event \ {"RESOLUTION_COMPLETED"} :
    /\ call[c] = None
    /\ Dispatch(c, e)
    /\ UNCHANGED <<row, Business, History>>

\* Mutant: the orchestrator's word is taken for it.
NotifyResolvedAtOnce(c) ==
  /\ call[c] = None
  /\ "RESOLUTION_COMPLETED" \in Event
  /\ completed
  /\ Dispatch(c, "RESOLUTION_COMPLETED")
  /\ UNCHANGED <<row, Business, History>>

\* dispatchResolutionSafe reads the run and its actions ...
NotifyResolved(c) ==
  /\ call[c] = None
  /\ "RESOLUTION_COMPLETED" \in Event
  /\ completed
  /\ call' = [call EXCEPT ![c] = NewCall("RESOLUTION_COMPLETED", "evidence")]
  /\ UNCHANGED <<row, Business, History>>

\* ... and then the refunds of the order.
SeeEvidence(c) ==
  /\ At(c, "evidence")
  /\ IF evidence THEN Dispatch(c, "RESOLUTION_COMPLETED") ELSE Return(c)
  /\ UNCHANGED <<row, Business, History>>

NextRecipient(c) ==
  /\ At(c, "next")
  /\ IF call[c].todo = {} THEN Return(c)
     ELSE LET r == IF "CUSTOMER" \in call[c].todo THEN "CUSTOMER" ELSE "OPERATOR"
          IN call' = [call EXCEPT ![c] = [call[c] EXCEPT !.todo = @ \ {r}, !.to = r,
                        !.pc = IF HasTemplate(call[c].event, r) THEN "create" ELSE "next"]]
  /\ UNCHANGED <<row, Business, History>>

\* The row of the idempotency key: the one that is there, or a new one.
CreateOrFind(c) ==
  IF row[Its(c)] = None THEN [status |-> "QUEUED", attempts |-> 0, isRead |-> FALSE] ELSE row[Its(c)]

\* A row that is SENT is left at that; without a row the next recipient is tried.
Create(c) ==
  /\ At(c, "create")
  /\ \/ /\ row' = [row EXCEPT ![Its(c)] = CreateOrFind(c)]
        /\ Goto(c, IF CreateOrFind(c).status = "SENT" THEN "next" ELSE "claim")
     \/ Goto(c, "next") /\ UNCHANGED row
  /\ UNCHANGED <<Business, History>>

\* claimForDelivery's condition, and its one statement.
Claimable(c) == row[Its(c)].status \in {"QUEUED", "FAILED"} /\ row[Its(c)].attempts < MaxAttempts

\* Mutant: the attempt is not counted.
ClaimUncounted(c) ==
  /\ At(c, "claim")
  /\ IF Claimable(c)
     THEN /\ row' = [row EXCEPT ![Its(c)] = [@ EXCEPT !.status = "SENDING"]]
          /\ tries' = [tries EXCEPT ![Its(c)] = @ + 1]
          /\ Goto(c, "send")
     ELSE Goto(c, "next") /\ UNCHANGED <<row, tries>>
  /\ UNCHANGED <<Business, delivered, retries>>

\* Who does not get the row leaves it to who did.
Claim(c) ==
  /\ At(c, "claim")
  /\ IF Claimable(c)
     THEN /\ row' = [row EXCEPT ![Its(c)] = [@ EXCEPT !.status = "SENDING", !.attempts = row[Its(c)].attempts + 1]]
          /\ tries' = [tries EXCEPT ![Its(c)] = @ + 1]
          /\ Goto(c, "send")
     ELSE Goto(c, "next") /\ UNCHANGED <<row, tries>>
  /\ UNCHANGED <<Business, delivered, retries>>

\* Mutant: a result that was not a success is recorded as one.
SendRegardless(c) ==
  /\ At(c, "send")
  /\ delivered' \in {delivered, [delivered EXCEPT ![Its(c)] = @ + 1]}
  /\ Goto(c, "markSent")
  /\ UNCHANGED <<row, Business, tries, retries>>

\* The channel's adapter takes the message.
Deliver(c) == delivered' = [delivered EXCEPT ![Its(c)] = @ + 1]

\* The channel delivers, or reports a failure.
Send(c) ==
  /\ At(c, "send")
  /\ \/ Deliver(c) /\ Goto(c, "markSent")
     \/ Goto(c, "readFailed") /\ UNCHANGED delivered
  /\ UNCHANGED <<row, Business, tries, retries>>

\* The writes of a result ask for no status; one that fails is forgotten.
SetStatus(c, status) == row' = [row EXCEPT ![Its(c)] = [@ EXCEPT !.status = status]]

MarkSent(c) ==
  /\ At(c, "markSent")
  /\ SetStatus(c, "SENT") \/ UNCHANGED row
  /\ Goto(c, "next")
  /\ UNCHANGED <<Business, History>>

ReadFailed(c) ==
  /\ At(c, "readFailed")
  /\ call' = [call EXCEPT ![c] = [call[c] EXCEPT !.pc = "markFailed", !.attempts = row[Its(c)].attempts]]
  /\ UNCHANGED <<row, Business, History>>

MarkFailed(c) ==
  /\ At(c, "markFailed")
  /\ SetStatus(c, IF call[c].attempts >= MaxAttempts THEN "FAILED_PERMANENTLY" ELSE "FAILED") \/ UNCHANGED row
  /\ call' = [call EXCEPT ![c] = [call[c] EXCEPT !.pc = "next", !.attempts = 0]]
  /\ UNCHANGED <<Business, History>>

-----------------------------------------------------------------------------
(* The operator and the customer. *)

\* retryFailed reads the row; a permanent failure gets new attempts ...
ReadRetry(c) ==
  \E k \in Key :
    /\ call[c] = None
    /\ row[k] # None
    /\ row[k].status \in {"FAILED", "FAILED_PERMANENTLY"}
    /\ call' = [call EXCEPT ![c] = [event |-> k[1], pc |-> "requeue", todo |-> {}, to |-> k[2],
         attempts |-> IF row[k].status = "FAILED_PERMANENTLY" THEN 0 ELSE row[k].attempts]]
    /\ UNCHANGED <<row, Business, History>>

\* ... and writes it; the route then dispatches the event again.
Requeue(c) ==
  /\ At(c, "requeue")
  /\ retries[Its(c)] < MaxRetries
  /\ row' = [row EXCEPT ![Its(c)] = [@ EXCEPT !.status = "QUEUED", !.attempts = call[c].attempts]]
  /\ retries' = [retries EXCEPT ![Its(c)] = @ + 1]
  /\ Dispatch(c, call[c].event)
  /\ UNCHANGED <<Business, tries, delivered>>

\* The customer reads it; nothing else asks for that.
MarkRead ==
  \E k \in Key :
    /\ row[k] # None
    /\ row' = [row EXCEPT ![k] = [@ EXCEPT !.isRead = TRUE]]
    /\ UNCHANGED <<Business, call, History>>

Dies(c) ==
  /\ call[c] # None
  /\ Return(c)
  /\ UNCHANGED <<row, Business, History>>

Next ==
  \/ RunMoves \/ MarkRead
  \/ \E c \in Call :
       \/ Notify(c) \/ NotifyResolved(c) \/ SeeEvidence(c) \/ NextRecipient(c)
       \/ Create(c) \/ Claim(c) \/ Send(c) \/ MarkSent(c) \/ ReadFailed(c) \/ MarkFailed(c)
       \/ ReadRetry(c) \/ Requeue(c) \/ Dies(c)

Spec == Init /\ [][Next]_vars

-----------------------------------------------------------------------------
(* Properties *)

\* Rows, calls and counts have their types; a row's attempts stay within their
\* maximum although retries write back what they read earlier.
NotificationTypeOK ==
  /\ row \in [Key -> Row \cup {None}]
  /\ call \in [Call -> CallRecord \cup {None}]
  /\ completed \in BOOLEAN /\ evidence \in BOOLEAN /\ once \in BOOLEAN
  /\ tries \in [Key -> Nat] /\ delivered \in [Key -> Nat] /\ retries \in [Key -> Nat]

\* A customer is told of a resolution only if the run was completed and there
\* was evidence of it, by whichever way the notification comes about, a retry
\* that bypasses the gate included (notificationDispatcher.ts:128).
ResolutionGrounded ==
  \A k \in Key : k[1] = "RESOLUTION_COMPLETED" /\ row[k] # None =>
    once /\ evidence

\* A row says SENT only if the channel has delivered it at least once, however
\* late results, retries and failed writes of it fall.
SentWasDelivered ==
  \A k \in Key : row[k] # None /\ row[k].status = "SENT" => delivered[k] > 0

\* However dispatches and stale retries overlap, a notification is tried no
\* oftener than its maximum, and that often again for each retry.
TriesBounded == \A k \in Key : tries[k] <= MaxAttempts * (1 + retries[k])
=============================================================================
