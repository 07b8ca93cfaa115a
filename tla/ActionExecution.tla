---------------------------- MODULE ActionExecution ----------------------------
(***************************************************************************)
(* Business actions: ActionExecutor.execute, its retries and verification, *)
(* and the tools it runs (issueRefund, createReplacement, cancelOrder,     *)
(* applyCoupon, escalateTicket) against the tables they read and write.    *)
(*                                                                         *)
(* A call is one ActionExecutor.execute.  Reads outside a transaction are  *)
(* steps of their own; the code inside a $transaction is one step.  Any    *)
(* statement may fail, a commit may succeed without its acknowledgement,   *)
(* and the process may die between any two steps; a client or a recovered  *)
(* job that tries again is another call with the same idempotency key.     *)
(*                                                                         *)
(* An attempt of a call commits at most one transaction, so the attempt    *)
(* identifies the ActionRecord it creates and the row that record refers   *)
(* to (a refund, a replacement order, a coupon, an escalation).            *)
(***************************************************************************)
EXTENDS Integers, FiniteSetsExt

CONSTANTS
  Call,          \* calls of ActionExecutor.execute
  Key,           \* idempotency keys
  Order,         \* order ids
  Code,          \* coupon codes
  None,          \* SQL NULL / nothing
  Request,       \* what callers may ask, see RequestType
  KeyPrefixes,   \* <<k, l>> when the text of key l contains that of key k
  OrderTotal,    \* totalAmount of an order
  InitialStock,  \* stockQuantity of the replacement product
  MaxAttempts    \* maxAttempts given to executeWithRetry

ActionType == {"REFUND", "REPLACEMENT", "CANCELLATION", "COUPON", "ESCALATION"}

RequestType ==
  [type : ActionType, key : Key, order : Order, amount : Nat, code : Code,
   needs : SUBSET {"APPROVAL", "CONSENT", "UNBLOCKING"},
   has : SUBSET {"TOKEN", "CONSENT"}]

ASSUME RequestAssumption == Request \subseteq RequestType
ASSUME AmountAssumption ==
  OrderTotal \in Nat /\ InitialStock \in Nat /\ MaxAttempts \in Nat \ {0}

Attempt == Call \X (1..MaxAttempts)

Stage == {"idle", "check", "lookup", "read", "commit", "salvage", "record",
          "confirm", "verify", "verified", "refuted", "ended"}
Answer == {"WITHHELD", "FAILED", "EXECUTED", "VERIFICATION_FAILED", "ERROR"}
ToolResult == [ok : BOOLEAN, action : Attempt \cup {None}]
ActionRow == [type : ActionType, key : Key, order : Order, verified : BOOLEAN]
RefundRow == [order : Order, amount : Nat, by : Attempt]
OrderRow == [status : {"PROCESSING", "DELIVERED", "REFUNDED", "CANCELLED"},
             shipped : BOOLEAN]

\* NULL is no row, no attempt, no request and no answer.
ASSUME NoneAssumption ==
  /\ None \notin Attempt /\ None \notin Key \X Attempt
  /\ None \notin Request /\ None \notin Answer
  /\ None \notin ActionRow /\ None \notin RefundRow /\ None \notin ToolResult

VARIABLES
  order,    \* Order rows: status, and whether shippingStatus forbids cancelling
  stock,    \* Product.stockQuantity
  refund,   \* RefundTransaction rows by their unique idempotencyKey
  coupons,  \* Coupon codes, which are unique
  action,   \* action[a]: the ActionRecord attempt a created
  exec,     \* ToolExecution rows by their unique idempotencyKey
  pc,       \* what c is about to do
  req,      \* what c was asked
  attempt,  \* RetryPolicy's attempt of c, 0 before it begins
  seen,     \* the stockQuantity c read
  result,   \* the ToolResult c holds
  answer,   \* what c returned
  lost      \* history: calls whose commit was not acknowledged

tables == <<order, stock, refund, coupons, action, exec>>
locals == <<pc, req, attempt, seen, result, answer, lost>>
vars == <<tables, locals>>

NoResult == [ok |-> FALSE, action |-> None]

Init ==
  /\ order \in [Order -> {[status |-> "PROCESSING", shipped |-> FALSE],
                          [status |-> "DELIVERED", shipped |-> TRUE]}]
  /\ stock = InitialStock
  /\ refund = [k \in Key |-> None]
  /\ coupons = {}
  /\ action = [a \in Attempt |-> None]
  /\ exec = [k \in Key |-> None]
  /\ pc = [c \in Call |-> "idle"]
  /\ req = [c \in Call |-> None]
  /\ attempt = [c \in Call |-> 0]
  /\ seen = [c \in Call |-> 0]
  /\ result = [c \in Call |-> NoResult]
  /\ answer = [c \in Call |-> None]
  /\ lost = {}

-----------------------------------------------------------------------------
(* What the queries ask. *)

\* "metadata contains key": the text of the record's key contains it.
Mentions(a, k) ==
  /\ action[a] # None
  /\ action[a].key = k \/ <<k, action[a].key>> \in KeyPrefixes

\* The record of the refund with this key, in any row the OR admits.
RefundRecords(k) == {a \in Attempt : a = refund[k].by \/ Mentions(a, k)}

\* Mutant: without a refund, any record is found.
FoundRecordsOfAnyKey(k) ==
  IF refund[k] # None THEN {refund[k].by} ELSE {a \in Attempt : action[a] # None}

\* findActionRecordByIdempotencyKey: by refund first, else by metadata.
FoundRecords(k) ==
  IF refund[k] # None THEN {refund[k].by} ELSE {a \in Attempt : Mentions(a, k)}

ReplacementRecords(k) ==
  {a \in Attempt : Mentions(a, k) /\ action[a].type = "REPLACEMENT"}

Refunded(o) ==
  MapThenSumSet(LAMBDA k : refund[k].amount,
                {k \in Key : refund[k] # None /\ refund[k].order = o})

\* verifyAction's question to the tables.  Only an order's status can have
\* changed since the action: the other rows are never updated.
GroundTruth(a) ==
  action[a].type = "CANCELLATION" => order[action[a].order].status = "CANCELLED"

\* The order a replacement created is not followed here: another run may have
\* refunded or cancelled it since.
MayHaveMoved(a) == action[a].type = "REPLACEMENT"

\* The approval, consent and blocked gates, in this order.
Withheld(r) ==
  \/ "APPROVAL" \in r.needs /\ "TOKEN" \notin r.has
  \/ "CONSENT" \in r.needs /\ "CONSENT" \notin r.has
  \/ "UNBLOCKING" \in r.needs /\ r.has = {}

-----------------------------------------------------------------------------
(* Steps of a call. *)

Goto(c, stage) == pc' = [pc EXCEPT ![c] = stage]
Return(c, what) == Goto(c, "ended") /\ answer' = [answer EXCEPT ![c] = what]

\* The tool succeeded or failed and is about to record its ToolExecution.
Finish(c, ok, a) ==
  /\ Goto(c, "record")
  /\ result' = [result EXCEPT ![c] = [ok |-> ok, action |-> a]]

\* The tool returned to the executor.
Proceed(c, r) ==
  IF r.ok THEN Goto(c, "verify") /\ UNCHANGED answer
          ELSE Return(c, "FAILED")

Begin(c) ==
  /\ pc[c] = "idle"
  /\ \E r \in Request :
       /\ req' = [req EXCEPT ![c] = r]
       /\ attempt' = [attempt EXCEPT ![c] = 1]
       /\ IF Withheld(r) THEN Return(c, "WITHHELD")
                         ELSE Goto(c, "check") /\ UNCHANGED answer
  /\ UNCHANGED <<tables, seen, result, lost>>

CheckIdempotency(c) ==
  LET k == req[c].key IN
  /\ pc[c] = "check"
  /\ IF exec[k] # None
       THEN result' = [result EXCEPT ![c] = exec[k]] /\ Proceed(c, exec[k])
       ELSE /\ Goto(c, IF req[c].type = "REFUND" THEN "lookup" ELSE "read")
            /\ UNCHANGED <<result, answer>>
  /\ UNCHANGED <<tables, req, attempt, seen, lost>>

\* issueRefund reconciles with a transaction that has its key.
LookupRefund(c) ==
  LET k == req[c].key IN
  /\ pc[c] = "lookup"
  /\ IF refund[k] # None
       THEN \E a \in RefundRecords(k) : Finish(c, TRUE, a)
       ELSE Goto(c, "read") /\ UNCHANGED result
  /\ UNCHANGED <<tables, req, attempt, seen, answer, lost>>

\* Mutant: an empty stock is enough.
EligibleAtZero(r) ==
  CASE r.type = "REFUND" -> 0 < r.amount /\ Refunded(r.order) + r.amount <= OrderTotal
    [] r.type = "REPLACEMENT" -> stock >= 0
    [] r.type = "CANCELLATION" ->
         order[r.order].status # "DELIVERED" /\ ~order[r.order].shipped
    [] OTHER -> TRUE

\* What each tool asks of the tables before its transaction.
Eligible(r) ==
  CASE r.type = "REFUND" -> 0 < r.amount /\ Refunded(r.order) + r.amount <= OrderTotal
    [] r.type = "REPLACEMENT" -> stock > 0
    [] r.type = "CANCELLATION" ->
         order[r.order].status # "DELIVERED" /\ ~order[r.order].shipped
    [] OTHER -> TRUE

ReadTables(c) ==
  /\ pc[c] = "read"
  /\ seen' = IF req[c].type = "REPLACEMENT" THEN [seen EXCEPT ![c] = stock] ELSE seen
  /\ IF Eligible(req[c]) THEN Goto(c, "commit") /\ UNCHANGED result
                         ELSE Finish(c, FALSE, None)
  /\ UNCHANGED <<tables, req, attempt, answer, lost>>

\* The attempt c is making.
Own(c) == <<c, attempt[c]>>

\* The ActionRecord created in the tool's transaction.
CreateAction(c) ==
  action' = [action EXCEPT ![Own(c)] = [type |-> req[c].type, key |-> req[c].key,
                                        order |-> req[c].order, verified |-> FALSE]]

\* After a committed transaction; without the acknowledgement the tool sees an
\* error, which only createReplacement looks into.
Committed(c) ==
  \/ Finish(c, TRUE, Own(c)) /\ UNCHANGED lost
  \/ /\ lost' = lost \cup {c}
     /\ IF req[c].type = "REPLACEMENT" THEN Goto(c, "salvage") /\ UNCHANGED result
                                       ELSE Finish(c, FALSE, None)

\* Mutant: the key of a refund transaction is not unique.
CommitRefundAnyKey(c) ==
  LET r == req[c] IN
  /\ pc[c] = "commit" /\ r.type = "REFUND"
  /\ refund' = [refund EXCEPT ![r.key] = [order |-> r.order, amount |-> r.amount, by |-> Own(c)]]
  /\ order' = [order EXCEPT ![r.order].status = "REFUNDED"]
  /\ CreateAction(c)
  /\ Committed(c)
  /\ UNCHANGED <<stock, coupons, exec, req, attempt, seen, answer>>

CommitRefund(c) ==
  LET r == req[c] IN
  /\ pc[c] = "commit" /\ r.type = "REFUND"
  /\ refund[r.key] = None
  /\ refund' = [refund EXCEPT ![r.key] = [order |-> r.order, amount |-> r.amount, by |-> Own(c)]]
  /\ order' = [order EXCEPT ![r.order].status = "REFUNDED"]
  /\ CreateAction(c)
  /\ Committed(c)
  /\ UNCHANGED <<stock, coupons, exec, req, attempt, seen, answer>>

\* P2002 on the unique key: back to the transaction that has it.
DuplicateRefund(c) ==
  /\ pc[c] = "commit" /\ req[c].type = "REFUND"
  /\ refund[req[c].key] # None
  /\ Goto(c, "lookup")
  /\ UNCHANGED <<tables, req, attempt, seen, result, answer, lost>>

\* The stock written is the one read before the transaction, less one.
CommitReplacement(c) ==
  /\ pc[c] = "commit" /\ req[c].type = "REPLACEMENT"
  /\ stock' = seen[c] - 1
  /\ CreateAction(c)
  /\ Committed(c)
  /\ UNCHANGED <<order, refund, coupons, exec, req, attempt, seen, answer>>

CommitCancellation(c) ==
  /\ pc[c] = "commit" /\ req[c].type = "CANCELLATION"
  /\ order' = [order EXCEPT ![req[c].order] = [status |-> "CANCELLED", shipped |-> FALSE]]
  /\ CreateAction(c)
  /\ Committed(c)
  /\ UNCHANGED <<stock, refund, coupons, exec, req, attempt, seen, answer>>

CommitCoupon(c) ==
  /\ pc[c] = "commit" /\ req[c].type = "COUPON"
  /\ req[c].code \notin coupons
  /\ coupons' = coupons \cup {req[c].code}
  /\ CreateAction(c)
  /\ Committed(c)
  /\ UNCHANGED <<order, stock, refund, exec, req, attempt, seen, answer>>

CommitEscalation(c) ==
  /\ pc[c] = "commit" /\ req[c].type = "ESCALATION"
  /\ CreateAction(c)
  /\ Committed(c)
  /\ UNCHANGED <<order, stock, refund, coupons, exec, req, attempt, seen, answer>>

\* The transaction is rolled back, for a taken coupon code or any other error.
RollBack(c) ==
  /\ pc[c] = "commit"
  /\ IF req[c].type = "REPLACEMENT" THEN Goto(c, "salvage") /\ UNCHANGED result
                                    ELSE Finish(c, FALSE, None)
  /\ UNCHANGED <<tables, req, attempt, seen, answer, lost>>

\* createReplacement's catch: an action that mentions its key counts as its own.
SalvageReplacement(c) ==
  LET found == ReplacementRecords(req[c].key) IN
  /\ pc[c] = "salvage"
  /\ IF found # {} THEN \E a \in found : Finish(c, TRUE, a)
                   ELSE Finish(c, FALSE, None)
  /\ UNCHANGED <<tables, req, attempt, seen, answer, lost>>

\* Mutant: an error while recording reaches the retry policy.
RecordThrows(c) ==
  LET k == req[c].key IN
  /\ pc[c] = "record"
  /\ \/ /\ exec[k] = None
        /\ exec' = [exec EXCEPT ![k] = result[c]]
        /\ Proceed(c, result[c])
     \/ UNCHANGED <<exec, answer>> /\ Goto(c, "confirm")
  /\ UNCHANGED <<order, stock, refund, coupons, action, req, attempt, seen, result, lost>>

\* formatSuccess and formatError: the first record of a key stays, and an
\* error while recording is swallowed.
RecordExecution(c) ==
  LET k == req[c].key IN
  /\ pc[c] = "record"
  /\ \/ exec[k] = None /\ exec' = [exec EXCEPT ![k] = result[c]]
     \/ UNCHANGED exec
  /\ Proceed(c, result[c])
  /\ UNCHANGED <<order, stock, refund, coupons, action, req, attempt, seen, result, lost>>

\* A read outside the tool's try block fails, and the tool throws.
ReadThrows(c) ==
  /\ pc[c] \in {"check", "lookup", "read", "salvage"}
  /\ Goto(c, "confirm")
  /\ UNCHANGED <<tables, req, attempt, seen, result, answer, lost>>

\* recordVerification: an error is swallowed.
MarkVerified(a) ==
  \/ action' = [action EXCEPT ![a].verified = TRUE]
  \/ UNCHANGED action

\* verifyFirst finds the action done.
ConfirmDone(c) ==
  /\ pc[c] = "confirm"
  /\ \E a \in FoundRecords(req[c].key) :
       /\ GroundTruth(a)
       /\ MarkVerified(a)
       /\ result' = [result EXCEPT ![c] = [ok |-> TRUE, action |-> a]]
  /\ Goto(c, "verify")
  /\ UNCHANGED <<order, stock, refund, coupons, exec, req, attempt, seen, answer, lost>>

\* Mutant: the attempts are not counted.
RetryForever(c) ==
  /\ pc[c] = "confirm"
  /\ Goto(c, "check")
  /\ UNCHANGED <<tables, req, attempt, seen, result, answer, lost>>

\* verifyFirst does not, or fails itself: another attempt, or give up.
Retry(c) ==
  /\ pc[c] = "confirm"
  /\ IF attempt[c] < MaxAttempts
       THEN /\ attempt' = [attempt EXCEPT ![c] = attempt[c] + 1]
            /\ Goto(c, "check")
            /\ UNCHANGED answer
       ELSE Return(c, "FAILED") /\ UNCHANGED attempt
  /\ UNCHANGED <<tables, req, seen, result, lost>>

VerifyAction(c) ==
  /\ pc[c] = "verify"
  /\ \/ GroundTruth(result[c].action) /\ Goto(c, "verified")
     \/ /\ ~GroundTruth(result[c].action) \/ MayHaveMoved(result[c].action)
        /\ Goto(c, "refuted")
  /\ UNCHANGED <<tables, req, attempt, seen, result, answer, lost>>

\* recordVerification, and the executor's answer.
Conclude(c) ==
  /\ \/ /\ pc[c] = "verified"
        /\ MarkVerified(result[c].action)
        /\ Return(c, "EXECUTED")
     \/ /\ pc[c] = "refuted"
        /\ UNCHANGED action
        /\ Return(c, "VERIFICATION_FAILED")
  /\ UNCHANGED <<order, stock, refund, coupons, exec, req, attempt, seen, result, lost>>

\* A read of verifyAction fails, and execute rejects.
VerifyThrows(c) ==
  /\ pc[c] = "verify"
  /\ Return(c, "ERROR")
  /\ UNCHANGED <<tables, req, attempt, seen, result, lost>>

\* The process dies: the call never answers.
Crash(c) ==
  /\ pc[c] \notin {"idle", "ended"}
  /\ Goto(c, "ended")
  /\ UNCHANGED <<tables, req, attempt, seen, result, answer, lost>>

Tool(c) ==
  \/ CheckIdempotency(c) \/ LookupRefund(c) \/ ReadTables(c)
  \/ CommitRefund(c) \/ DuplicateRefund(c) \/ CommitReplacement(c)
  \/ CommitCancellation(c) \/ CommitCoupon(c) \/ CommitEscalation(c)
  \/ RollBack(c) \/ SalvageReplacement(c) \/ RecordExecution(c) \/ ReadThrows(c)

Executor(c) ==
  \/ ConfirmDone(c) \/ Retry(c) \/ VerifyAction(c) \/ Conclude(c) \/ VerifyThrows(c)

Done == \A c \in Call : pc[c] = "ended"
Finished == Done /\ UNCHANGED vars

Next ==
  \/ \E c \in Call : Begin(c) \/ Tool(c) \/ Executor(c) \/ Crash(c)
  \/ Finished

Spec == Init /\ [][Next]_vars

\* Awaits return: a call that has begun goes on.
Fairness == \A c \in Call : WF_vars(Tool(c) \/ Executor(c))
FairSpec == Spec /\ Fairness

-----------------------------------------------------------------------------
(* Properties. *)

\* Every table and local has the shape the schema and the code give it; the
\* stock in particular is never written below zero.
ActionTypeOK ==
  /\ order \in [Order -> OrderRow]
  /\ stock \in Nat
  /\ refund \in [Key -> RefundRow \cup {None}]
  /\ coupons \subseteq Code
  /\ action \in [Attempt -> ActionRow \cup {None}]
  /\ exec \in [Key -> ToolResult \cup {None}]
  /\ pc \in [Call -> Stage]
  /\ req \in [Call -> Request \cup {None}]
  /\ attempt \in [Call -> 0..MaxAttempts]
  /\ seen \in [Call -> Nat]
  /\ result \in [Call -> ToolResult]
  /\ answer \in [Call -> Answer \cup {None}]
  /\ lost \subseteq Call

\* The refund ledger and the audit agree, through crashes, retries and calls
\* that race with one key: every RefundTransaction has the ActionRecord of the
\* attempt that made it, and every REFUND record the one transaction of its key,
\* so no key is refunded twice and no refund is unaccounted for.
RefundBooked ==
  /\ \A k \in Key : refund[k] # None =>
       LET a == action[refund[k].by] IN
       a # None /\ a.type = "REFUND" /\ a.key = k /\ a.order = refund[k].order
  /\ \A a \in Attempt : action[a] # None /\ action[a].type = "REFUND" =>
       refund[action[a].key] # None /\ refund[action[a].key].by = a

\* A caller told FAILED may try something else instead: nothing was changed on
\* its behalf, unless the database did not acknowledge a commit.
FailedChangedNothing ==
  \A a \in Attempt : answer[a[1]] = "FAILED" /\ action[a] # None => a[1] \in lost

\* A caller told EXECUTED is told of an action that was committed under its own
\* key (or one that contains it), also when another call did it, the answer
\* comes from a ToolExecution, or a crash came between.
ExecutedIsCommitted ==
  \A c \in Call : answer[c] = "EXECUTED" =>
    result[c].action \in Attempt /\ Mentions(result[c].action, req[c].key)

\* Every call that begins ends: the attempts are bounded and nothing waits for
\* another call.
CallsEnd == \A c \in Call : pc[c] # "idle" ~> pc[c] = "ended"

\* The refund tool implements the ledger that performs each key once.  A refund
\* is confirmed by a record its key leads to: of its own key, or of one that
\* contains it, as the key K of a run is contained in that of its replan.
Ledger == INSTANCE OnceLedger WITH
  Nobody <- None,
  Vouches <- KeyPrefixes,
  ledger <- [k \in Key |-> IF refund[k] = None THEN None ELSE refund[k].by],
  other  <- [a \in Attempt |->
               IF action[a] # None /\ action[a].type # "REFUND" THEN action[a].key
                                                              ELSE None],
  told   <- [c \in Call |->
               IF answer[c] = "EXECUTED" /\ req[c].type = "REFUND"
                 THEN <<req[c].key, result[c].action>>
                 ELSE None]

ImplementsOnceLedger == Ledger!Spec
=============================================================================
