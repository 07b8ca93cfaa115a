------------------------ MODULE ActionExecutionProofs ------------------------
(***************************************************************************)
(* Proofs about ActionExecution: for any calls, keys, orders and requests, *)
(* any number of attempts and any failures.                                *)
(***************************************************************************)
EXTENDS ActionExecution, TLAPS

-----------------------------------------------------------------------------
(* The inductive invariant. *)

\* What a call's stage says of its locals.
Begun ==
  \A c \in Call :
    /\ pc[c] = "idle" <=> attempt[c] = 0
    /\ pc[c] = "idle" => req[c] = None
    /\ pc[c] # "idle" => req[c] \in Request
    /\ pc[c] # "ended" => answer[c] = None
    /\ pc[c] = "commit" /\ req[c].type = "REPLACEMENT" => seen[c] > 0

\* An attempt that has not committed has no ActionRecord.
Unspent ==
  \A c \in Call, n \in 1..MaxAttempts :
    n > attempt[c] \/ (n = attempt[c] /\ pc[c] \in {"check", "lookup", "read", "commit"})
      => action[<<c, n>>] = None

\* A record is of a kind and has a key that some caller asked for together.
FromRequest ==
  \A a \in Attempt : action[a] # None =>
    \E r \in Request : r.type = action[a].type /\ r.key = action[a].key

\* A success that a call or a ToolExecution holds names a committed action.
Names(r, k) == r.ok => r.action \in Attempt /\ Mentions(r.action, k)

BackedCall(c) ==
  /\ Names(result[c], req[c].key)
  /\ pc[c] \in {"verify", "verified", "refuted"} => result[c].ok
  /\ answer[c] = "EXECUTED" => result[c].ok
  /\ pc[c] = "idle" => ~result[c].ok

Backed ==
  /\ \A c \in Call : BackedCall(c)
  /\ \A k \in Key : exec[k] # None => Names(exec[k], k)

\* Where the call of a committed attempt can be.
Accounted ==
  \A a \in Attempt : action[a] # None =>
    \/ a[1] \in lost
    \/ pc[a[1]] \in {"record", "verify", "verified", "refuted"} /\ result[a[1]].ok
    \/ pc[a[1]] = "ended" /\ answer[a[1]] # "FAILED"

Typed == ActionTypeOK /\ Begun

IInv == Typed /\ Unspent /\ FromRequest /\ Backed /\ RefundBooked /\ Accounted

\* What a call that has begun works with.
LEMMA CallFacts ==
  ASSUME Typed, NEW c \in Call, pc[c] # "idle"
  PROVE  /\ req[c] \in Request
         /\ req[c].type \in ActionType
         /\ req[c].key \in Key
         /\ req[c].order \in Order
         /\ req[c].amount \in Nat
         /\ req[c].code \in Code
         /\ attempt[c] \in 1..MaxAttempts
         /\ Own(c) \in Attempt
  BY RequestAssumption, AmountAssumption
     DEF Typed, ActionTypeOK, Begun, RequestType, Own, Attempt

\* A call that has not ended has not answered.
LEMMA PendingAnswer ==
  ASSUME Typed, NEW c \in Call, pc[c] # "ended"
  PROVE  answer[c] = None /\ answer[c] # "EXECUTED" /\ answer[c] # "FAILED"
<1>1. answer[c] = None
  BY DEF Typed, Begun
<1>. QED BY <1>1, NoneAssumption DEF Answer

LEMMA FinishTyped ==
  ASSUME Typed, NEW c \in Call, NEW ok \in BOOLEAN, NEW a \in Attempt \cup {None},
         Finish(c, ok, a)
  PROVE  result' \in [Call -> ToolResult]
<1>1. [ok |-> ok, action |-> a] \in ToolResult
  BY DEF ToolResult
<1>. QED BY <1>1 DEF Finish, Typed, ActionTypeOK

LEMMA MarkTyped ==
  ASSUME Typed, NEW a \in Attempt, action[a] # None, MarkVerified(a)
  PROVE  action' \in [Attempt -> ActionRow \cup {None}]
<1>1. action[a] \in ActionRow
  BY DEF Typed, ActionTypeOK
<1>2. [action[a] EXCEPT !.verified = TRUE] \in ActionRow
  BY <1>1 DEF ActionRow
<1>. QED BY <1>1, <1>2 DEF MarkVerified, Typed, ActionTypeOK

\* verifyFirst looks only at actions that were committed.
LEMMA FoundCommitted ==
  ASSUME IInv, NEW k \in Key, NEW a \in FoundRecords(k)
  PROVE  a \in Attempt /\ action[a] # None /\ Mentions(a, k)
<1>1. CASE refund[k] = None
  BY <1>1 DEF FoundRecords, Mentions
<1>2. CASE refund[k] # None
  <2>1. refund[k].by \in Attempt
    BY <1>2 DEF IInv, Typed, ActionTypeOK, RefundRow
  <2>. QED BY <1>2, <2>1 DEF FoundRecords, Mentions, IInv, RefundBooked
<1>. QED BY <1>1, <1>2

\* Types and stages are kept.
LEMMA StepTyped ==
  ASSUME IInv, [Next]_vars
  PROVE  Typed'
<1>. USE RequestAssumption, AmountAssumption, NoneAssumption
<1>1. ASSUME UNCHANGED vars PROVE Typed'
  BY <1>1 DEF IInv, Typed, ActionTypeOK, Begun, vars, tables, locals
<1>2. ASSUME NEW c \in Call, Begin(c) PROVE Typed'
  <2>1. PICK r \in Request :
          /\ req' = [req EXCEPT ![c] = r]
          /\ IF Withheld(r) THEN Return(c, "WITHHELD")
                            ELSE Goto(c, "check") /\ UNCHANGED answer
    BY <1>2 DEF Begin
  <2>2. (pc \in [Call -> Stage])' /\ (answer \in [Call -> Answer \cup {None}])'
    BY <2>1 DEF IInv, Typed, ActionTypeOK, Goto, Return, Stage, Answer
  <2>3. (req \in [Call -> Request \cup {None}])' /\ (attempt \in [Call -> 0..MaxAttempts])'
    BY <1>2, <2>1 DEF Begin, IInv, Typed, ActionTypeOK
  <2>4. ActionTypeOK'
    BY <1>2, <2>2, <2>3 DEF Begin, IInv, Typed, ActionTypeOK, tables
  <2>5. Begun'
    BY <1>2, <2>1 DEF Begin, IInv, Typed, Begun, ActionTypeOK, Goto, Return, tables
  <2>. QED BY <2>4, <2>5 DEF Typed
<1>3. ASSUME NEW c \in Call, CheckIdempotency(c) PROVE Typed'
  <2>1. pc[c] # "idle"
    BY <1>3 DEF CheckIdempotency
  <2>2. ActionTypeOK'
    <3>1. (pc \in [Call -> Stage])'
      BY <1>3, <2>1, CallFacts DEF IInv, Typed, ActionTypeOK, CheckIdempotency, Goto,
         Return, Finish, Proceed, Committed, Stage
    <3>2. (result \in [Call -> ToolResult])'
      BY <1>3, <2>1, CallFacts DEF IInv, Typed, ActionTypeOK, CheckIdempotency,
         Finish, Committed, ToolResult
    <3>3. (answer \in [Call -> Answer \cup {None}])'
      BY <1>3, <2>1, CallFacts DEF IInv, Typed, ActionTypeOK, CheckIdempotency,
         Return, Finish, Proceed, Committed, Answer
    <3>. QED
      BY <1>3, <3>1, <3>2, <3>3 DEF CheckIdempotency, IInv, Typed, ActionTypeOK,
         tables, locals, Goto, Return, Finish, Proceed, Committed, Own
  <2>3. Begun'
    BY <1>3, <2>1, CallFacts DEF CheckIdempotency, IInv, Typed, Begun, ActionTypeOK,
       tables, Goto, Return, Finish, Proceed, Committed, Own
  <2>. QED BY <2>2, <2>3 DEF Typed
<1>4. ASSUME NEW c \in Call, LookupRefund(c) PROVE Typed'
  <2>1. pc[c] # "idle"
    BY <1>4 DEF LookupRefund
  <2>2. ActionTypeOK'
    <3>1. (pc \in [Call -> Stage])'
      BY <1>4, <2>1, CallFacts DEF IInv, Typed, ActionTypeOK, LookupRefund, Goto,
         Return, Finish, Proceed, Committed, Stage
    <3>2. (result \in [Call -> ToolResult])'
      BY <1>4, <2>1, CallFacts, FinishTyped DEF IInv, LookupRefund, RefundRecords,
         Typed, ActionTypeOK
    <3>. QED
      BY <1>4, <3>1, <3>2 DEF LookupRefund, IInv, Typed, ActionTypeOK, tables, locals,
         Goto, Return, Finish, Proceed, Committed, Own
  <2>3. Begun'
    BY <1>4, <2>1, CallFacts DEF LookupRefund, IInv, Typed, Begun, ActionTypeOK,
       tables, Goto, Return, Finish, Proceed, Committed, Own
  <2>. QED BY <2>2, <2>3 DEF Typed
<1>5. ASSUME NEW c \in Call, ReadTables(c) PROVE Typed'
  <2>1. pc[c] # "idle"
    BY <1>5 DEF ReadTables
  <2>2. ActionTypeOK'
    <3>1. (pc \in [Call -> Stage])'
      BY <1>5, <2>1, CallFacts DEF IInv, Typed, ActionTypeOK, ReadTables, Goto,
         Return, Finish, Proceed, Committed, Stage
    <3>2. (seen \in [Call -> Nat])'
      BY <1>5, <2>1, CallFacts DEF IInv, Typed, ActionTypeOK, ReadTables
    <3>3. (result \in [Call -> ToolResult])'
      BY <1>5, <2>1, CallFacts, FinishTyped DEF IInv, ReadTables, Typed, ActionTypeOK
    <3>. QED
      BY <1>5, <3>1, <3>2, <3>3 DEF ReadTables, IInv, Typed, ActionTypeOK, tables,
         locals, Goto, Return, Finish, Proceed, Committed, Own
  <2>3. Begun'
    BY <1>5, <2>1, CallFacts DEF ReadTables, IInv, Typed, Begun, ActionTypeOK, tables,
       Goto, Return, Finish, Proceed, Committed, Own, Eligible
  <2>. QED BY <2>2, <2>3 DEF Typed
<1>6. ASSUME NEW c \in Call, CommitRefund(c) PROVE Typed'
  <2>1. pc[c] # "idle"
    BY <1>6 DEF CommitRefund
  <2>2. ActionTypeOK'
    <3>1. (pc \in [Call -> Stage])'
      BY <1>6, <2>1, CallFacts DEF IInv, Typed, ActionTypeOK, CommitRefund, Goto,
         Return, Finish, Proceed, Committed, Stage
    <3>2. (refund \in [Key -> RefundRow \cup {None}])'
      BY <1>6, <2>1, CallFacts DEF IInv, Typed, ActionTypeOK, CommitRefund, RefundRow
    <3>3. (order \in [Order -> OrderRow])'
      BY <1>6, <2>1, CallFacts DEF IInv, Typed, ActionTypeOK, CommitRefund, OrderRow
    <3>4. (action \in [Attempt -> ActionRow \cup {None}])'
      BY <1>6, <2>1, CallFacts DEF IInv, Typed, ActionTypeOK, CommitRefund,
         CreateAction, ActionRow, MarkVerified
    <3>5. (lost \subseteq Call)'
      BY <1>6, <2>1, CallFacts DEF IInv, Typed, ActionTypeOK, CommitRefund, Committed
    <3>6. (result \in [Call -> ToolResult])'
      BY <1>6, <2>1, CallFacts, FinishTyped DEF IInv, CommitRefund, Typed,
         ActionTypeOK, Committed
    <3>. QED
      BY <1>6, <3>1, <3>2, <3>3, <3>4, <3>5, <3>6 DEF CommitRefund, IInv, Typed,
         ActionTypeOK, tables, locals, Goto, Return, Finish, Proceed, Committed, Own
  <2>3. Begun'
    BY <1>6, <2>1, CallFacts DEF CommitRefund, IInv, Typed, Begun, ActionTypeOK,
       tables, Goto, Return, Finish, Proceed, Committed, Own
  <2>. QED BY <2>2, <2>3 DEF Typed
<1>7. ASSUME NEW c \in Call, DuplicateRefund(c) PROVE Typed'
  <2>1. pc[c] # "idle"
    BY <1>7 DEF DuplicateRefund
  <2>2. ActionTypeOK'
    <3>1. (pc \in [Call -> Stage])'
      BY <1>7, <2>1, CallFacts DEF IInv, Typed, ActionTypeOK, DuplicateRefund, Goto,
         Return, Finish, Proceed, Committed, Stage
    <3>. QED
      BY <1>7, <3>1 DEF DuplicateRefund, IInv, Typed, ActionTypeOK, tables, locals,
         Goto, Return, Finish, Proceed, Committed, Own
  <2>3. Begun'
    BY <1>7, <2>1, CallFacts DEF DuplicateRefund, IInv, Typed, Begun, ActionTypeOK,
       tables, Goto, Return, Finish, Proceed, Committed, Own
  <2>. QED BY <2>2, <2>3 DEF Typed
<1>8. ASSUME NEW c \in Call, CommitReplacement(c) PROVE Typed'
  <2>1. pc[c] # "idle"
    BY <1>8 DEF CommitReplacement
  <2>2. ActionTypeOK'
    <3>1. (pc \in [Call -> Stage])'
      BY <1>8, <2>1, CallFacts DEF IInv, Typed, ActionTypeOK, CommitReplacement, Goto,
         Return, Finish, Proceed, Committed, Stage
    <3>2. (stock \in Nat)'
      BY <1>8, <2>1, CallFacts DEF IInv, Typed, ActionTypeOK, CommitReplacement,
         Begun, ActionTypeOK
    <3>3. (action \in [Attempt -> ActionRow \cup {None}])'
      BY <1>8, <2>1, CallFacts DEF IInv, Typed, ActionTypeOK, CommitReplacement,
         CreateAction, ActionRow, MarkVerified
    <3>4. (lost \subseteq Call)'
      BY <1>8, <2>1, CallFacts DEF IInv, Typed, ActionTypeOK, CommitReplacement, Committed
    <3>5. (result \in [Call -> ToolResult])'
      BY <1>8, <2>1, CallFacts, FinishTyped DEF IInv, CommitReplacement, Typed,
         ActionTypeOK, Committed
    <3>. QED
      BY <1>8, <3>1, <3>2, <3>3, <3>4, <3>5 DEF CommitReplacement, IInv, Typed,
         ActionTypeOK, tables, locals, Goto, Return, Finish, Proceed, Committed, Own
  <2>3. Begun'
    BY <1>8, <2>1, CallFacts DEF CommitReplacement, IInv, Typed, Begun, ActionTypeOK,
       tables, Goto, Return, Finish, Proceed, Committed, Own
  <2>. QED BY <2>2, <2>3 DEF Typed
<1>9. ASSUME NEW c \in Call, CommitCancellation(c) PROVE Typed'
  <2>1. pc[c] # "idle"
    BY <1>9 DEF CommitCancellation
  <2>2. ActionTypeOK'
    <3>1. (pc \in [Call -> Stage])'
      BY <1>9, <2>1, CallFacts DEF IInv, Typed, ActionTypeOK, CommitCancellation,
         Goto, Return, Finish, Proceed, Committed, Stage
    <3>2. (order \in [Order -> OrderRow])'
      BY <1>9, <2>1, CallFacts DEF IInv, Typed, ActionTypeOK, CommitCancellation, OrderRow
    <3>3. (action \in [Attempt -> ActionRow \cup {None}])'
      BY <1>9, <2>1, CallFacts DEF IInv, Typed, ActionTypeOK, CommitCancellation,
         CreateAction, ActionRow, MarkVerified
    <3>4. (lost \subseteq Call)'
      BY <1>9, <2>1, CallFacts DEF IInv, Typed, ActionTypeOK, CommitCancellation,
         Committed
    <3>5. (result \in [Call -> ToolResult])'
      BY <1>9, <2>1, CallFacts, FinishTyped DEF IInv, CommitCancellation, Typed,
         ActionTypeOK, Committed
    <3>. QED
      BY <1>9, <3>1, <3>2, <3>3, <3>4, <3>5 DEF CommitCancellation, IInv, Typed,
         ActionTypeOK, tables, locals, Goto, Return, Finish, Proceed, Committed, Own
  <2>3. Begun'
    BY <1>9, <2>1, CallFacts DEF CommitCancellation, IInv, Typed, Begun, ActionTypeOK,
       tables, Goto, Return, Finish, Proceed, Committed, Own
  <2>. QED BY <2>2, <2>3 DEF Typed
<1>10. ASSUME NEW c \in Call, CommitCoupon(c) PROVE Typed'
  <2>1. pc[c] # "idle"
    BY <1>10 DEF CommitCoupon
  <2>2. ActionTypeOK'
    <3>1. (pc \in [Call -> Stage])'
      BY <1>10, <2>1, CallFacts DEF IInv, Typed, ActionTypeOK, CommitCoupon, Goto,
         Return, Finish, Proceed, Committed, Stage
    <3>2. (coupons \subseteq Code)'
      BY <1>10, <2>1, CallFacts DEF IInv, Typed, ActionTypeOK, CommitCoupon
    <3>3. (action \in [Attempt -> ActionRow \cup {None}])'
      BY <1>10, <2>1, CallFacts DEF IInv, Typed, ActionTypeOK, CommitCoupon,
         CreateAction, ActionRow, MarkVerified
    <3>4. (lost \subseteq Call)'
      BY <1>10, <2>1, CallFacts DEF IInv, Typed, ActionTypeOK, CommitCoupon, Committed
    <3>5. (result \in [Call -> ToolResult])'
      BY <1>10, <2>1, CallFacts, FinishTyped DEF IInv, CommitCoupon, Typed,
         ActionTypeOK, Committed
    <3>. QED
      BY <1>10, <3>1, <3>2, <3>3, <3>4, <3>5 DEF CommitCoupon, IInv, Typed,
         ActionTypeOK, tables, locals, Goto, Return, Finish, Proceed, Committed, Own
  <2>3. Begun'
    BY <1>10, <2>1, CallFacts DEF CommitCoupon, IInv, Typed, Begun, ActionTypeOK,
       tables, Goto, Return, Finish, Proceed, Committed, Own
  <2>. QED BY <2>2, <2>3 DEF Typed
<1>11. ASSUME NEW c \in Call, CommitEscalation(c) PROVE Typed'
  <2>1. pc[c] # "idle"
    BY <1>11 DEF CommitEscalation
  <2>2. ActionTypeOK'
    <3>1. (pc \in [Call -> Stage])'
      BY <1>11, <2>1, CallFacts DEF IInv, Typed, ActionTypeOK, CommitEscalation, Goto,
         Return, Finish, Proceed, Committed, Stage
    <3>2. (action \in [Attempt -> ActionRow \cup {None}])'
      BY <1>11, <2>1, CallFacts DEF IInv, Typed, ActionTypeOK, CommitEscalation,
         CreateAction, ActionRow, MarkVerified
    <3>3. (lost \subseteq Call)'
      BY <1>11, <2>1, CallFacts DEF IInv, Typed, ActionTypeOK, CommitEscalation, Committed
    <3>4. (result \in [Call -> ToolResult])'
      BY <1>11, <2>1, CallFacts, FinishTyped DEF IInv, CommitEscalation, Typed,
         ActionTypeOK, Committed
    <3>. QED
      BY <1>11, <3>1, <3>2, <3>3, <3>4 DEF CommitEscalation, IInv, Typed,
         ActionTypeOK, tables, locals, Goto, Return, Finish, Proceed, Committed, Own
  <2>3. Begun'
    BY <1>11, <2>1, CallFacts DEF CommitEscalation, IInv, Typed, Begun, ActionTypeOK,
       tables, Goto, Return, Finish, Proceed, Committed, Own
  <2>. QED BY <2>2, <2>3 DEF Typed
<1>12. ASSUME NEW c \in Call, RollBack(c) PROVE Typed'
  <2>1. pc[c] # "idle"
    BY <1>12 DEF RollBack
  <2>2. ActionTypeOK'
    <3>1. (pc \in [Call -> Stage])'
      BY <1>12, <2>1, CallFacts DEF IInv, Typed, ActionTypeOK, RollBack, Goto, Return,
         Finish, Proceed, Committed, Stage
    <3>2. (result \in [Call -> ToolResult])'
      BY <1>12, <2>1, CallFacts, FinishTyped DEF IInv, RollBack, Typed, ActionTypeOK
    <3>. QED
      BY <1>12, <3>1, <3>2 DEF RollBack, IInv, Typed, ActionTypeOK, tables, locals,
         Goto, Return, Finish, Proceed, Committed, Own
  <2>3. Begun'
    BY <1>12, <2>1, CallFacts DEF RollBack, IInv, Typed, Begun, ActionTypeOK, tables,
       Goto, Return, Finish, Proceed, Committed, Own
  <2>. QED BY <2>2, <2>3 DEF Typed
<1>13. ASSUME NEW c \in Call, SalvageReplacement(c) PROVE Typed'
  <2>1. pc[c] # "idle"
    BY <1>13 DEF SalvageReplacement
  <2>2. ActionTypeOK'
    <3>1. (pc \in [Call -> Stage])'
      BY <1>13, <2>1, CallFacts DEF IInv, Typed, ActionTypeOK, SalvageReplacement,
         Goto, Return, Finish, Proceed, Committed, Stage
    <3>2. (result \in [Call -> ToolResult])'
      BY <1>13, <2>1, CallFacts, FinishTyped DEF IInv, SalvageReplacement,
         ReplacementRecords, Typed, ActionTypeOK
    <3>. QED
      BY <1>13, <3>1, <3>2 DEF SalvageReplacement, IInv, Typed, ActionTypeOK, tables,
         locals, Goto, Return, Finish, Proceed, Committed, Own
  <2>3. Begun'
    BY <1>13, <2>1, CallFacts DEF SalvageReplacement, IInv, Typed, Begun,
       ActionTypeOK, tables, Goto, Return, Finish, Proceed, Committed, Own
  <2>. QED BY <2>2, <2>3 DEF Typed
<1>14. ASSUME NEW c \in Call, RecordExecution(c) PROVE Typed'
  <2>1. pc[c] # "idle"
    BY <1>14 DEF RecordExecution
  <2>2. ActionTypeOK'
    <3>1. (pc \in [Call -> Stage])'
      BY <1>14, <2>1, CallFacts DEF IInv, Typed, ActionTypeOK, RecordExecution, Goto,
         Return, Finish, Proceed, Committed, Stage
    <3>2. (exec \in [Key -> ToolResult \cup {None}])'
      BY <1>14, <2>1, CallFacts DEF IInv, Typed, ActionTypeOK, RecordExecution
    <3>3. (answer \in [Call -> Answer \cup {None}])'
      BY <1>14, <2>1, CallFacts DEF IInv, Typed, ActionTypeOK, RecordExecution,
         Return, Finish, Proceed, Committed, Answer
    <3>. QED
      BY <1>14, <3>1, <3>2, <3>3 DEF RecordExecution, IInv, Typed, ActionTypeOK,
         tables, locals, Goto, Return, Finish, Proceed, Committed, Own
  <2>3. Begun'
    BY <1>14, <2>1, CallFacts DEF RecordExecution, IInv, Typed, Begun, ActionTypeOK,
       tables, Goto, Return, Finish, Proceed, Committed, Own
  <2>. QED BY <2>2, <2>3 DEF Typed
<1>15. ASSUME NEW c \in Call, ReadThrows(c) PROVE Typed'
  <2>1. pc[c] # "idle"
    BY <1>15 DEF ReadThrows
  <2>2. ActionTypeOK'
    <3>1. (pc \in [Call -> Stage])'
      BY <1>15, <2>1, CallFacts DEF IInv, Typed, ActionTypeOK, ReadThrows, Goto,
         Return, Finish, Proceed, Committed, Stage
    <3>. QED
      BY <1>15, <3>1 DEF ReadThrows, IInv, Typed, ActionTypeOK, tables, locals, Goto,
         Return, Finish, Proceed, Committed, Own
  <2>3. Begun'
    BY <1>15, <2>1, CallFacts DEF ReadThrows, IInv, Typed, Begun, ActionTypeOK,
       tables, Goto, Return, Finish, Proceed, Committed, Own
  <2>. QED BY <2>2, <2>3 DEF Typed
<1>16. ASSUME NEW c \in Call, ConfirmDone(c) PROVE Typed'
  <2>1. pc[c] # "idle"
    BY <1>16 DEF ConfirmDone
  <2>2. ActionTypeOK'
    <3>1. (pc \in [Call -> Stage])'
      BY <1>16, <2>1, CallFacts DEF IInv, Typed, ActionTypeOK, ConfirmDone, Goto,
         Return, Finish, Proceed, Committed, Stage
    <3>2. (action \in [Attempt -> ActionRow \cup {None}])'
      BY <1>16, <2>1, CallFacts, FoundCommitted, MarkTyped DEF IInv, ConfirmDone
    <3>3. (result \in [Call -> ToolResult])'
      <4>1. PICK x \in FoundRecords(req[c].key) :
              result' = [result EXCEPT ![c] = [ok |-> TRUE, action |-> x]]
        BY <1>16 DEF ConfirmDone
      <4>2. [ok |-> TRUE, action |-> x] \in ToolResult
        BY <2>1, CallFacts, FoundCommitted DEF ToolResult, IInv
      <4>. QED BY <4>1, <4>2 DEF IInv, Typed, ActionTypeOK
    <3>. QED
      BY <1>16, <3>1, <3>2, <3>3 DEF ConfirmDone, IInv, Typed, ActionTypeOK, tables,
         locals, Goto, Return, Finish, Proceed, Committed, Own
  <2>3. Begun'
    BY <1>16, <2>1, CallFacts DEF ConfirmDone, IInv, Typed, Begun, ActionTypeOK,
       tables, Goto, Return, Finish, Proceed, Committed, Own
  <2>. QED BY <2>2, <2>3 DEF Typed
<1>17. ASSUME NEW c \in Call, Retry(c) PROVE Typed'
  <2>1. pc[c] # "idle"
    BY <1>17 DEF Retry
  <2>2. ActionTypeOK'
    <3>1. (pc \in [Call -> Stage])'
      BY <1>17, <2>1, CallFacts DEF IInv, Typed, ActionTypeOK, Retry, Goto, Return,
         Finish, Proceed, Committed, Stage
    <3>2. (attempt \in [Call -> 0..MaxAttempts])'
      BY <1>17, <2>1, CallFacts DEF IInv, Typed, ActionTypeOK, Retry
    <3>3. (answer \in [Call -> Answer \cup {None}])'
      BY <1>17, <2>1, CallFacts DEF IInv, Typed, ActionTypeOK, Retry, Return, Finish,
         Proceed, Committed, Answer
    <3>. QED
      BY <1>17, <3>1, <3>2, <3>3 DEF Retry, IInv, Typed, ActionTypeOK, tables, locals,
         Goto, Return, Finish, Proceed, Committed, Own
  <2>3. Begun'
    BY <1>17, <2>1, CallFacts DEF Retry, IInv, Typed, Begun, ActionTypeOK, tables,
       Goto, Return, Finish, Proceed, Committed, Own
  <2>. QED BY <2>2, <2>3 DEF Typed
<1>18. ASSUME NEW c \in Call, VerifyAction(c) PROVE Typed'
  <2>1. pc[c] # "idle"
    BY <1>18 DEF VerifyAction
  <2>2. ActionTypeOK'
    <3>1. (pc \in [Call -> Stage])'
      BY <1>18, <2>1, CallFacts DEF IInv, Typed, ActionTypeOK, VerifyAction, Goto,
         Return, Finish, Proceed, Committed, Stage
    <3>. QED
      BY <1>18, <3>1 DEF VerifyAction, IInv, Typed, ActionTypeOK, tables, locals,
         Goto, Return, Finish, Proceed, Committed, Own
  <2>3. Begun'
    BY <1>18, <2>1, CallFacts DEF VerifyAction, IInv, Typed, Begun, ActionTypeOK,
       tables, Goto, Return, Finish, Proceed, Committed, Own
  <2>. QED BY <2>2, <2>3 DEF Typed
<1>19. ASSUME NEW c \in Call, Conclude(c) PROVE Typed'
  <2>1. pc[c] # "idle"
    BY <1>19 DEF Conclude
  <2>2. ActionTypeOK'
    <3>1. (pc \in [Call -> Stage])'
      BY <1>19, <2>1, CallFacts DEF IInv, Typed, ActionTypeOK, Conclude, Goto, Return,
         Finish, Proceed, Committed, Stage
    <3>2. (action \in [Attempt -> ActionRow \cup {None}])'
      BY <1>19, MarkTyped DEF IInv, Typed, ActionTypeOK, Backed, BackedCall, Names,
         Mentions, Conclude
    <3>3. (answer \in [Call -> Answer \cup {None}])'
      BY <1>19, <2>1, CallFacts DEF IInv, Typed, ActionTypeOK, Conclude, Return,
         Finish, Proceed, Committed, Answer
    <3>. QED
      BY <1>19, <3>1, <3>2, <3>3 DEF Conclude, IInv, Typed, ActionTypeOK, tables,
         locals, Goto, Return, Finish, Proceed, Committed, Own
  <2>3. Begun'
    BY <1>19, <2>1, CallFacts DEF Conclude, IInv, Typed, Begun, ActionTypeOK, tables,
       Goto, Return, Finish, Proceed, Committed, Own
  <2>. QED BY <2>2, <2>3 DEF Typed
<1>20. ASSUME NEW c \in Call, VerifyThrows(c) PROVE Typed'
  <2>1. pc[c] # "idle"
    BY <1>20 DEF VerifyThrows
  <2>2. ActionTypeOK'
    <3>1. (pc \in [Call -> Stage])'
      BY <1>20, <2>1, CallFacts DEF IInv, Typed, ActionTypeOK, VerifyThrows, Goto,
         Return, Finish, Proceed, Committed, Stage
    <3>2. (answer \in [Call -> Answer \cup {None}])'
      BY <1>20, <2>1, CallFacts DEF IInv, Typed, ActionTypeOK, VerifyThrows, Return,
         Finish, Proceed, Committed, Answer
    <3>. QED
      BY <1>20, <3>1, <3>2 DEF VerifyThrows, IInv, Typed, ActionTypeOK, tables,
         locals, Goto, Return, Finish, Proceed, Committed, Own
  <2>3. Begun'
    BY <1>20, <2>1, CallFacts DEF VerifyThrows, IInv, Typed, Begun, ActionTypeOK,
       tables, Goto, Return, Finish, Proceed, Committed, Own
  <2>. QED BY <2>2, <2>3 DEF Typed
<1>21. ASSUME NEW c \in Call, Crash(c) PROVE Typed'
  <2>1. pc[c] # "idle"
    BY <1>21 DEF Crash
  <2>2. ActionTypeOK'
    <3>1. (pc \in [Call -> Stage])'
      BY <1>21, <2>1, CallFacts DEF IInv, Typed, ActionTypeOK, Crash, Goto, Return,
         Finish, Proceed, Committed, Stage
    <3>. QED
      BY <1>21, <3>1 DEF Crash, IInv, Typed, ActionTypeOK, tables, locals, Goto,
         Return, Finish, Proceed, Committed, Own
  <2>3. Begun'
    BY <1>21, <2>1, CallFacts DEF Crash, IInv, Typed, Begun, ActionTypeOK, tables,
       Goto, Return, Finish, Proceed, Committed, Own
  <2>. QED BY <2>2, <2>3 DEF Typed
<1>22. QED BY <1>1, <1>2, <1>3, <1>4, <1>5, <1>6, <1>7, <1>8, <1>9, <1>10, <1>11,
              <1>12, <1>13, <1>14, <1>15, <1>16, <1>17, <1>18, <1>19, <1>20, <1>21 DEF
              Next, Tool, Executor, Finished

-----------------------------------------------------------------------------
(* ActionRecords are only added and marked. *)

\* The transaction of an attempt creates the only record of that attempt.
LEMMA OwnFree ==
  ASSUME IInv, NEW c \in Call, pc[c] = "commit"
  PROVE  action[Own(c)] = None
<1>1. attempt[c] \in 1..MaxAttempts
  BY CallFacts DEF IInv
<1>. QED BY <1>1 DEF IInv, Unspent, Own

Kept ==
  \A a \in Attempt : action[a] # None =>
    /\ action'[a] # None
    /\ action'[a].type = action[a].type
    /\ action'[a].key = action[a].key
    /\ action'[a].order = action[a].order

\* Marking a record changes nothing else and creates none.
LEMMA MarkKeeps ==
  ASSUME IInv, NEW x \in Attempt, action[x] # None, MarkVerified(x)
  PROVE  Kept /\ \A a \in Attempt : action[a] = None => action'[a] = None
<1>1. action[x] \in ActionRow
  BY DEF IInv, Typed, ActionTypeOK
<1>2. /\ [action[x] EXCEPT !.verified = TRUE] \in ActionRow
      /\ [action[x] EXCEPT !.verified = TRUE] # None
  BY <1>1, NoneAssumption DEF ActionRow
<1>. QED BY <1>1, <1>2 DEF MarkVerified, Kept, ActionRow, IInv, Typed, ActionTypeOK

\* A result a call is about to verify is a committed action.
LEMMA ResultCommitted ==
  ASSUME IInv, NEW c \in Call, result[c].ok
  PROVE  result[c].action \in Attempt /\ action[result[c].action] # None
  BY DEF IInv, Backed, BackedCall, Names, Mentions

\* The transaction of a call creates one record, of the kind and under the key
\* it was asked for.
Creates(c) ==
  /\ Own(c) \in Attempt
  /\ req[c] \in Request
  /\ action[Own(c)] = None
  /\ action'[Own(c)] # None
  /\ action'[Own(c)].type = req[c].type
  /\ action'[Own(c)].key = req[c].key
  /\ action'[Own(c)].order = req[c].order
  /\ \A a \in Attempt : a # Own(c) => action'[a] = action[a]

LEMMA NewRecord ==
  ASSUME IInv, NEW c \in Call, pc[c] = "commit", CreateAction(c)
  PROVE  Creates(c)
<1>1. /\ Own(c) \in Attempt /\ req[c] \in Request
      /\ req[c].type \in ActionType /\ req[c].key \in Key /\ req[c].order \in Order
  BY CallFacts DEF IInv
<1>2. [type |-> req[c].type, key |-> req[c].key, order |-> req[c].order,
       verified |-> FALSE] \in ActionRow
  BY <1>1 DEF ActionRow
<1>3. action[Own(c)] = None
  BY OwnFree
<1>4. /\ action'[Own(c)] = [type |-> req[c].type, key |-> req[c].key,
                             order |-> req[c].order, verified |-> FALSE]
      /\ \A a \in Attempt : a # Own(c) => action'[a] = action[a]
  BY <1>1 DEF CreateAction, IInv, Typed, ActionTypeOK
<1>5. action'[Own(c)] # None
  BY <1>2, <1>4, NoneAssumption
<1>. QED BY <1>1, <1>3, <1>4, <1>5 DEF Creates

\* What a step does to the ActionRecords and the refund transactions.
Marks == Kept /\ \A a \in Attempt : action[a] = None => action'[a] = None

LEMMA TableStep ==
  ASSUME IInv, [Next]_vars
  PROVE  \/ UNCHANGED <<action, refund>>
         \/ Marks /\ UNCHANGED refund
         \/ \E c \in Call : Creates(c) /\ req[c].type # "REFUND" /\ UNCHANGED refund
         \/ \E c \in Call : Creates(c) /\ CommitRefund(c)
<1>. DEFINE Step == \/ UNCHANGED <<action, refund>>
                    \/ Marks /\ UNCHANGED refund
                    \/ \E c \in Call : Creates(c) /\ req[c].type # "REFUND" /\ UNCHANGED refund
                    \/ \E c \in Call : Creates(c) /\ CommitRefund(c)
<1>1. ASSUME UNCHANGED vars PROVE Step
  BY <1>1 DEF vars, tables
<1>2. ASSUME NEW c \in Call, Begin(c) PROVE Step
  BY <1>2 DEF Begin, tables
<1>3. ASSUME NEW c \in Call, CheckIdempotency(c) PROVE Step
  BY <1>3 DEF CheckIdempotency, tables
<1>4. ASSUME NEW c \in Call, LookupRefund(c) PROVE Step
  BY <1>4 DEF LookupRefund, tables
<1>5. ASSUME NEW c \in Call, ReadTables(c) PROVE Step
  BY <1>5 DEF ReadTables, tables
<1>6. ASSUME NEW c \in Call, CommitRefund(c) PROVE Step
  BY <1>6, NewRecord DEF CommitRefund
<1>7. ASSUME NEW c \in Call, DuplicateRefund(c) PROVE Step
  BY <1>7 DEF DuplicateRefund, tables
<1>8. ASSUME NEW c \in Call, CommitReplacement(c) PROVE Step
  BY <1>8, NewRecord DEF CommitReplacement
<1>9. ASSUME NEW c \in Call, CommitCancellation(c) PROVE Step
  BY <1>9, NewRecord DEF CommitCancellation
<1>10. ASSUME NEW c \in Call, CommitCoupon(c) PROVE Step
  BY <1>10, NewRecord DEF CommitCoupon
<1>11. ASSUME NEW c \in Call, CommitEscalation(c) PROVE Step
  BY <1>11, NewRecord DEF CommitEscalation
<1>12. ASSUME NEW c \in Call, RollBack(c) PROVE Step
  BY <1>12 DEF RollBack, tables
<1>13. ASSUME NEW c \in Call, SalvageReplacement(c) PROVE Step
  BY <1>13 DEF SalvageReplacement, tables
<1>14. ASSUME NEW c \in Call, RecordExecution(c) PROVE Step
  BY <1>14 DEF RecordExecution, tables
<1>15. ASSUME NEW c \in Call, ReadThrows(c) PROVE Step
  BY <1>15 DEF ReadThrows, tables
<1>16. ASSUME NEW c \in Call, ConfirmDone(c) PROVE Step
  <2>1. req[c].key \in Key
    BY <1>16, CallFacts DEF IInv, ConfirmDone
  <2>2. PICK a \in FoundRecords(req[c].key) : MarkVerified(a)
    BY <1>16 DEF ConfirmDone
  <2>3. a \in Attempt /\ action[a] # None
    BY <2>1, FoundCommitted
  <2>. QED BY <1>16, <2>2, <2>3, MarkKeeps DEF ConfirmDone, Marks
<1>17. ASSUME NEW c \in Call, Retry(c) PROVE Step
  BY <1>17 DEF Retry, tables
<1>18. ASSUME NEW c \in Call, VerifyAction(c) PROVE Step
  BY <1>18 DEF VerifyAction, tables
<1>19. ASSUME NEW c \in Call, Conclude(c) PROVE Step
  <2>1. CASE pc[c] = "verified" /\ MarkVerified(result[c].action)
    <3>1. result[c].ok
      BY <2>1 DEF IInv, Backed, BackedCall
    <3>. QED BY <1>19, <2>1, <3>1, ResultCommitted, MarkKeeps DEF Conclude, Marks
  <2>2. CASE UNCHANGED action
    BY <1>19, <2>2 DEF Conclude
  <2>. QED BY <1>19, <2>1, <2>2 DEF Conclude
<1>20. ASSUME NEW c \in Call, VerifyThrows(c) PROVE Step
  BY <1>20 DEF VerifyThrows, tables
<1>21. ASSUME NEW c \in Call, Crash(c) PROVE Step
  BY <1>21 DEF Crash, tables
<1>22. QED BY <1>1, <1>2, <1>3, <1>4, <1>5, <1>6, <1>7, <1>8, <1>9, <1>10, <1>11,
              <1>12, <1>13, <1>14, <1>15, <1>16, <1>17, <1>18, <1>19, <1>20, <1>21 DEF
              Next, Tool, Executor, Finished

\* No step removes an ActionRecord or changes what it is about.
LEMMA StepKeeps ==
  ASSUME IInv, [Next]_vars
  PROVE  Kept
<1>1. CASE UNCHANGED <<action, refund>>
  BY <1>1 DEF Kept
<1>2. CASE Marks
  BY <1>2 DEF Marks
<1>3. ASSUME NEW c \in Call, Creates(c) PROVE Kept
  BY <1>3 DEF Creates, Kept
<1>. QED BY <1>1, <1>2, <1>3, TableStep

\* Every ActionRecord stays traceable to a request.
LEMMA StepFromRequest ==
  ASSUME IInv, [Next]_vars
  PROVE  FromRequest'
<1>1. CASE UNCHANGED <<action, refund>>
  BY <1>1 DEF IInv, FromRequest
<1>2. CASE Marks
  BY <1>2 DEF Marks, Kept, IInv, FromRequest
<1>3. ASSUME NEW c \in Call, Creates(c) PROVE FromRequest'
  BY <1>3 DEF Creates, IInv, FromRequest
<1>. QED BY <1>1, <1>2, <1>3, TableStep

\* A refund's transaction adds the row of its key.
LEMMA RefundAdded ==
  ASSUME IInv, NEW c \in Call, CommitRefund(c)
  PROVE  /\ refund[req[c].key] = None
         /\ refund'[req[c].key] # None
         /\ refund'[req[c].key].by = Own(c)
         /\ refund'[req[c].key].order = req[c].order
         /\ \A k \in Key : k # req[c].key => refund'[k] = refund[k]
<1>1. /\ req[c].key \in Key /\ req[c].order \in Order /\ req[c].amount \in Nat
      /\ Own(c) \in Attempt
  BY CallFacts DEF IInv, CommitRefund
<1>2. [order |-> req[c].order, amount |-> req[c].amount, by |-> Own(c)] # None
  BY <1>1, NoneAssumption DEF RefundRow
<1>. QED BY <1>1, <1>2 DEF CommitRefund, IInv, Typed, ActionTypeOK

\* The refund ledger and the audit stay in agreement.
LEMMA StepRefundBooked ==
  ASSUME IInv, [Next]_vars
  PROVE  RefundBooked'
<1>. USE DEF RefundBooked
<1>1. CASE UNCHANGED <<action, refund>>
  BY <1>1 DEF IInv
<1>2. \A k \in Key : refund[k] # None => refund[k].by \in Attempt
  BY DEF IInv, Typed, ActionTypeOK, RefundRow
<1>3. CASE Marks /\ UNCHANGED refund
  BY <1>2, <1>3 DEF Marks, Kept, IInv
<1>4. ASSUME NEW c \in Call, Creates(c), req[c].type # "REFUND", UNCHANGED refund
      PROVE  RefundBooked'
  <2>1. \A k \in Key : refund[k] # None => refund[k].by # Own(c)
    BY <1>4 DEF Creates, IInv
  <2>. QED BY <1>2, <1>4, <2>1 DEF Creates, IInv
<1>5. ASSUME NEW c \in Call, Creates(c), CommitRefund(c)
      PROVE  RefundBooked'
  <2>1. /\ req[c].key \in Key /\ req[c].order \in Order /\ req[c].amount \in Nat
        /\ Own(c) \in Attempt /\ req[c].type = "REFUND"
    BY <1>5, CallFacts DEF IInv, CommitRefund
  <2>3. /\ refund[req[c].key] = None
        /\ refund'[req[c].key] # None
        /\ refund'[req[c].key].by = Own(c)
        /\ refund'[req[c].key].order = req[c].order
        /\ \A k \in Key : k # req[c].key => refund'[k] = refund[k]
    BY <1>5, RefundAdded
  <2>4. ASSUME NEW k \in Key, refund'[k] # None
        PROVE  LET a == action'[refund'[k].by] IN
               a # None /\ a.type = "REFUND" /\ a.key = k /\ a.order = refund'[k].order
    <3>1. CASE k = req[c].key
      BY <1>5, <2>1, <2>3, <3>1 DEF Creates
    <3>2. CASE k # req[c].key
      BY <1>2, <1>5, <2>3, <2>4, <3>2 DEF Creates, IInv
    <3>. QED BY <3>1, <3>2
  <2>5. ASSUME NEW a \in Attempt, action'[a] # None, action'[a].type = "REFUND"
        PROVE  refund'[action'[a].key] # None /\ refund'[action'[a].key].by = a
    <3>1. CASE a = Own(c)
      BY <1>5, <2>3, <3>1 DEF Creates
    <3>2. CASE a # Own(c)
      <4>1. action'[a] = action[a] /\ action[a].key \in Key
        BY <1>5, <2>5, <3>2 DEF Creates, IInv, Typed, ActionTypeOK, ActionRow
      <4>. QED BY <2>3, <2>5, <4>1 DEF IInv
    <3>. QED BY <3>1, <3>2
  <2>. QED BY <2>4, <2>5
<1>. QED BY <1>1, <1>3, <1>4, <1>5, TableStep

\* An attempt has no ActionRecord before its transaction commits.
LEMMA StepUnspent ==
  ASSUME IInv, [Next]_vars
  PROVE  Unspent'
<1>. USE RequestAssumption, AmountAssumption, NoneAssumption
<1>1. ASSUME UNCHANGED vars PROVE Unspent'
  BY <1>1 DEF IInv, Unspent, vars, tables, locals
<1>2. ASSUME NEW c \in Call, Begin(c) PROVE Unspent'
  BY <1>2 DEF Begin, Unspent, tables, locals, Goto, Return, Finish, Proceed, IInv,
     Typed, ActionTypeOK, Begun, Attempt
<1>3. ASSUME NEW c \in Call, CheckIdempotency(c) PROVE Unspent'
  BY <1>3 DEF CheckIdempotency, Unspent, tables, locals, Goto, Return, Finish,
     Proceed, IInv, Typed, ActionTypeOK, Begun, Attempt
<1>4. ASSUME NEW c \in Call, LookupRefund(c) PROVE Unspent'
  BY <1>4 DEF LookupRefund, Unspent, tables, locals, Goto, Return, Finish, Proceed,
     IInv, Typed, ActionTypeOK, Begun, Attempt
<1>5. ASSUME NEW c \in Call, ReadTables(c) PROVE Unspent'
  BY <1>5 DEF ReadTables, Unspent, tables, locals, Goto, Return, Finish, Proceed,
     IInv, Typed, ActionTypeOK, Begun, Attempt
<1>6. ASSUME NEW c \in Call, CommitRefund(c) PROVE Unspent'
  <2>1. Creates(c) /\ UNCHANGED attempt
    BY <1>6, NewRecord DEF CommitRefund
  <2>2. (pc \in [Call -> Stage])' /\ pc'[c] \in {"record", "salvage"}
        /\ \A d \in Call : d # c => pc'[d] = pc[d]
    BY <1>6 DEF CommitRefund, Committed, Finish, Goto, Stage, IInv, Typed, ActionTypeOK
  <2>. QED BY <2>1, <2>2 DEF Creates, Own, IInv, Unspent, Attempt
<1>7. ASSUME NEW c \in Call, DuplicateRefund(c) PROVE Unspent'
  BY <1>7 DEF DuplicateRefund, Unspent, tables, locals, Goto, Return, Finish, Proceed,
     IInv, Typed, ActionTypeOK, Begun, Attempt
<1>8. ASSUME NEW c \in Call, CommitReplacement(c) PROVE Unspent'
  <2>1. Creates(c) /\ UNCHANGED attempt
    BY <1>8, NewRecord DEF CommitReplacement
  <2>2. (pc \in [Call -> Stage])' /\ pc'[c] \in {"record", "salvage"}
        /\ \A d \in Call : d # c => pc'[d] = pc[d]
    BY <1>8 DEF CommitReplacement, Committed, Finish, Goto, Stage, IInv, Typed,
       ActionTypeOK
  <2>. QED BY <2>1, <2>2 DEF Creates, Own, IInv, Unspent, Attempt
<1>9. ASSUME NEW c \in Call, CommitCancellation(c) PROVE Unspent'
  <2>1. Creates(c) /\ UNCHANGED attempt
    BY <1>9, NewRecord DEF CommitCancellation
  <2>2. (pc \in [Call -> Stage])' /\ pc'[c] \in {"record", "salvage"}
        /\ \A d \in Call : d # c => pc'[d] = pc[d]
    BY <1>9 DEF CommitCancellation, Committed, Finish, Goto, Stage, IInv, Typed,
       ActionTypeOK
  <2>. QED BY <2>1, <2>2 DEF Creates, Own, IInv, Unspent, Attempt
<1>10. ASSUME NEW c \in Call, CommitCoupon(c) PROVE Unspent'
  <2>1. Creates(c) /\ UNCHANGED attempt
    BY <1>10, NewRecord DEF CommitCoupon
  <2>2. (pc \in [Call -> Stage])' /\ pc'[c] \in {"record", "salvage"}
        /\ \A d \in Call : d # c => pc'[d] = pc[d]
    BY <1>10 DEF CommitCoupon, Committed, Finish, Goto, Stage, IInv, Typed, ActionTypeOK
  <2>. QED BY <2>1, <2>2 DEF Creates, Own, IInv, Unspent, Attempt
<1>11. ASSUME NEW c \in Call, CommitEscalation(c) PROVE Unspent'
  <2>1. Creates(c) /\ UNCHANGED attempt
    BY <1>11, NewRecord DEF CommitEscalation
  <2>2. (pc \in [Call -> Stage])' /\ pc'[c] \in {"record", "salvage"}
        /\ \A d \in Call : d # c => pc'[d] = pc[d]
    BY <1>11 DEF CommitEscalation, Committed, Finish, Goto, Stage, IInv, Typed,
       ActionTypeOK
  <2>. QED BY <2>1, <2>2 DEF Creates, Own, IInv, Unspent, Attempt
<1>12. ASSUME NEW c \in Call, RollBack(c) PROVE Unspent'
  BY <1>12 DEF RollBack, Unspent, tables, locals, Goto, Return, Finish, Proceed, IInv,
     Typed, ActionTypeOK, Begun, Attempt
<1>13. ASSUME NEW c \in Call, SalvageReplacement(c) PROVE Unspent'
  BY <1>13 DEF SalvageReplacement, Unspent, tables, locals, Goto, Return, Finish,
     Proceed, IInv, Typed, ActionTypeOK, Begun, Attempt
<1>14. ASSUME NEW c \in Call, RecordExecution(c) PROVE Unspent'
  BY <1>14 DEF RecordExecution, Unspent, tables, locals, Goto, Return, Finish,
     Proceed, IInv, Typed, ActionTypeOK, Begun, Attempt
<1>15. ASSUME NEW c \in Call, ReadThrows(c) PROVE Unspent'
  BY <1>15 DEF ReadThrows, Unspent, tables, locals, Goto, Return, Finish, Proceed,
     IInv, Typed, ActionTypeOK, Begun, Attempt
<1>16. ASSUME NEW c \in Call, ConfirmDone(c) PROVE Unspent'
  <2>1. req[c].key \in Key
    BY <1>16, CallFacts DEF IInv, ConfirmDone
  <2>2. PICK a \in FoundRecords(req[c].key) : MarkVerified(a)
    BY <1>16 DEF ConfirmDone
  <2>3. a \in Attempt /\ action[a] # None
    BY <2>1, FoundCommitted
  <2>4. Marks
    BY <2>2, <2>3, MarkKeeps DEF Marks
  <2>. QED BY <1>16, <2>4 DEF ConfirmDone, Marks, Unspent, tables, locals, Goto,
              Return, Finish, Proceed, IInv, Typed, ActionTypeOK, Begun, Attempt
<1>17. ASSUME NEW c \in Call, Retry(c) PROVE Unspent'
  BY <1>17 DEF Retry, Unspent, tables, locals, Goto, Return, Finish, Proceed, IInv,
     Typed, ActionTypeOK, Begun, Attempt
<1>18. ASSUME NEW c \in Call, VerifyAction(c) PROVE Unspent'
  BY <1>18 DEF VerifyAction, Unspent, tables, locals, Goto, Return, Finish, Proceed,
     IInv, Typed, ActionTypeOK, Begun, Attempt
<1>19. ASSUME NEW c \in Call, Conclude(c) PROVE Unspent'
  <2>4. Marks
    <3>1. CASE pc[c] = "verified" /\ MarkVerified(result[c].action)
      <4>1. result[c].ok
        BY <3>1 DEF IInv, Backed, BackedCall
      <4>. QED BY <3>1, <4>1, ResultCommitted, MarkKeeps DEF Marks
    <3>2. CASE UNCHANGED action
      BY <3>2 DEF Marks, Kept
    <3>. QED BY <1>19, <3>1, <3>2 DEF Conclude
  <2>. QED BY <1>19, <2>4 DEF Conclude, Marks, Unspent, tables, locals, Goto, Return,
              Finish, Proceed, IInv, Typed, ActionTypeOK, Begun, Attempt
<1>20. ASSUME NEW c \in Call, VerifyThrows(c) PROVE Unspent'
  BY <1>20 DEF VerifyThrows, Unspent, tables, locals, Goto, Return, Finish, Proceed,
     IInv, Typed, ActionTypeOK, Begun, Attempt
<1>21. ASSUME NEW c \in Call, Crash(c) PROVE Unspent'
  BY <1>21 DEF Crash, Unspent, tables, locals, Goto, Return, Finish, Proceed, IInv,
     Typed, ActionTypeOK, Begun, Attempt
<1>22. QED BY <1>1, <1>2, <1>3, <1>4, <1>5, <1>6, <1>7, <1>8, <1>9, <1>10, <1>11,
              <1>12, <1>13, <1>14, <1>15, <1>16, <1>17, <1>18, <1>19, <1>20, <1>21 DEF
              Next, Tool, Executor, Finished

\* A committed action is known to its call, or its commit was not acknowledged.
LEMMA StepAccounted ==
  ASSUME IInv, [Next]_vars
  PROVE  Accounted'
<1>. USE RequestAssumption, AmountAssumption, NoneAssumption
<1>1. ASSUME UNCHANGED vars PROVE Accounted'
  BY <1>1 DEF IInv, Accounted, vars, tables, locals
<1>2. ASSUME NEW c \in Call, Begin(c) PROVE Accounted'
  BY <1>2 DEF Begin, Accounted, Answer, tables, locals, Goto, Return, Finish, Proceed,
     IInv, Typed, ActionTypeOK, Begun, Attempt
<1>3. ASSUME NEW c \in Call, CheckIdempotency(c) PROVE Accounted'
  BY <1>3 DEF CheckIdempotency, Accounted, Answer, tables, locals, Goto, Return,
     Finish, Proceed, IInv, Typed, ActionTypeOK, Begun, Attempt
<1>4. ASSUME NEW c \in Call, LookupRefund(c) PROVE Accounted'
  BY <1>4 DEF LookupRefund, Accounted, Answer, tables, locals, Goto, Return, Finish,
     Proceed, IInv, Typed, ActionTypeOK, Begun, Attempt
<1>5. ASSUME NEW c \in Call, ReadTables(c) PROVE Accounted'
  BY <1>5 DEF ReadTables, Accounted, Answer, tables, locals, Goto, Return, Finish,
     Proceed, IInv, Typed, ActionTypeOK, Begun, Attempt
<1>6. ASSUME NEW c \in Call, CommitRefund(c) PROVE Accounted'
  <2>1. Creates(c) /\ UNCHANGED answer /\ Own(c)[1] = c /\ pc[c] = "commit"
    BY <1>6, NewRecord DEF CommitRefund, Own
  <2>2. /\ \A d \in Call : d # c => pc'[d] = pc[d] /\ result'[d] = result[d]
        /\ lost \subseteq lost'
        /\ c \in lost' \/ (pc'[c] = "record" /\ result'[c].ok)
    BY <1>6 DEF CommitRefund, Committed, Finish, Goto, IInv, Typed, ActionTypeOK
  <2>3. ASSUME NEW a \in Attempt, a[1] = c, action[a] # None PROVE c \in lost
    BY <2>1, <2>3 DEF IInv, Accounted
  <2>4. \A a \in Attempt : a[1] \in Call
    BY DEF Attempt
  <2>. QED BY <2>1, <2>2, <2>3, <2>4 DEF Creates, IInv, Accounted
<1>7. ASSUME NEW c \in Call, DuplicateRefund(c) PROVE Accounted'
  BY <1>7 DEF DuplicateRefund, Accounted, Answer, tables, locals, Goto, Return,
     Finish, Proceed, IInv, Typed, ActionTypeOK, Begun, Attempt
<1>8. ASSUME NEW c \in Call, CommitReplacement(c) PROVE Accounted'
  <2>1. Creates(c) /\ UNCHANGED answer /\ Own(c)[1] = c /\ pc[c] = "commit"
    BY <1>8, NewRecord DEF CommitReplacement, Own
  <2>2. /\ \A d \in Call : d # c => pc'[d] = pc[d] /\ result'[d] = result[d]
        /\ lost \subseteq lost'
        /\ c \in lost' \/ (pc'[c] = "record" /\ result'[c].ok)
    BY <1>8 DEF CommitReplacement, Committed, Finish, Goto, IInv, Typed, ActionTypeOK
  <2>3. ASSUME NEW a \in Attempt, a[1] = c, action[a] # None PROVE c \in lost
    BY <2>1, <2>3 DEF IInv, Accounted
  <2>4. \A a \in Attempt : a[1] \in Call
    BY DEF Attempt
  <2>. QED BY <2>1, <2>2, <2>3, <2>4 DEF Creates, IInv, Accounted
<1>9. ASSUME NEW c \in Call, CommitCancellation(c) PROVE Accounted'
  <2>1. Creates(c) /\ UNCHANGED answer /\ Own(c)[1] = c /\ pc[c] = "commit"
    BY <1>9, NewRecord DEF CommitCancellation, Own
  <2>2. /\ \A d \in Call : d # c => pc'[d] = pc[d] /\ result'[d] = result[d]
        /\ lost \subseteq lost'
        /\ c \in lost' \/ (pc'[c] = "record" /\ result'[c].ok)
    BY <1>9 DEF CommitCancellation, Committed, Finish, Goto, IInv, Typed, ActionTypeOK
  <2>3. ASSUME NEW a \in Attempt, a[1] = c, action[a] # None PROVE c \in lost
    BY <2>1, <2>3 DEF IInv, Accounted
  <2>4. \A a \in Attempt : a[1] \in Call
    BY DEF Attempt
  <2>. QED BY <2>1, <2>2, <2>3, <2>4 DEF Creates, IInv, Accounted
<1>10. ASSUME NEW c \in Call, CommitCoupon(c) PROVE Accounted'
  <2>1. Creates(c) /\ UNCHANGED answer /\ Own(c)[1] = c /\ pc[c] = "commit"
    BY <1>10, NewRecord DEF CommitCoupon, Own
  <2>2. /\ \A d \in Call : d # c => pc'[d] = pc[d] /\ result'[d] = result[d]
        /\ lost \subseteq lost'
        /\ c \in lost' \/ (pc'[c] = "record" /\ result'[c].ok)
    BY <1>10 DEF CommitCoupon, Committed, Finish, Goto, IInv, Typed, ActionTypeOK
  <2>3. ASSUME NEW a \in Attempt, a[1] = c, action[a] # None PROVE c \in lost
    BY <2>1, <2>3 DEF IInv, Accounted
  <2>4. \A a \in Attempt : a[1] \in Call
    BY DEF Attempt
  <2>. QED BY <2>1, <2>2, <2>3, <2>4 DEF Creates, IInv, Accounted
<1>11. ASSUME NEW c \in Call, CommitEscalation(c) PROVE Accounted'
  <2>1. Creates(c) /\ UNCHANGED answer /\ Own(c)[1] = c /\ pc[c] = "commit"
    BY <1>11, NewRecord DEF CommitEscalation, Own
  <2>2. /\ \A d \in Call : d # c => pc'[d] = pc[d] /\ result'[d] = result[d]
        /\ lost \subseteq lost'
        /\ c \in lost' \/ (pc'[c] = "record" /\ result'[c].ok)
    BY <1>11 DEF CommitEscalation, Committed, Finish, Goto, IInv, Typed, ActionTypeOK
  <2>3. ASSUME NEW a \in Attempt, a[1] = c, action[a] # None PROVE c \in lost
    BY <2>1, <2>3 DEF IInv, Accounted
  <2>4. \A a \in Attempt : a[1] \in Call
    BY DEF Attempt
  <2>. QED BY <2>1, <2>2, <2>3, <2>4 DEF Creates, IInv, Accounted
<1>12. ASSUME NEW c \in Call, RollBack(c) PROVE Accounted'
  BY <1>12 DEF RollBack, Accounted, Answer, tables, locals, Goto, Return, Finish,
     Proceed, IInv, Typed, ActionTypeOK, Begun, Attempt
<1>13. ASSUME NEW c \in Call, SalvageReplacement(c) PROVE Accounted'
  BY <1>13 DEF SalvageReplacement, Accounted, Answer, tables, locals, Goto, Return,
     Finish, Proceed, IInv, Typed, ActionTypeOK, Begun, Attempt
<1>14. ASSUME NEW c \in Call, RecordExecution(c) PROVE Accounted'
  BY <1>14 DEF RecordExecution, Accounted, Answer, tables, locals, Goto, Return,
     Finish, Proceed, IInv, Typed, ActionTypeOK, Begun, Attempt
<1>15. ASSUME NEW c \in Call, ReadThrows(c) PROVE Accounted'
  BY <1>15 DEF ReadThrows, Accounted, Answer, tables, locals, Goto, Return, Finish,
     Proceed, IInv, Typed, ActionTypeOK, Begun, Attempt
<1>16. ASSUME NEW c \in Call, ConfirmDone(c) PROVE Accounted'
  <2>1. req[c].key \in Key
    BY <1>16, CallFacts DEF IInv, ConfirmDone
  <2>2. PICK a \in FoundRecords(req[c].key) : MarkVerified(a)
    BY <1>16 DEF ConfirmDone
  <2>3. a \in Attempt /\ action[a] # None
    BY <2>1, FoundCommitted
  <2>4. Marks
    BY <2>2, <2>3, MarkKeeps DEF Marks
  <2>. QED BY <1>16, <2>4 DEF ConfirmDone, Marks, Kept, Accounted, Backed, BackedCall,
              Answer, tables, locals, Goto, Return, Finish, Proceed, IInv, Typed,
              ActionTypeOK, Begun, Attempt
<1>17. ASSUME NEW c \in Call, Retry(c) PROVE Accounted'
  BY <1>17 DEF Retry, Accounted, Answer, tables, locals, Goto, Return, Finish,
     Proceed, IInv, Typed, ActionTypeOK, Begun, Attempt
<1>18. ASSUME NEW c \in Call, VerifyAction(c) PROVE Accounted'
  BY <1>18 DEF VerifyAction, Accounted, Answer, tables, locals, Goto, Return, Finish,
     Proceed, IInv, Typed, ActionTypeOK, Begun, Attempt
<1>19. ASSUME NEW c \in Call, Conclude(c) PROVE Accounted'
  <2>4. Marks
    <3>1. CASE pc[c] = "verified" /\ MarkVerified(result[c].action)
      <4>1. result[c].ok
        BY <3>1 DEF IInv, Backed, BackedCall
      <4>. QED BY <3>1, <4>1, ResultCommitted, MarkKeeps DEF Marks
    <3>2. CASE UNCHANGED action
      BY <3>2 DEF Marks, Kept
    <3>. QED BY <1>19, <3>1, <3>2 DEF Conclude
  <2>. QED BY <1>19, <2>4 DEF Conclude, Marks, Kept, Accounted, Backed, BackedCall,
              Answer, tables, locals, Goto, Return, Finish, Proceed, IInv, Typed,
              ActionTypeOK, Begun, Attempt
<1>20. ASSUME NEW c \in Call, VerifyThrows(c) PROVE Accounted'
  BY <1>20 DEF VerifyThrows, Accounted, Answer, tables, locals, Goto, Return, Finish,
     Proceed, IInv, Typed, ActionTypeOK, Begun, Attempt
<1>21. ASSUME NEW c \in Call, Crash(c) PROVE Accounted'
  BY <1>21 DEF Crash, Accounted, Answer, tables, locals, Goto, Return, Finish,
     Proceed, IInv, Typed, ActionTypeOK, Begun, Attempt
<1>22. QED BY <1>1, <1>2, <1>3, <1>4, <1>5, <1>6, <1>7, <1>8, <1>9, <1>10, <1>11,
              <1>12, <1>13, <1>14, <1>15, <1>16, <1>17, <1>18, <1>19, <1>20, <1>21 DEF
              Next, Tool, Executor, Finished

\* A call that does nothing in a step keeps its grounds.
LEMMA OthersBacked ==
  ASSUME IInv, Kept, NEW c \in Call,
         pc'[c] = pc[c], req'[c] = req[c], result'[c] = result[c], answer'[c] = answer[c]
  PROVE  BackedCall(c)'
<1>1. BackedCall(c)
  BY DEF IInv, Backed
<1>2. Names(result[c], req[c].key)'
  BY <1>1 DEF BackedCall, Names, Mentions, Kept
<1>. QED BY <1>1, <1>2 DEF BackedCall

LEMMA ExecBacked ==
  ASSUME IInv, Kept, UNCHANGED exec
  PROVE  (\A k \in Key : exec[k] # None => Names(exec[k], k))'
  BY DEF IInv, Backed, Names, Mentions, Kept

\* A success a call is told of stays one.
LEMMA StepBacked ==
  ASSUME IInv, [Next]_vars
  PROVE  Backed'
<1>. USE RequestAssumption, AmountAssumption, NoneAssumption
<1>0. Kept
  BY StepKeeps
<1>1. ASSUME UNCHANGED vars PROVE Backed'
  BY <1>1 DEF IInv, Backed, BackedCall, Names, Mentions, vars, tables, locals
<1>2. ASSUME NEW c \in Call, Begin(c) PROVE Backed'
  <2>1. \A d \in Call : d # c => /\ pc'[d] = pc[d] /\ req'[d] = req[d]
                                 /\ result'[d] = result[d] /\ answer'[d] = answer[d]
    BY <1>2 DEF Begin, Goto, Return, Finish, Proceed, IInv, Typed, ActionTypeOK,
       Begun, tables, locals
  <2>2. BackedCall(c)'
    <3>1. ~result'[c].ok /\ pc'[c] \in {"ended", "check"} /\ answer'[c] # "EXECUTED"
      BY <1>2 DEF Begin, Goto, Return, IInv, Typed, ActionTypeOK, Begun, Backed,
         BackedCall
    <3>. QED BY <3>1 DEF BackedCall, Names
  <2>3. (\A k \in Key : exec[k] # None => Names(exec[k], k))'
    BY <1>0, <1>2, ExecBacked DEF Begin, tables
  <2>. QED BY <1>0, <2>1, <2>2, <2>3, OthersBacked DEF Backed
<1>3. ASSUME NEW c \in Call, CheckIdempotency(c) PROVE Backed'
  <2>1. \A d \in Call : d # c => /\ pc'[d] = pc[d] /\ req'[d] = req[d]
                                 /\ result'[d] = result[d] /\ answer'[d] = answer[d]
    BY <1>3 DEF CheckIdempotency, Goto, Return, Finish, Proceed, IInv, Typed,
       ActionTypeOK, Begun, tables, locals
  <2>2. BackedCall(c)'
    <3>1. req[c].key \in Key
      BY <1>3, CallFacts DEF IInv, CheckIdempotency
    <3>. QED BY <1>3, <3>1 DEF CheckIdempotency, Backed, BackedCall, Names, Mentions,
                Goto, Return, Finish, Proceed, IInv, Typed, ActionTypeOK, Begun,
                tables, locals
  <2>3. (\A k \in Key : exec[k] # None => Names(exec[k], k))'
    BY <1>0, <1>3, ExecBacked DEF CheckIdempotency, tables
  <2>. QED BY <1>0, <2>1, <2>2, <2>3, OthersBacked DEF Backed
<1>4. ASSUME NEW c \in Call, LookupRefund(c) PROVE Backed'
  <2>1. \A d \in Call : d # c => /\ pc'[d] = pc[d] /\ req'[d] = req[d]
                                 /\ result'[d] = result[d] /\ answer'[d] = answer[d]
    BY <1>4 DEF LookupRefund, Goto, Return, Finish, Proceed, IInv, Typed,
       ActionTypeOK, Begun, tables, locals
  <2>2. BackedCall(c)'
    <3>1. req[c].key \in Key
      BY <1>4, CallFacts DEF IInv, LookupRefund
    <3>2. CASE refund[req[c].key] # None
      <4>1. PICK a \in RefundRecords(req[c].key) : Finish(c, TRUE, a)
        BY <1>4, <3>2 DEF LookupRefund
      <4>2. refund[req[c].key].by \in Attempt
        BY <3>1, <3>2 DEF IInv, Typed, ActionTypeOK, RefundRow
      <4>3. a \in Attempt /\ Mentions(a, req[c].key)
        BY <3>1, <3>2, <4>2 DEF RefundRecords, Mentions, IInv, RefundBooked
      <4>. QED BY <1>4, <4>1, <4>3 DEF LookupRefund, BackedCall, Names, Mentions,
                  Goto, Return, Finish, Proceed, IInv, Typed, ActionTypeOK, Begun,
                  tables, locals
    <3>3. CASE refund[req[c].key] = None
      BY <1>4, <3>3 DEF LookupRefund, Backed, BackedCall, Names, Mentions, Goto,
         Return, Finish, Proceed, IInv, Typed, ActionTypeOK, Begun, tables, locals
    <3>. QED BY <3>2, <3>3
  <2>3. (\A k \in Key : exec[k] # None => Names(exec[k], k))'
    BY <1>0, <1>4, ExecBacked DEF LookupRefund, tables
  <2>. QED BY <1>0, <2>1, <2>2, <2>3, OthersBacked DEF Backed
<1>5. ASSUME NEW c \in Call, ReadTables(c) PROVE Backed'
  <2>1. \A d \in Call : d # c => /\ pc'[d] = pc[d] /\ req'[d] = req[d]
                                 /\ result'[d] = result[d] /\ answer'[d] = answer[d]
    BY <1>5 DEF ReadTables, Goto, Return, Finish, Proceed, IInv, Typed, ActionTypeOK,
       Begun, tables, locals
  <2>2. BackedCall(c)'
    <3>1. /\ pc[c] # "idle" /\ UNCHANGED <<req, answer, action>>
          /\ pc'[c] \in {"commit", "record", "salvage"}
          /\ result'[c] = result[c] \/ ~result'[c].ok
      BY <1>5 DEF ReadTables, Goto, Finish, IInv, Typed, ActionTypeOK, tables
    <3>2. answer[c] # "EXECUTED"
      BY <1>5, PendingAnswer DEF ReadTables, IInv
    <3>. QED BY <3>1, <3>2 DEF IInv, Backed, BackedCall, Names, Mentions
  <2>3. (\A k \in Key : exec[k] # None => Names(exec[k], k))'
    BY <1>0, <1>5, ExecBacked DEF ReadTables, tables
  <2>. QED BY <1>0, <2>1, <2>2, <2>3, OthersBacked DEF Backed
<1>6. ASSUME NEW c \in Call, CommitRefund(c) PROVE Backed'
  <2>1. \A d \in Call : d # c => /\ pc'[d] = pc[d] /\ req'[d] = req[d]
                                 /\ result'[d] = result[d] /\ answer'[d] = answer[d]
    BY <1>6 DEF CommitRefund, Committed, Goto, Return, Finish, Proceed, IInv, Typed,
       ActionTypeOK, Begun, tables, locals
  <2>2. BackedCall(c)'
    <3>1. Creates(c) /\ UNCHANGED <<req, answer, attempt>> /\ pc[c] = "commit"
      BY <1>6, NewRecord DEF CommitRefund
    <3>2. /\ pc'[c] \in {"record", "salvage"}
          /\ \/ result'[c] = result[c]
             \/ ~result'[c].ok
             \/ result'[c].action = Own(c)
      BY <1>6 DEF CommitRefund, Committed, Finish, Goto, IInv, Typed, ActionTypeOK
    <3>3. req[c].key \in Key /\ answer[c] # "EXECUTED"
      BY <1>6, CallFacts, PendingAnswer DEF IInv, CommitRefund
    <3>4. CASE result'[c] = result[c]
      <4>1. Names(result[c], req[c].key)
        BY DEF IInv, Backed, BackedCall
      <4>. QED BY <1>0, <3>1, <3>2, <3>3, <3>4, <4>1 DEF BackedCall, Names, Mentions, Kept
    <3>5. CASE ~result'[c].ok
      BY <3>1, <3>2, <3>3, <3>5 DEF BackedCall, Names
    <3>6. CASE result'[c].action = Own(c)
      BY <3>1, <3>2, <3>3, <3>6 DEF BackedCall, Names, Mentions, Creates
    <3>. QED BY <3>2, <3>4, <3>5, <3>6
  <2>3. (\A k \in Key : exec[k] # None => Names(exec[k], k))'
    BY <1>0, <1>6, ExecBacked DEF CommitRefund, tables
  <2>. QED BY <1>0, <2>1, <2>2, <2>3, OthersBacked DEF Backed
<1>7. ASSUME NEW c \in Call, DuplicateRefund(c) PROVE Backed'
  <2>1. \A d \in Call : d # c => /\ pc'[d] = pc[d] /\ req'[d] = req[d]
                                 /\ result'[d] = result[d] /\ answer'[d] = answer[d]
    BY <1>7 DEF DuplicateRefund, Goto, Return, Finish, Proceed, IInv, Typed,
       ActionTypeOK, Begun, tables, locals
  <2>2. BackedCall(c)'
    BY <1>0, <1>7 DEF DuplicateRefund, Backed, BackedCall, Names, Mentions, Kept,
       Goto, Return, Finish, Proceed, IInv, Typed, ActionTypeOK, Begun, tables, locals
  <2>3. (\A k \in Key : exec[k] # None => Names(exec[k], k))'
    BY <1>0, <1>7, ExecBacked DEF DuplicateRefund, tables
  <2>. QED BY <1>0, <2>1, <2>2, <2>3, OthersBacked DEF Backed
<1>8. ASSUME NEW c \in Call, CommitReplacement(c) PROVE Backed'
  <2>1. \A d \in Call : d # c => /\ pc'[d] = pc[d] /\ req'[d] = req[d]
                                 /\ result'[d] = result[d] /\ answer'[d] = answer[d]
    BY <1>8 DEF CommitReplacement, Committed, Goto, Return, Finish, Proceed, IInv,
       Typed, ActionTypeOK, Begun, tables, locals
  <2>2. BackedCall(c)'
    <3>1. Creates(c) /\ UNCHANGED <<req, answer, attempt>> /\ pc[c] = "commit"
      BY <1>8, NewRecord DEF CommitReplacement
    <3>2. /\ pc'[c] \in {"record", "salvage"}
          /\ \/ result'[c] = result[c]
             \/ ~result'[c].ok
             \/ result'[c].action = Own(c)
      BY <1>8 DEF CommitReplacement, Committed, Finish, Goto, IInv, Typed, ActionTypeOK
    <3>3. req[c].key \in Key /\ answer[c] # "EXECUTED"
      BY <1>8, CallFacts, PendingAnswer DEF IInv, CommitReplacement
    <3>4. CASE result'[c] = result[c]
      <4>1. Names(result[c], req[c].key)
        BY DEF IInv, Backed, BackedCall
      <4>. QED BY <1>0, <3>1, <3>2, <3>3, <3>4, <4>1 DEF BackedCall, Names, Mentions, Kept
    <3>5. CASE ~result'[c].ok
      BY <3>1, <3>2, <3>3, <3>5 DEF BackedCall, Names
    <3>6. CASE result'[c].action = Own(c)
      BY <3>1, <3>2, <3>3, <3>6 DEF BackedCall, Names, Mentions, Creates
    <3>. QED BY <3>2, <3>4, <3>5, <3>6
  <2>3. (\A k \in Key : exec[k] # None => Names(exec[k], k))'
    BY <1>0, <1>8, ExecBacked DEF CommitReplacement, tables
  <2>. QED BY <1>0, <2>1, <2>2, <2>3, OthersBacked DEF Backed
<1>9. ASSUME NEW c \in Call, CommitCancellation(c) PROVE Backed'
  <2>1. \A d \in Call : d # c => /\ pc'[d] = pc[d] /\ req'[d] = req[d]
                                 /\ result'[d] = result[d] /\ answer'[d] = answer[d]
    BY <1>9 DEF CommitCancellation, Committed, Goto, Return, Finish, Proceed, IInv,
       Typed, ActionTypeOK, Begun, tables, locals
  <2>2. BackedCall(c)'
    <3>1. Creates(c) /\ UNCHANGED <<req, answer, attempt>> /\ pc[c] = "commit"
      BY <1>9, NewRecord DEF CommitCancellation
    <3>2. /\ pc'[c] \in {"record", "salvage"}
          /\ \/ result'[c] = result[c]
             \/ ~result'[c].ok
             \/ result'[c].action = Own(c)
      BY <1>9 DEF CommitCancellation, Committed, Finish, Goto, IInv, Typed, ActionTypeOK
    <3>3. req[c].key \in Key /\ answer[c] # "EXECUTED"
      BY <1>9, CallFacts, PendingAnswer DEF IInv, CommitCancellation
    <3>4. CASE result'[c] = result[c]
      <4>1. Names(result[c], req[c].key)
        BY DEF IInv, Backed, BackedCall
      <4>. QED BY <1>0, <3>1, <3>2, <3>3, <3>4, <4>1 DEF BackedCall, Names, Mentions, Kept
    <3>5. CASE ~result'[c].ok
      BY <3>1, <3>2, <3>3, <3>5 DEF BackedCall, Names
    <3>6. CASE result'[c].action = Own(c)
      BY <3>1, <3>2, <3>3, <3>6 DEF BackedCall, Names, Mentions, Creates
    <3>. QED BY <3>2, <3>4, <3>5, <3>6
  <2>3. (\A k \in Key : exec[k] # None => Names(exec[k], k))'
    BY <1>0, <1>9, ExecBacked DEF CommitCancellation, tables
  <2>. QED BY <1>0, <2>1, <2>2, <2>3, OthersBacked DEF Backed
<1>10. ASSUME NEW c \in Call, CommitCoupon(c) PROVE Backed'
  <2>1. \A d \in Call : d # c => /\ pc'[d] = pc[d] /\ req'[d] = req[d]
                                 /\ result'[d] = result[d] /\ answer'[d] = answer[d]
    BY <1>10 DEF CommitCoupon, Committed, Goto, Return, Finish, Proceed, IInv, Typed,
       ActionTypeOK, Begun, tables, locals
  <2>2. BackedCall(c)'
    <3>1. Creates(c) /\ UNCHANGED <<req, answer, attempt>> /\ pc[c] = "commit"
      BY <1>10, NewRecord DEF CommitCoupon
    <3>2. /\ pc'[c] \in {"record", "salvage"}
          /\ \/ result'[c] = result[c]
             \/ ~result'[c].ok
             \/ result'[c].action = Own(c)
      BY <1>10 DEF CommitCoupon, Committed, Finish, Goto, IInv, Typed, ActionTypeOK
    <3>3. req[c].key \in Key /\ answer[c] # "EXECUTED"
      BY <1>10, CallFacts, PendingAnswer DEF IInv, CommitCoupon
    <3>4. CASE result'[c] = result[c]
      <4>1. Names(result[c], req[c].key)
        BY DEF IInv, Backed, BackedCall
      <4>. QED BY <1>0, <3>1, <3>2, <3>3, <3>4, <4>1 DEF BackedCall, Names, Mentions, Kept
    <3>5. CASE ~result'[c].ok
      BY <3>1, <3>2, <3>3, <3>5 DEF BackedCall, Names
    <3>6. CASE result'[c].action = Own(c)
      BY <3>1, <3>2, <3>3, <3>6 DEF BackedCall, Names, Mentions, Creates
    <3>. QED BY <3>2, <3>4, <3>5, <3>6
  <2>3. (\A k \in Key : exec[k] # None => Names(exec[k], k))'
    BY <1>0, <1>10, ExecBacked DEF CommitCoupon, tables
  <2>. QED BY <1>0, <2>1, <2>2, <2>3, OthersBacked DEF Backed
<1>11. ASSUME NEW c \in Call, CommitEscalation(c) PROVE Backed'
  <2>1. \A d \in Call : d # c => /\ pc'[d] = pc[d] /\ req'[d] = req[d]
                                 /\ result'[d] = result[d] /\ answer'[d] = answer[d]
    BY <1>11 DEF CommitEscalation, Committed, Goto, Return, Finish, Proceed, IInv,
       Typed, ActionTypeOK, Begun, tables, locals
  <2>2. BackedCall(c)'
    <3>1. Creates(c) /\ UNCHANGED <<req, answer, attempt>> /\ pc[c] = "commit"
      BY <1>11, NewRecord DEF CommitEscalation
    <3>2. /\ pc'[c] \in {"record", "salvage"}
          /\ \/ result'[c] = result[c]
             \/ ~result'[c].ok
             \/ result'[c].action = Own(c)
      BY <1>11 DEF CommitEscalation, Committed, Finish, Goto, IInv, Typed, ActionTypeOK
    <3>3. req[c].key \in Key /\ answer[c] # "EXECUTED"
      BY <1>11, CallFacts, PendingAnswer DEF IInv, CommitEscalation
    <3>4. CASE result'[c] = result[c]
      <4>1. Names(result[c], req[c].key)
        BY DEF IInv, Backed, BackedCall
      <4>. QED BY <1>0, <3>1, <3>2, <3>3, <3>4, <4>1 DEF BackedCall, Names, Mentions, Kept
    <3>5. CASE ~result'[c].ok
      BY <3>1, <3>2, <3>3, <3>5 DEF BackedCall, Names
    <3>6. CASE result'[c].action = Own(c)
      BY <3>1, <3>2, <3>3, <3>6 DEF BackedCall, Names, Mentions, Creates
    <3>. QED BY <3>2, <3>4, <3>5, <3>6
  <2>3. (\A k \in Key : exec[k] # None => Names(exec[k], k))'
    BY <1>0, <1>11, ExecBacked DEF CommitEscalation, tables
  <2>. QED BY <1>0, <2>1, <2>2, <2>3, OthersBacked DEF Backed
<1>12. ASSUME NEW c \in Call, RollBack(c) PROVE Backed'
  <2>1. \A d \in Call : d # c => /\ pc'[d] = pc[d] /\ req'[d] = req[d]
                                 /\ result'[d] = result[d] /\ answer'[d] = answer[d]
    BY <1>12 DEF RollBack, Goto, Return, Finish, Proceed, IInv, Typed, ActionTypeOK,
       Begun, tables, locals
  <2>2. BackedCall(c)'
    <3>1. /\ pc[c] # "idle" /\ UNCHANGED <<req, answer, action>>
          /\ pc'[c] \in {"commit", "record", "salvage"}
          /\ result'[c] = result[c] \/ ~result'[c].ok
      BY <1>12 DEF RollBack, Goto, Finish, IInv, Typed, ActionTypeOK, tables
    <3>2. answer[c] # "EXECUTED"
      BY <1>12, PendingAnswer DEF RollBack, IInv
    <3>. QED BY <3>1, <3>2 DEF IInv, Backed, BackedCall, Names, Mentions
  <2>3. (\A k \in Key : exec[k] # None => Names(exec[k], k))'
    BY <1>0, <1>12, ExecBacked DEF RollBack, tables
  <2>. QED BY <1>0, <2>1, <2>2, <2>3, OthersBacked DEF Backed
<1>13. ASSUME NEW c \in Call, SalvageReplacement(c) PROVE Backed'
  <2>1. \A d \in Call : d # c => /\ pc'[d] = pc[d] /\ req'[d] = req[d]
                                 /\ result'[d] = result[d] /\ answer'[d] = answer[d]
    BY <1>13 DEF SalvageReplacement, Goto, Return, Finish, Proceed, IInv, Typed,
       ActionTypeOK, Begun, tables, locals
  <2>2. BackedCall(c)'
    <3>0. answer[c] # "EXECUTED"
      BY <1>13, PendingAnswer DEF SalvageReplacement, IInv
    <3>1. CASE ReplacementRecords(req[c].key) = {}
      BY <1>13, <3>0, <3>1 DEF SalvageReplacement, BackedCall, Names, Goto, Return,
         Finish, Proceed, IInv, Typed, ActionTypeOK, Begun, tables, locals
    <3>2. CASE ReplacementRecords(req[c].key) # {}
      <4>1. PICK a \in ReplacementRecords(req[c].key) : Finish(c, TRUE, a)
        BY <1>13, <3>2 DEF SalvageReplacement
      <4>2. a \in Attempt /\ Mentions(a, req[c].key)
        BY DEF ReplacementRecords
      <4>. QED BY <1>13, <3>0, <4>1, <4>2 DEF SalvageReplacement, BackedCall, Names,
                  Mentions, Goto, Return, Finish, Proceed, IInv, Typed, ActionTypeOK,
                  Begun, tables, locals
    <3>. QED BY <3>1, <3>2
  <2>3. (\A k \in Key : exec[k] # None => Names(exec[k], k))'
    BY <1>0, <1>13, ExecBacked DEF SalvageReplacement, tables
  <2>. QED BY <1>0, <2>1, <2>2, <2>3, OthersBacked DEF Backed
<1>14. ASSUME NEW c \in Call, RecordExecution(c) PROVE Backed'
  <2>1. \A d \in Call : d # c => /\ pc'[d] = pc[d] /\ req'[d] = req[d]
                                 /\ result'[d] = result[d] /\ answer'[d] = answer[d]
    BY <1>14 DEF RecordExecution, Goto, Return, Finish, Proceed, IInv, Typed,
       ActionTypeOK, Begun, tables, locals
  <2>2. BackedCall(c)'
    BY <1>0, <1>14 DEF RecordExecution, Backed, BackedCall, Names, Mentions, Kept,
       Goto, Return, Finish, Proceed, IInv, Typed, ActionTypeOK, Begun, tables, locals
  <2>3. (\A k \in Key : exec[k] # None => Names(exec[k], k))'
    <3>1. req[c].key \in Key /\ Names(result[c], req[c].key)
      BY <1>14, CallFacts DEF IInv, Backed, BackedCall, RecordExecution
    <3>. QED BY <1>14, <3>1 DEF RecordExecution, Backed, Names, Mentions, IInv, Typed,
                ActionTypeOK
  <2>. QED BY <1>0, <2>1, <2>2, <2>3, OthersBacked DEF Backed
<1>15. ASSUME NEW c \in Call, ReadThrows(c) PROVE Backed'
  <2>1. \A d \in Call : d # c => /\ pc'[d] = pc[d] /\ req'[d] = req[d]
                                 /\ result'[d] = result[d] /\ answer'[d] = answer[d]
    BY <1>15 DEF ReadThrows, Goto, Return, Finish, Proceed, IInv, Typed, ActionTypeOK,
       Begun, tables, locals
  <2>2. BackedCall(c)'
    BY <1>0, <1>15 DEF ReadThrows, Backed, BackedCall, Names, Mentions, Kept, Goto,
       Return, Finish, Proceed, IInv, Typed, ActionTypeOK, Begun, tables, locals
  <2>3. (\A k \in Key : exec[k] # None => Names(exec[k], k))'
    BY <1>0, <1>15, ExecBacked DEF ReadThrows, tables
  <2>. QED BY <1>0, <2>1, <2>2, <2>3, OthersBacked DEF Backed
<1>16. ASSUME NEW c \in Call, ConfirmDone(c) PROVE Backed'
  <2>1. \A d \in Call : d # c => /\ pc'[d] = pc[d] /\ req'[d] = req[d]
                                 /\ result'[d] = result[d] /\ answer'[d] = answer[d]
    BY <1>16 DEF ConfirmDone, Goto, Return, Finish, Proceed, IInv, Typed,
       ActionTypeOK, Begun, tables, locals
  <2>2. BackedCall(c)'
    <3>1. req[c].key \in Key
      BY <1>16, CallFacts DEF IInv, ConfirmDone
    <3>2. PICK a \in FoundRecords(req[c].key) :
            result' = [result EXCEPT ![c] = [ok |-> TRUE, action |-> a]]
      BY <1>16 DEF ConfirmDone
    <3>3. a \in Attempt /\ Mentions(a, req[c].key)
      BY <3>1, FoundCommitted
    <3>4. action'[a] # None /\ action'[a].key = action[a].key
      BY <1>0, <3>3 DEF Kept, Mentions
    <3>. QED BY <1>16, <3>2, <3>3, <3>4 DEF ConfirmDone, BackedCall, Names, Mentions,
                Goto, Return, Finish, Proceed, IInv, Typed, ActionTypeOK, Begun,
                tables, locals
  <2>3. (\A k \in Key : exec[k] # None => Names(exec[k], k))'
    BY <1>0, <1>16, ExecBacked DEF ConfirmDone, tables
  <2>. QED BY <1>0, <2>1, <2>2, <2>3, OthersBacked DEF Backed
<1>17. ASSUME NEW c \in Call, Retry(c) PROVE Backed'
  <2>1. \A d \in Call : d # c => /\ pc'[d] = pc[d] /\ req'[d] = req[d]
                                 /\ result'[d] = result[d] /\ answer'[d] = answer[d]
    BY <1>17 DEF Retry, Goto, Return, Finish, Proceed, IInv, Typed, ActionTypeOK,
       Begun, tables, locals
  <2>2. BackedCall(c)'
    BY <1>0, <1>17 DEF Retry, Backed, BackedCall, Names, Mentions, Kept, Goto, Return,
       Finish, Proceed, IInv, Typed, ActionTypeOK, Begun, tables, locals
  <2>3. (\A k \in Key : exec[k] # None => Names(exec[k], k))'
    BY <1>0, <1>17, ExecBacked DEF Retry, tables
  <2>. QED BY <1>0, <2>1, <2>2, <2>3, OthersBacked DEF Backed
<1>18. ASSUME NEW c \in Call, VerifyAction(c) PROVE Backed'
  <2>1. \A d \in Call : d # c => /\ pc'[d] = pc[d] /\ req'[d] = req[d]
                                 /\ result'[d] = result[d] /\ answer'[d] = answer[d]
    BY <1>18 DEF VerifyAction, Goto, Return, Finish, Proceed, IInv, Typed,
       ActionTypeOK, Begun, tables, locals
  <2>2. BackedCall(c)'
    BY <1>0, <1>18 DEF VerifyAction, Backed, BackedCall, Names, Mentions, Kept, Goto,
       Return, Finish, Proceed, IInv, Typed, ActionTypeOK, Begun, tables, locals
  <2>3. (\A k \in Key : exec[k] # None => Names(exec[k], k))'
    BY <1>0, <1>18, ExecBacked DEF VerifyAction, tables
  <2>. QED BY <1>0, <2>1, <2>2, <2>3, OthersBacked DEF Backed
<1>19. ASSUME NEW c \in Call, Conclude(c) PROVE Backed'
  <2>1. \A d \in Call : d # c => /\ pc'[d] = pc[d] /\ req'[d] = req[d]
                                 /\ result'[d] = result[d] /\ answer'[d] = answer[d]
    BY <1>19 DEF Conclude, Goto, Return, Finish, Proceed, IInv, Typed, ActionTypeOK,
       Begun, tables, locals
  <2>2. BackedCall(c)'
    <3>1. /\ result[c].ok /\ req[c].key \in Key /\ UNCHANGED <<req, result>>
          /\ pc'[c] = "ended"
      BY <1>19, CallFacts DEF Conclude, Backed, BackedCall, Goto, Return, Finish,
         Proceed, IInv, Typed, ActionTypeOK, Begun, tables, locals
    <3>. QED BY <1>0, <3>1 DEF IInv, Backed, BackedCall, Names, Mentions, Kept
  <2>3. (\A k \in Key : exec[k] # None => Names(exec[k], k))'
    BY <1>0, <1>19, ExecBacked DEF Conclude, tables
  <2>. QED BY <1>0, <2>1, <2>2, <2>3, OthersBacked DEF Backed
<1>20. ASSUME NEW c \in Call, VerifyThrows(c) PROVE Backed'
  <2>1. \A d \in Call : d # c => /\ pc'[d] = pc[d] /\ req'[d] = req[d]
                                 /\ result'[d] = result[d] /\ answer'[d] = answer[d]
    BY <1>20 DEF VerifyThrows, Goto, Return, Finish, Proceed, IInv, Typed,
       ActionTypeOK, Begun, tables, locals
  <2>2. BackedCall(c)'
    BY <1>0, <1>20 DEF VerifyThrows, Backed, BackedCall, Names, Mentions, Kept, Goto,
       Return, Finish, Proceed, IInv, Typed, ActionTypeOK, Begun, tables, locals
  <2>3. (\A k \in Key : exec[k] # None => Names(exec[k], k))'
    BY <1>0, <1>20, ExecBacked DEF VerifyThrows, tables
  <2>. QED BY <1>0, <2>1, <2>2, <2>3, OthersBacked DEF Backed
<1>21. ASSUME NEW c \in Call, Crash(c) PROVE Backed'
  <2>1. \A d \in Call : d # c => /\ pc'[d] = pc[d] /\ req'[d] = req[d]
                                 /\ result'[d] = result[d] /\ answer'[d] = answer[d]
    BY <1>21 DEF Crash, Goto, Return, Finish, Proceed, IInv, Typed, ActionTypeOK,
       Begun, tables, locals
  <2>2. BackedCall(c)'
    BY <1>0, <1>21 DEF Crash, Backed, BackedCall, Names, Mentions, Kept, Goto, Return,
       Finish, Proceed, IInv, Typed, ActionTypeOK, Begun, tables, locals
  <2>3. (\A k \in Key : exec[k] # None => Names(exec[k], k))'
    BY <1>0, <1>21, ExecBacked DEF Crash, tables
  <2>. QED BY <1>0, <2>1, <2>2, <2>3, OthersBacked DEF Backed
<1>22. QED BY <1>1, <1>2, <1>3, <1>4, <1>5, <1>6, <1>7, <1>8, <1>9, <1>10, <1>11,
              <1>12, <1>13, <1>14, <1>15, <1>16, <1>17, <1>18, <1>19, <1>20, <1>21 DEF
              Next, Tool, Executor, Finished

-----------------------------------------------------------------------------
(* The theorems. *)

THEOREM InitIInv == Init => IInv
<1>. SUFFICES ASSUME Init PROVE IInv
  OBVIOUS
<1>. USE RequestAssumption, AmountAssumption, NoneAssumption DEF Init
<1>1. Typed
  <2>1. order \in [Order -> OrderRow]
    <3>1. {[status |-> "PROCESSING", shipped |-> FALSE],
           [status |-> "DELIVERED", shipped |-> TRUE]} \subseteq OrderRow
      BY DEF OrderRow
    <3>. QED BY <3>1
  <2>2. NoResult \in ToolResult /\ ~NoResult.ok
    BY DEF NoResult, ToolResult
  <2>3. ActionTypeOK
    BY <2>1, <2>2 DEF ActionTypeOK, Stage
  <2>. QED BY <2>3 DEF Typed, Begun
<1>2. Unspent /\ FromRequest /\ RefundBooked /\ Accounted
  BY DEF Unspent, FromRequest, RefundBooked, Accounted, Attempt
<1>3. Backed
  <2>1. \A c \in Call : ~result[c].ok /\ answer[c] # "EXECUTED"
    BY DEF NoResult, Answer
  <2>. QED BY <2>1 DEF Backed, BackedCall, Names
<1>. QED BY <1>1, <1>2, <1>3 DEF IInv

THEOREM Inductive == Spec => []IInv
<1>1. IInv /\ [Next]_vars => IInv'
  BY StepTyped, StepUnspent, StepFromRequest, StepBacked, StepRefundBooked, StepAccounted
     DEF IInv
<1>. QED BY InitIInv, <1>1, PTL DEF Spec

\* Types are kept, and the stock is never written below zero, however many
\* calls race for the last piece.
THEOREM TypeCorrect == Spec => []ActionTypeOK
<1>1. IInv => ActionTypeOK
  BY DEF IInv, Typed
<1>. QED BY Inductive, <1>1, PTL

\* The refund ledger and the ActionRecords agree: no key is refunded twice and
\* no refund is without its record.
THEOREM RefundsBooked == Spec => []RefundBooked
<1>1. IInv => RefundBooked
  BY DEF IInv
<1>. QED BY Inductive, <1>1, PTL

\* A call answered FAILED has changed nothing, unless one of its commits was
\* not acknowledged.
THEOREM FailureIsClean == Spec => []FailedChangedNothing
<1>1. IInv => FailedChangedNothing
  <2>. SUFFICES ASSUME IInv, NEW a \in Attempt, answer[a[1]] = "FAILED", action[a] # None
                PROVE  a[1] \in lost
    BY DEF FailedChangedNothing
  <2>1. a[1] \in Call
    BY DEF Attempt
  <2>2. pc[a[1]] = "ended"
    BY <2>1, PendingAnswer DEF IInv
  <2>. QED BY <2>2 DEF IInv, Accounted
<1>. QED BY Inductive, <1>1, PTL

\* A call answered EXECUTED names an action committed under its key, or under a
\* key that contains it.
THEOREM ExecutedIsBacked == Spec => []ExecutedIsCommitted
<1>1. IInv => ExecutedIsCommitted
  BY DEF IInv, Backed, BackedCall, Names, ExecutedIsCommitted
<1>. QED BY Inductive, <1>1, PTL

-----------------------------------------------------------------------------
(* The refund tool implements OnceLedger. *)

\* What c was told, who performed the refund of key k, and under which key
\* attempt a did something else.
ToldTo(c) ==
  IF answer[c] = "EXECUTED" /\ req[c].type = "REFUND"
    THEN <<req[c].key, result[c].action>>
    ELSE None
LedgerOf(k) == IF refund[k] = None THEN None ELSE refund[k].by
OtherOf(a) ==
  IF action[a] # None /\ action[a].type # "REFUND" THEN action[a].key ELSE None

\* A success names an attempt that did something under the call's key, or under
\* a key that contains it.
LEMMA DeedNamed ==
  ASSUME IInv, NEW c \in Call, pc[c] # "idle", result[c].ok
  PROVE  /\ req[c].key \in Key /\ result[c].action \in Attempt
         /\ \E l \in Key : /\ l = req[c].key \/ <<req[c].key, l>> \in KeyPrefixes
                           /\ \/ LedgerOf(l) = result[c].action
                              \/ OtherOf(result[c].action) = l
<1>1. req[c].key \in Key
  BY CallFacts DEF IInv
<1>2. PICK a \in Attempt : a = result[c].action /\ Mentions(a, req[c].key)
  BY DEF IInv, Backed, BackedCall, Names
<1>3. action[a] # None /\ action[a] \in ActionRow
  BY <1>2 DEF Mentions, IInv, Typed, ActionTypeOK
<1>4. PICK l \in Key : l = action[a].key
  BY <1>3 DEF ActionRow
<1>5. l = req[c].key \/ <<req[c].key, l>> \in KeyPrefixes
  BY <1>2, <1>4 DEF Mentions
<1>6. CASE action[a].type = "REFUND"
  <2>1. refund[l] # None /\ refund[l].by = a
    BY <1>3, <1>4, <1>6 DEF IInv, RefundBooked
  <2>. QED BY <1>1, <1>2, <1>5, <2>1 DEF LedgerOf
<1>7. CASE action[a].type # "REFUND"
  <2>1. OtherOf(a) = l
    BY <1>3, <1>4, <1>7 DEF OtherOf
  <2>. QED BY <1>1, <1>2, <1>5, <2>1
<1>. QED BY <1>6, <1>7

\* Marking a record leaves it what it was.
LEMMA MarkedOther ==
  ASSUME Marks
  PROVE  \A a \in Attempt : OtherOf(a)' = OtherOf(a)
  BY DEF Marks, Kept, OtherOf

\* Only the executor's last step tells a call anything.
Concludes(c) ==
  /\ pc[c] # "idle" /\ result[c].ok
  /\ UNCHANGED refund
  /\ \A a \in Attempt : OtherOf(a)' = OtherOf(a)
  /\ ToldTo(c) = None
  /\ ToldTo(c)' = <<req[c].key, result[c].action>>
  /\ \A d \in Call : d # c => ToldTo(d)' = ToldTo(d)

\* A step tells at most one call.
LEMMA ToldStep ==
  ASSUME IInv, [Next]_vars
  PROVE  \/ \A c \in Call : ToldTo(c)' = ToldTo(c)
         \/ \E c \in Call : Concludes(c)
<1>. DEFINE Step == \/ \A c \in Call : ToldTo(c)' = ToldTo(c)
                    \/ \E c \in Call : Concludes(c)
<1>1. ASSUME UNCHANGED vars PROVE Step
  BY <1>1 DEF ToldTo, vars, locals
<1>2. ASSUME NEW c \in Call, Begin(c) PROVE Step
  <2>1. \A d \in Call : d # c => /\ pc'[d] = pc[d] /\ req'[d] = req[d]
                                 /\ result'[d] = result[d] /\ answer'[d] = answer[d]
    BY <1>2 DEF Begin, Goto, Return, Finish, Proceed, IInv, Typed, ActionTypeOK,
       Begun, tables, locals
  <2>2. answer[c] # "EXECUTED"
    BY <1>2, PendingAnswer DEF Begin, IInv
  <2>3. answer'[c] # "EXECUTED"
    BY <1>2, <2>2 DEF Begin, Goto, Return, Finish, Proceed, IInv, Typed, ActionTypeOK,
       Begun, tables, locals
  <2>. QED BY <2>1, <2>2, <2>3 DEF ToldTo
<1>3. ASSUME NEW c \in Call, CheckIdempotency(c) PROVE Step
  <2>1. \A d \in Call : d # c => /\ pc'[d] = pc[d] /\ req'[d] = req[d]
                                 /\ result'[d] = result[d] /\ answer'[d] = answer[d]
    BY <1>3 DEF CheckIdempotency, Goto, Return, Finish, Proceed, IInv, Typed,
       ActionTypeOK, Begun, tables, locals
  <2>2. answer[c] # "EXECUTED"
    BY <1>3, PendingAnswer DEF CheckIdempotency, IInv
  <2>3. answer'[c] # "EXECUTED"
    BY <1>3, <2>2 DEF CheckIdempotency, Goto, Return, Finish, Proceed, IInv, Typed,
       ActionTypeOK, Begun, tables, locals
  <2>. QED BY <2>1, <2>2, <2>3 DEF ToldTo
<1>4. ASSUME NEW c \in Call, LookupRefund(c) PROVE Step
  <2>1. \A d \in Call : d # c => /\ pc'[d] = pc[d] /\ req'[d] = req[d]
                                 /\ result'[d] = result[d] /\ answer'[d] = answer[d]
    BY <1>4 DEF LookupRefund, Goto, Return, Finish, Proceed, IInv, Typed,
       ActionTypeOK, Begun, tables, locals
  <2>2. answer[c] # "EXECUTED"
    BY <1>4, PendingAnswer DEF LookupRefund, IInv
  <2>3. answer'[c] # "EXECUTED"
    BY <1>4, <2>2 DEF LookupRefund, Goto, Return, Finish, Proceed, IInv, Typed,
       ActionTypeOK, Begun, tables, locals
  <2>. QED BY <2>1, <2>2, <2>3 DEF ToldTo
<1>5. ASSUME NEW c \in Call, ReadTables(c) PROVE Step
  <2>1. \A d \in Call : d # c => /\ pc'[d] = pc[d] /\ req'[d] = req[d]
                                 /\ result'[d] = result[d] /\ answer'[d] = answer[d]
    BY <1>5 DEF ReadTables, Goto, Return, Finish, Proceed, IInv, Typed, ActionTypeOK,
       Begun, tables, locals
  <2>2. answer[c] # "EXECUTED"
    BY <1>5, PendingAnswer DEF ReadTables, IInv
  <2>3. answer'[c] # "EXECUTED"
    BY <1>5, <2>2 DEF ReadTables, Goto, Return, Finish, Proceed, IInv, Typed,
       ActionTypeOK, Begun, tables, locals
  <2>. QED BY <2>1, <2>2, <2>3 DEF ToldTo
<1>6. ASSUME NEW c \in Call, CommitRefund(c) PROVE Step
  <2>1. \A d \in Call : d # c => /\ pc'[d] = pc[d] /\ req'[d] = req[d]
                                 /\ result'[d] = result[d] /\ answer'[d] = answer[d]
    BY <1>6 DEF CommitRefund, Committed, Goto, Return, Finish, Proceed, IInv, Typed,
       ActionTypeOK, Begun, tables, locals
  <2>2. answer[c] # "EXECUTED"
    BY <1>6, PendingAnswer DEF CommitRefund, IInv
  <2>3. answer'[c] # "EXECUTED"
    BY <1>6, <2>2 DEF CommitRefund, Committed, Goto, Return, Finish, Proceed, IInv,
       Typed, ActionTypeOK, Begun, tables, locals
  <2>. QED BY <2>1, <2>2, <2>3 DEF ToldTo
<1>7. ASSUME NEW c \in Call, DuplicateRefund(c) PROVE Step
  <2>1. \A d \in Call : d # c => /\ pc'[d] = pc[d] /\ req'[d] = req[d]
                                 /\ result'[d] = result[d] /\ answer'[d] = answer[d]
    BY <1>7 DEF DuplicateRefund, Goto, Return, Finish, Proceed, IInv, Typed,
       ActionTypeOK, Begun, tables, locals
  <2>2. answer[c] # "EXECUTED"
    BY <1>7, PendingAnswer DEF DuplicateRefund, IInv
  <2>3. answer'[c] # "EXECUTED"
    BY <1>7, <2>2 DEF DuplicateRefund, Goto, Return, Finish, Proceed, IInv, Typed,
       ActionTypeOK, Begun, tables, locals
  <2>. QED BY <2>1, <2>2, <2>3 DEF ToldTo
<1>8. ASSUME NEW c \in Call, CommitReplacement(c) PROVE Step
  <2>1. \A d \in Call : d # c => /\ pc'[d] = pc[d] /\ req'[d] = req[d]
                                 /\ result'[d] = result[d] /\ answer'[d] = answer[d]
    BY <1>8 DEF CommitReplacement, Committed, Goto, Return, Finish, Proceed, IInv,
       Typed, ActionTypeOK, Begun, tables, locals
  <2>2. answer[c] # "EXECUTED"
    BY <1>8, PendingAnswer DEF CommitReplacement, IInv
  <2>3. answer'[c] # "EXECUTED"
    BY <1>8, <2>2 DEF CommitReplacement, Committed, Goto, Return, Finish, Proceed,
       IInv, Typed, ActionTypeOK, Begun, tables, locals
  <2>. QED BY <2>1, <2>2, <2>3 DEF ToldTo
<1>9. ASSUME NEW c \in Call, CommitCancellation(c) PROVE Step
  <2>1. \A d \in Call : d # c => /\ pc'[d] = pc[d] /\ req'[d] = req[d]
                                 /\ result'[d] = result[d] /\ answer'[d] = answer[d]
    BY <1>9 DEF CommitCancellation, Committed, Goto, Return, Finish, Proceed, IInv,
       Typed, ActionTypeOK, Begun, tables, locals
  <2>2. answer[c] # "EXECUTED"
    BY <1>9, PendingAnswer DEF CommitCancellation, IInv
  <2>3. answer'[c] # "EXECUTED"
    BY <1>9, <2>2 DEF CommitCancellation, Committed, Goto, Return, Finish, Proceed,
       IInv, Typed, ActionTypeOK, Begun, tables, locals
  <2>. QED BY <2>1, <2>2, <2>3 DEF ToldTo
<1>10. ASSUME NEW c \in Call, CommitCoupon(c) PROVE Step
  <2>1. \A d \in Call : d # c => /\ pc'[d] = pc[d] /\ req'[d] = req[d]
                                 /\ result'[d] = result[d] /\ answer'[d] = answer[d]
    BY <1>10 DEF CommitCoupon, Committed, Goto, Return, Finish, Proceed, IInv, Typed,
       ActionTypeOK, Begun, tables, locals
  <2>2. answer[c] # "EXECUTED"
    BY <1>10, PendingAnswer DEF CommitCoupon, IInv
  <2>3. answer'[c] # "EXECUTED"
    BY <1>10, <2>2 DEF CommitCoupon, Committed, Goto, Return, Finish, Proceed, IInv,
       Typed, ActionTypeOK, Begun, tables, locals
  <2>. QED BY <2>1, <2>2, <2>3 DEF ToldTo
<1>11. ASSUME NEW c \in Call, CommitEscalation(c) PROVE Step
  <2>1. \A d \in Call : d # c => /\ pc'[d] = pc[d] /\ req'[d] = req[d]
                                 /\ result'[d] = result[d] /\ answer'[d] = answer[d]
    BY <1>11 DEF CommitEscalation, Committed, Goto, Return, Finish, Proceed, IInv,
       Typed, ActionTypeOK, Begun, tables, locals
  <2>2. answer[c] # "EXECUTED"
    BY <1>11, PendingAnswer DEF CommitEscalation, IInv
  <2>3. answer'[c] # "EXECUTED"
    BY <1>11, <2>2 DEF CommitEscalation, Committed, Goto, Return, Finish, Proceed,
       IInv, Typed, ActionTypeOK, Begun, tables, locals
  <2>. QED BY <2>1, <2>2, <2>3 DEF ToldTo
<1>12. ASSUME NEW c \in Call, RollBack(c) PROVE Step
  <2>1. \A d \in Call : d # c => /\ pc'[d] = pc[d] /\ req'[d] = req[d]
                                 /\ result'[d] = result[d] /\ answer'[d] = answer[d]
    BY <1>12 DEF RollBack, Goto, Return, Finish, Proceed, IInv, Typed, ActionTypeOK,
       Begun, tables, locals
  <2>2. answer[c] # "EXECUTED"
    BY <1>12, PendingAnswer DEF RollBack, IInv
  <2>3. answer'[c] # "EXECUTED"
    BY <1>12, <2>2 DEF RollBack, Goto, Return, Finish, Proceed, IInv, Typed,
       ActionTypeOK, Begun, tables, locals
  <2>. QED BY <2>1, <2>2, <2>3 DEF ToldTo
<1>13. ASSUME NEW c \in Call, SalvageReplacement(c) PROVE Step
  <2>1. \A d \in Call : d # c => /\ pc'[d] = pc[d] /\ req'[d] = req[d]
                                 /\ result'[d] = result[d] /\ answer'[d] = answer[d]
    BY <1>13 DEF SalvageReplacement, Goto, Return, Finish, Proceed, IInv, Typed,
       ActionTypeOK, Begun, tables, locals
  <2>2. answer[c] # "EXECUTED"
    BY <1>13, PendingAnswer DEF SalvageReplacement, IInv
  <2>3. answer'[c] # "EXECUTED"
    BY <1>13, <2>2 DEF SalvageReplacement, Goto, Return, Finish, Proceed, IInv, Typed,
       ActionTypeOK, Begun, tables, locals
  <2>. QED BY <2>1, <2>2, <2>3 DEF ToldTo
<1>14. ASSUME NEW c \in Call, RecordExecution(c) PROVE Step
  <2>1. \A d \in Call : d # c => /\ pc'[d] = pc[d] /\ req'[d] = req[d]
                                 /\ result'[d] = result[d] /\ answer'[d] = answer[d]
    BY <1>14 DEF RecordExecution, Goto, Return, Finish, Proceed, IInv, Typed,
       ActionTypeOK, Begun, tables, locals
  <2>2. answer[c] # "EXECUTED"
    BY <1>14, PendingAnswer DEF RecordExecution, IInv
  <2>3. answer'[c] # "EXECUTED"
    BY <1>14, <2>2 DEF RecordExecution, Goto, Return, Finish, Proceed, IInv, Typed,
       ActionTypeOK, Begun, tables, locals
  <2>. QED BY <2>1, <2>2, <2>3 DEF ToldTo
<1>15. ASSUME NEW c \in Call, ReadThrows(c) PROVE Step
  <2>1. \A d \in Call : d # c => /\ pc'[d] = pc[d] /\ req'[d] = req[d]
                                 /\ result'[d] = result[d] /\ answer'[d] = answer[d]
    BY <1>15 DEF ReadThrows, Goto, Return, Finish, Proceed, IInv, Typed, ActionTypeOK,
       Begun, tables, locals
  <2>2. answer[c] # "EXECUTED"
    BY <1>15, PendingAnswer DEF ReadThrows, IInv
  <2>3. answer'[c] # "EXECUTED"
    BY <1>15, <2>2 DEF ReadThrows, Goto, Return, Finish, Proceed, IInv, Typed,
       ActionTypeOK, Begun, tables, locals
  <2>. QED BY <2>1, <2>2, <2>3 DEF ToldTo
<1>16. ASSUME NEW c \in Call, ConfirmDone(c) PROVE Step
  <2>1. \A d \in Call : d # c => /\ pc'[d] = pc[d] /\ req'[d] = req[d]
                                 /\ result'[d] = result[d] /\ answer'[d] = answer[d]
    BY <1>16 DEF ConfirmDone, Goto, Return, Finish, Proceed, IInv, Typed,
       ActionTypeOK, Begun, tables, locals
  <2>2. answer[c] # "EXECUTED"
    BY <1>16, PendingAnswer DEF ConfirmDone, IInv
  <2>3. answer'[c] # "EXECUTED"
    BY <1>16, <2>2 DEF ConfirmDone, Goto, Return, Finish, Proceed, IInv, Typed,
       ActionTypeOK, Begun, tables, locals
  <2>. QED BY <2>1, <2>2, <2>3 DEF ToldTo
<1>17. ASSUME NEW c \in Call, Retry(c) PROVE Step
  <2>1. \A d \in Call : d # c => /\ pc'[d] = pc[d] /\ req'[d] = req[d]
                                 /\ result'[d] = result[d] /\ answer'[d] = answer[d]
    BY <1>17 DEF Retry, Goto, Return, Finish, Proceed, IInv, Typed, ActionTypeOK,
       Begun, tables, locals
  <2>2. answer[c] # "EXECUTED"
    BY <1>17, PendingAnswer DEF Retry, IInv
  <2>3. answer'[c] # "EXECUTED"
    BY <1>17, <2>2 DEF Retry, Goto, Return, Finish, Proceed, IInv, Typed,
       ActionTypeOK, Begun, tables, locals
  <2>. QED BY <2>1, <2>2, <2>3 DEF ToldTo
<1>18. ASSUME NEW c \in Call, VerifyAction(c) PROVE Step
  <2>1. \A d \in Call : d # c => /\ pc'[d] = pc[d] /\ req'[d] = req[d]
                                 /\ result'[d] = result[d] /\ answer'[d] = answer[d]
    BY <1>18 DEF VerifyAction, Goto, Return, Finish, Proceed, IInv, Typed,
       ActionTypeOK, Begun, tables, locals
  <2>2. answer[c] # "EXECUTED"
    BY <1>18, PendingAnswer DEF VerifyAction, IInv
  <2>3. answer'[c] # "EXECUTED"
    BY <1>18, <2>2 DEF VerifyAction, Goto, Return, Finish, Proceed, IInv, Typed,
       ActionTypeOK, Begun, tables, locals
  <2>. QED BY <2>1, <2>2, <2>3 DEF ToldTo
<1>19. ASSUME NEW c \in Call, Conclude(c) PROVE Step
  <2>1. \A d \in Call : d # c => /\ pc'[d] = pc[d] /\ req'[d] = req[d]
                                 /\ result'[d] = result[d] /\ answer'[d] = answer[d]
    BY <1>19 DEF Conclude, Goto, Return, Finish, Proceed, IInv, Typed, ActionTypeOK,
       Begun, tables, locals
  <2>2. pc[c] # "idle" /\ answer[c] # "EXECUTED" /\ UNCHANGED <<req, result, refund>>
    BY <1>19, PendingAnswer DEF Conclude, IInv
  <2>3. CASE pc[c] = "verified" /\ req[c].type = "REFUND" /\ answer'[c] = "EXECUTED"
    <3>1. result[c].ok
      BY <2>3 DEF IInv, Backed, BackedCall
    <3>2. UNCHANGED action \/ Marks
      BY <1>19, <2>3, <3>1, ResultCommitted, MarkKeeps DEF Conclude, Marks
    <3>3. \A a \in Attempt : OtherOf(a)' = OtherOf(a)
      BY <3>2, MarkedOther DEF OtherOf
    <3>. QED BY <2>1, <2>2, <2>3, <3>1, <3>3 DEF Concludes, ToldTo
  <2>4. CASE req[c].type # "REFUND" \/ answer'[c] # "EXECUTED"
    BY <2>1, <2>2, <2>4 DEF ToldTo
  <2>5. answer'[c] = "EXECUTED" => pc[c] = "verified"
    BY <1>19 DEF Conclude, Return, Goto, IInv, Typed, ActionTypeOK
  <2>. QED BY <2>3, <2>4, <2>5
<1>20. ASSUME NEW c \in Call, VerifyThrows(c) PROVE Step
  <2>1. \A d \in Call : d # c => /\ pc'[d] = pc[d] /\ req'[d] = req[d]
                                 /\ result'[d] = result[d] /\ answer'[d] = answer[d]
    BY <1>20 DEF VerifyThrows, Goto, Return, Finish, Proceed, IInv, Typed,
       ActionTypeOK, Begun, tables, locals
  <2>2. answer[c] # "EXECUTED"
    BY <1>20, PendingAnswer DEF VerifyThrows, IInv
  <2>3. answer'[c] # "EXECUTED"
    BY <1>20, <2>2 DEF VerifyThrows, Goto, Return, Finish, Proceed, IInv, Typed,
       ActionTypeOK, Begun, tables, locals
  <2>. QED BY <2>1, <2>2, <2>3 DEF ToldTo
<1>21. ASSUME NEW c \in Call, Crash(c) PROVE Step
  <2>1. \A d \in Call : d # c => /\ pc'[d] = pc[d] /\ req'[d] = req[d]
                                 /\ result'[d] = result[d] /\ answer'[d] = answer[d]
    BY <1>21 DEF Crash, Goto, Return, Finish, Proceed, IInv, Typed, ActionTypeOK,
       Begun, tables, locals
  <2>2. answer[c] # "EXECUTED"
    BY <1>21, PendingAnswer DEF Crash, IInv
  <2>3. answer'[c] # "EXECUTED"
    BY <1>21, <2>2 DEF Crash, Goto, Return, Finish, Proceed, IInv, Typed,
       ActionTypeOK, Begun, tables, locals
  <2>. QED BY <2>1, <2>2, <2>3 DEF ToldTo
<1>22. QED BY <1>1, <1>2, <1>3, <1>4, <1>5, <1>6, <1>7, <1>8, <1>9, <1>10, <1>11,
              <1>12, <1>13, <1>14, <1>15, <1>16, <1>17, <1>18, <1>19, <1>20, <1>21 DEF
              Next, Tool, Executor, Finished

\* The refund tool performs each key once, and a call is told that its refund
\* was performed only on account of what was done under its key or a key that
\* contains it, whatever crashes, retries and repeated calls do.
THEOREM Refinement == Spec => ImplementsOnceLedger
<1>1. Init => Ledger!Init
  <2>. SUFFICES ASSUME Init PROVE Ledger!Init
    OBVIOUS
  <2>1. \A k \in Key : refund[k] = None
    BY DEF Init
  <2>2. \A c \in Call : answer[c] # "EXECUTED"
    BY NoneAssumption DEF Init, Answer
  <2>3. \A a \in Attempt : action[a] = None
    BY DEF Init
  <2>. QED BY <2>1, <2>2, <2>3 DEF Ledger!Init
<1>2. IInv /\ [Next]_vars => [Ledger!Next]_Ledger!vars
  <2>. SUFFICES ASSUME IInv, [Next]_vars
                PROVE  [Ledger!Next]_Ledger!vars
    OBVIOUS
  <2>. DEFINE SameTold == \A c \in Call : ToldTo(c)' = ToldTo(c)
              SameOther == \A a \in Attempt : OtherOf(a)' = OtherOf(a)
  <2>1. CASE UNCHANGED refund /\ SameOther /\ SameTold
    BY <2>1 DEF ToldTo, OtherOf, Ledger!vars
  <2>2. ASSUME NEW c \in Call, Concludes(c)
        PROVE  Ledger!Next
    <3>1. PICK k \in Key, a \in Attempt :
            /\ k = req[c].key /\ a = result[c].action
            /\ \E l \in Key : /\ l = k \/ <<k, l>> \in KeyPrefixes
                              /\ LedgerOf(l) = a \/ OtherOf(a) = l
      BY <2>2, DeedNamed DEF Concludes
    <3>2. \E l \in Key : (l = k \/ <<k, l>> \in KeyPrefixes) /\ Ledger!Did(l, a)
      BY <3>1 DEF Ledger!Did, LedgerOf, OtherOf
    <3>3. [d \in Call |-> ToldTo(d)]'
            = [[d \in Call |-> ToldTo(d)] EXCEPT ![c] = <<k, a>>]
      BY <2>2, <3>1 DEF Concludes
    <3>4. /\ [d \in Call |-> ToldTo(d)][c] = None
          /\ [d \in Call |-> ToldTo(d)]'[c] = <<k, a>>
      BY <2>2, <3>1 DEF Concludes
    <3>5. /\ [l \in Key |-> LedgerOf(l)]' = [l \in Key |-> LedgerOf(l)]
          /\ [b \in Attempt |-> OtherOf(b)]' = [b \in Attempt |-> OtherOf(b)]
      BY <2>2 DEF Concludes, LedgerOf
    <3>6. Ledger!Confirm(k, a, c)
      BY <3>2, <3>3, <3>4, <3>5 DEF Ledger!Confirm, ToldTo, LedgerOf, OtherOf
    <3>. QED BY <3>6 DEF Ledger!Next
  <2>3. ASSUME NEW c \in Call, CommitRefund(c), Creates(c), SameTold
        PROVE  Ledger!Next
    <3>1. req[c].key \in Key /\ Own(c) \in Attempt /\ req[c].type = "REFUND"
      BY <2>3, CallFacts DEF IInv, CommitRefund
    <3>2. PICK k \in Key, a \in Attempt : k = req[c].key /\ a = Own(c)
      BY <3>1
    <3>3. /\ refund[k] = None /\ refund'[k] # None /\ refund'[k].by = a
          /\ \A l \in Key : l # k => refund'[l] = refund[l]
      BY <2>3, <3>2, RefundAdded
    <3>4. \A l \in Key : LedgerOf(l)' = IF l = k THEN a ELSE LedgerOf(l)
      BY <3>3 DEF LedgerOf
    <3>5. /\ [l \in Key |-> LedgerOf(l)][k] = None
          /\ [l \in Key |-> LedgerOf(l)]'[k] = a
          /\ [l \in Key |-> LedgerOf(l)]' = [[l \in Key |-> LedgerOf(l)] EXCEPT ![k] = a]
      BY <3>3, <3>4 DEF LedgerOf
    <3>6. SameOther
      BY <2>3, <3>1 DEF Creates, OtherOf
    <3>7. /\ [d \in Call |-> ToldTo(d)]' = [d \in Call |-> ToldTo(d)]
          /\ [b \in Attempt |-> OtherOf(b)]' = [b \in Attempt |-> OtherOf(b)]
      BY <2>3, <3>6
    <3>8. Ledger!Perform(k, a)
      BY <3>5, <3>7 DEF Ledger!Perform, ToldTo, LedgerOf, OtherOf
    <3>. QED BY <3>8 DEF Ledger!Next
  <2>4. ASSUME NEW c \in Call, Creates(c), req[c].type # "REFUND", UNCHANGED refund,
               SameTold
        PROVE  Ledger!Next
    <3>1. PICK k \in Key, a \in Attempt : k = req[c].key /\ a = Own(c)
      BY <2>4, RequestAssumption DEF Creates, RequestType
    <3>2. \A b \in Attempt : OtherOf(b)' = IF b = a THEN k ELSE OtherOf(b)
      BY <2>4, <3>1 DEF Creates, OtherOf
    <3>3. OtherOf(a) = None
      BY <2>4, <3>1 DEF Creates, OtherOf
    <3>4. /\ [b \in Attempt |-> OtherOf(b)][a] = None
          /\ [b \in Attempt |-> OtherOf(b)]'[a] = k
          /\ [b \in Attempt |-> OtherOf(b)]'
               = [[b \in Attempt |-> OtherOf(b)] EXCEPT ![a] = k]
      BY <3>2, <3>3
    <3>5. /\ [d \in Call |-> ToldTo(d)]' = [d \in Call |-> ToldTo(d)]
          /\ [l \in Key |-> LedgerOf(l)]' = [l \in Key |-> LedgerOf(l)]
      BY <2>4 DEF LedgerOf
    <3>6. Ledger!DoOther(k, a)
      BY <3>4, <3>5 DEF Ledger!DoOther, ToldTo, LedgerOf, OtherOf
    <3>. QED BY <3>6 DEF Ledger!Next
  <2>5. CASE \E c \in Call : Concludes(c)
    BY <2>2, <2>5
  <2>6. CASE SameTold
    <3>1. UNCHANGED <<action, refund>> => UNCHANGED refund /\ SameOther
      BY DEF OtherOf
    <3>2. Marks => SameOther
      BY MarkedOther
    <3>. QED BY <2>1, <2>3, <2>4, <2>6, <3>1, <3>2, TableStep
  <2>. QED BY <2>5, <2>6, ToldStep
<1>. QED BY Inductive, <1>1, <1>2, PTL DEF Spec, ImplementsOnceLedger, Ledger!Spec

=============================================================================
