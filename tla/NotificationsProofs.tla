-------------------------- MODULE NotificationsProofs --------------------------
(***************************************************************************)
(* Proofs about Notifications, for any events, calls and bounds.            *)
(***************************************************************************)
EXTENDS Notifications, TLAPS

\* What a call relies on: the row it works on exists; what it says was sent was;
\* and of a resolution it speaks only if there is one.
CallOK(c) ==
  call[c] # None =>
    /\ call[c].pc \notin {"evidence", "next"} => call[c].to \in Recipient
    /\ call[c].pc \notin {"evidence", "next", "create"} => row[Its(c)] # None
    /\ call[c].pc = "markSent" => delivered[Its(c)] > 0
    /\ call[c].pc = "evidence" => call[c].event = "RESOLUTION_COMPLETED"
    /\ call[c].event = "RESOLUTION_COMPLETED" => once /\ (call[c].pc # "evidence" => evidence)

\* Each retry allows for as many tries as a row may have attempts.
Budget ==
  \A k \in Key : tries[k] <= MaxAttempts * retries[k] + (IF row[k] = None THEN 0 ELSE row[k].attempts)

Inv ==
  /\ NotificationTypeOK
  /\ completed => once
  /\ \A c \in Call : CallOK(c)
  /\ ResolutionGrounded
  /\ SentWasDelivered
  /\ Budget

-----------------------------------------------------------------------------
(* Most steps change one call and at most one row. *)

LEMMA KeyOf ==
  ASSUME NotificationTypeOK, NEW c \in Call, call[c] # None, call[c].to \in Recipient
  PROVE  Its(c) \in Key /\ Its(c)[1] = call[c].event /\ Its(c)[2] = call[c].to /\ call[c] \in CallRecord
  BY DEF NotificationTypeOK, Its, Key, CallRecord

\* The other calls do not notice, as long as rows stay and counts only grow.
LEMMA Others ==
  ASSUME Inv, NEW c \in Call, NEW v, call' = [call EXCEPT ![c] = v],
         \A k \in Key : row[k] # None => row'[k] # None,
         \A k \in Key : delivered'[k] >= delivered[k],
         delivered' \in [Key -> Nat],
         once => once', evidence => evidence'
  PROVE  \A d \in Call \ {c} : CallOK(d)'
<1>1. TAKE d \in Call \ {c}
<1>2. call'[d] = call[d] /\ CallOK(d)
  BY DEF Inv, NotificationTypeOK
<1>3. call[d] # None => call[d] \in CallRecord
  BY DEF Inv, NotificationTypeOK
<1>4. Its(d)' = Its(d)
  BY <1>2 DEF Its
<1>5. call[d] # None /\ call[d].to \in Recipient => Its(d) \in Key
  BY <1>3, KeyOf DEF Inv
<1>6. CASE call[d] = None
  BY <1>2, <1>6 DEF CallOK
<1>7. CASE call[d] # None
  <2>1. call[d].pc \notin {"evidence", "next"} => Its(d) \in Key
    BY <1>2, <1>5, <1>7 DEF CallOK
  <2>2. call[d].pc \notin {"evidence", "next", "create"} => row'[Its(d)] # None
    BY <1>2, <1>7, <2>1 DEF CallOK
  <2>3. call[d].pc = "markSent" => delivered'[Its(d)] > 0
    BY <1>2, <1>7, <2>1 DEF CallOK, Inv, NotificationTypeOK
  <2>4. call[d].event = "RESOLUTION_COMPLETED" => once' /\ (call[d].pc # "evidence" => evidence')
    BY <1>2, <1>7 DEF CallOK
  <2>5. call[d].pc = "evidence" => call[d].event = "RESOLUTION_COMPLETED"
    BY <1>2, <1>7 DEF CallOK
  <2> QED BY <1>2, <1>4, <1>7, <2>2, <2>3, <2>4, <2>5 DEF CallOK
<1> QED BY <1>6, <1>7

\* A step that changes nothing but a call keeps the rest.
LEMMA CallOnly ==
  ASSUME Inv, NEW c \in Call, NEW v \in CallRecord \cup {None},
         call' = [call EXCEPT ![c] = v], UNCHANGED <<row, Business, History>>, CallOK(c)'
  PROVE  Inv'
<1>1. call' \in [Call -> CallRecord \cup {None}]
  BY DEF Inv, NotificationTypeOK
<1>2. \A d \in Call \ {c} : CallOK(d)'
  <2>1. (\A k \in Key : row[k] # None => row'[k] # None) /\ (once => once') /\ (evidence => evidence')
    BY DEF Business
  <2>2. (\A k \in Key : delivered'[k] >= delivered[k]) /\ delivered' \in [Key -> Nat]
    BY DEF Inv, NotificationTypeOK, History
  <2> QED BY <2>1, <2>2, Others
<1>3. NotificationTypeOK' /\ (completed => once)'
  BY <1>1 DEF Inv, NotificationTypeOK, Business, History
<1>4. ResolutionGrounded' /\ SentWasDelivered' /\ Budget'
  BY DEF Inv, ResolutionGrounded, SentWasDelivered, Budget, Business, History
<1> QED BY <1>2, <1>3, <1>4 DEF Inv

\* The rows of a step that writes one row and moves one call.
LEMMA RowAndCall ==
  ASSUME Inv, NEW c \in Call, NEW k \in Key, NEW r \in Row, NEW v \in CallRecord \cup {None},
         row' = [row EXCEPT ![k] = r], call' = [call EXCEPT ![c] = v],
         UNCHANGED <<Business, delivered>>,
         tries' \in [Key -> Nat], retries' \in [Key -> Nat],
         CallOK(c)',
         r.status = "SENT" => delivered[k] > 0,
         k[1] = "RESOLUTION_COMPLETED" => once /\ evidence,
         Budget'
  PROVE  Inv'
<1>1. call' \in [Call -> CallRecord \cup {None}] /\ row' \in [Key -> Row \cup {None}]
  BY DEF Inv, NotificationTypeOK
<1>0. None \notin Row
  BY NotificationAssumption
<1>2. \A q \in Key : row'[q] = IF q = k THEN r ELSE row[q]
  BY DEF Inv, NotificationTypeOK
<1>3. \A d \in Call \ {c} : CallOK(d)'
  <2>1. (\A q \in Key : row[q] # None => row'[q] # None) /\ (once => once') /\ (evidence => evidence')
    BY <1>0, <1>2 DEF Business
  <2>2. (\A q \in Key : delivered'[q] >= delivered[q]) /\ delivered' \in [Key -> Nat]
    BY DEF Inv, NotificationTypeOK
  <2> QED BY <2>1, <2>2, Others
<1>4. NotificationTypeOK' /\ (completed => once)'
  BY <1>1 DEF Inv, NotificationTypeOK, Business
<1>5. ResolutionGrounded'
  BY <1>2 DEF Inv, ResolutionGrounded, Business
<1>6. SentWasDelivered'
  BY <1>2 DEF Inv, SentWasDelivered
<1> QED BY <1>3, <1>4, <1>5, <1>6 DEF Inv

\* What a call to dispatch starts from.
LEMMA DispatchOK ==
  ASSUME Inv, NEW c \in Call, NEW e \in Event, Dispatch(c, e), e = "RESOLUTION_COMPLETED" => once' /\ evidence'
  PROVE  \E v \in CallRecord : call' = [call EXCEPT ![c] = v] /\ CallOK(c)'
<1>1. PICK known \in BOOLEAN : call' = [call EXCEPT ![c] =
        [NewCall(e, "next") EXCEPT !.todo = IF known THEN Recipients(e) ELSE Recipients(e) \ {"CUSTOMER"}]]
  BY DEF Dispatch
<1> DEFINE todo == IF known THEN Recipients(e) ELSE Recipients(e) \ {"CUSTOMER"}
           v == [event |-> e, pc |-> "next", todo |-> todo, to |-> None, attempts |-> 0]
<1>2. todo \in SUBSET Recipient
  BY DEF Recipients, Recipient
<1> HIDE DEF todo
<1>3. v \in CallRecord
  BY <1>2, NotificationAssumption DEF CallRecord
<1>4. [NewCall(e, "next") EXCEPT !.todo = todo] = v
  BY DEF NewCall
<1>7. call' = [call EXCEPT ![c] = v]
  <2>1. call' = [call EXCEPT ![c] = [NewCall(e, "next") EXCEPT !.todo = todo]]
    BY <1>1 DEF todo
  <2> QED BY <1>4, <2>1
<1>5. call'[c] = v
  BY <1>7 DEF Inv, NotificationTypeOK
<1>6. CallOK(c)'
  BY <1>5 DEF CallOK
<1> QED BY <1>3, <1>7, <1>6

-----------------------------------------------------------------------------
(* The steps *)

LEMMA InitInv == Init => Inv
<1> SUFFICES ASSUME Init PROVE Inv
  OBVIOUS
<1>1. NotificationTypeOK
  BY DEF Init, NotificationTypeOK
<1>2. (completed => once) /\ (\A c \in Call : CallOK(c))
  BY DEF Init, CallOK
<1>3. ResolutionGrounded /\ SentWasDelivered
  BY DEF Init, ResolutionGrounded, SentWasDelivered
<1>4. Budget
  BY NotificationAssumption DEF Init, Budget
<1> QED BY <1>1, <1>2, <1>3, <1>4 DEF Inv

LEMMA RunMovesInv == Inv /\ RunMoves => Inv'
<1> SUFFICES ASSUME Inv, RunMoves PROVE Inv'
  OBVIOUS
<1> USE DEF RunMoves
<1>1. NotificationTypeOK'
  BY DEF Inv, NotificationTypeOK
<1>2. (completed' => once') /\ (once => once') /\ (evidence => evidence')
  <2>1. evidence => evidence'
    BY Zenon
  <2>2. once' = (once \/ completed')
    OBVIOUS
  <2> QED BY <2>1, <2>2, Zenon
<1>3. ASSUME NEW c \in Call PROVE CallOK(c)'
  BY <1>2 DEF Inv, CallOK, Its
<1>4. ResolutionGrounded'
  BY <1>2 DEF Inv, ResolutionGrounded
<1>5. SentWasDelivered' /\ Budget'
  BY DEF Inv, SentWasDelivered, Budget
<1> QED BY <1>1, <1>2, <1>3, <1>4, <1>5 DEF Inv

LEMMA MarkReadInv == Inv /\ MarkRead => Inv'
<1> SUFFICES ASSUME Inv, MarkRead PROVE Inv'
  OBVIOUS
<1>1. PICK k \in Key : row[k] # None /\ row' = [row EXCEPT ![k] = [row[k] EXCEPT !.isRead = TRUE]]
  BY DEF MarkRead
<1> DEFINE r == [row[k] EXCEPT !.isRead = TRUE]
<1>2. row[k] \in Row
  BY <1>1 DEF Inv, NotificationTypeOK
<1>3. r \in Row /\ r.status = row[k].status /\ r.attempts = row[k].attempts
  BY <1>2 DEF Row
<1> HIDE DEF r
<1>4. \A q \in Key : row'[q] = IF q = k THEN r ELSE row[q]
  BY <1>1 DEF r, Inv, NotificationTypeOK
<1>5. None \notin Row
  BY NotificationAssumption
<1>6. row' \in [Key -> Row \cup {None}]
  BY <1>1, <1>3 DEF r, Inv, NotificationTypeOK
<1>7. UNCHANGED <<completed, evidence, once, call, tries, delivered, retries>>
  BY DEF MarkRead, Business, History
<1>8. NotificationTypeOK' /\ (completed' => once')
  BY <1>6, <1>7 DEF Inv, NotificationTypeOK
<1>9. ASSUME NEW c \in Call PROVE CallOK(c)'
  <2>1. call'[c] = call[c] /\ Its(c)' = Its(c) /\ CallOK(c)
    BY <1>7 DEF Inv, Its
  <2>2. call[c] # None /\ call[c].to \in Recipient => Its(c) \in Key
    BY KeyOf DEF Inv
  <2>3. \A q \in Key : row[q] # None => row'[q] # None
    BY <1>3, <1>4, <1>5
  <2> QED BY <1>7, <2>1, <2>2, <2>3 DEF CallOK
<1>10. ResolutionGrounded'
  BY <1>1, <1>3, <1>4, <1>7 DEF Inv, ResolutionGrounded
<1>11. SentWasDelivered'
  BY <1>1, <1>3, <1>4, <1>7 DEF Inv, SentWasDelivered
<1>12. Budget'
  <2>1. ASSUME NEW q \in Key
        PROVE tries'[q] <= MaxAttempts * retries'[q] + (IF row'[q] = None THEN 0 ELSE row'[q].attempts)
    <3>1. (IF row'[q] = None THEN 0 ELSE row'[q].attempts) = (IF row[q] = None THEN 0 ELSE row[q].attempts)
      <4>1. CASE q = k
        <5>1. row[q] # None /\ row'[q] # None /\ row'[q] = r
          BY <1>1, <1>3, <1>4, <1>5, <4>1
        <5>2. row'[q].attempts = row[q].attempts
          BY <1>3, <4>1, <5>1
        <5> QED BY <5>1, <5>2
      <4>2. CASE q # k
        BY <1>4, <4>2
      <4> QED BY <4>1, <4>2
    <3> QED BY <1>7, <3>1 DEF Inv, Budget
  <2> QED BY <2>1 DEF Budget
<1> QED BY <1>8, <1>9, <1>10, <1>11, <1>12 DEF Inv

LEMMA NotifyInv == ASSUME Inv, NEW c \in Call, Notify(c) PROVE Inv'
<1>1. PICK e \in Event \ {"RESOLUTION_COMPLETED"} : Dispatch(c, e) /\ UNCHANGED <<row, Business, History>>
  BY DEF Notify
<1>2. PICK v \in CallRecord : call' = [call EXCEPT ![c] = v] /\ CallOK(c)'
  BY <1>1, DispatchOK
<1> QED BY <1>1, <1>2, CallOnly

LEMMA NotifyResolvedInv == ASSUME Inv, NEW c \in Call, NotifyResolved(c) PROVE Inv'
<1> DEFINE v == [event |-> "RESOLUTION_COMPLETED", pc |-> "evidence", todo |-> {}, to |-> None, attempts |-> 0]
<1>1. call' = [call EXCEPT ![c] = v] /\ UNCHANGED <<row, Business, History>> /\ completed
  BY DEF NotifyResolved, NewCall
<1>2. v \in CallRecord
  BY NotificationAssumption DEF CallRecord, NotifyResolved
<1>3. call'[c] = v /\ once'
  BY <1>1 DEF Inv, NotificationTypeOK, Business
<1>4. CallOK(c)'
  BY <1>3 DEF CallOK
<1> QED BY <1>1, <1>2, <1>4, CallOnly

LEMMA SeeEvidenceInv == ASSUME Inv, NEW c \in Call, SeeEvidence(c) PROVE Inv'
<1>1. UNCHANGED <<row, Business, History>>
  BY DEF SeeEvidence
<1>2. CASE evidence
  <2>2. Dispatch(c, "RESOLUTION_COMPLETED")
    BY <1>2 DEF SeeEvidence
  <2>3. "RESOLUTION_COMPLETED" \in Event /\ once
    BY DEF SeeEvidence, At, Inv, CallOK, NotificationTypeOK, CallRecord
  <2>4. once' /\ evidence'
    BY <1>1, <1>2, <2>3 DEF Business
  <2>5. PICK v \in CallRecord : call' = [call EXCEPT ![c] = v] /\ CallOK(c)'
    BY <2>2, <2>3, <2>4, DispatchOK
  <2> QED BY <1>1, <2>5, CallOnly
<1>3. CASE ~evidence
  <2>1. call' = [call EXCEPT ![c] = None]
    BY <1>3 DEF SeeEvidence, Return
  <2>2. call'[c] = None
    BY <2>1 DEF Inv, NotificationTypeOK
  <2>3. CallOK(c)'
    BY <2>2 DEF CallOK
  <2> QED BY <1>1, <2>1, <2>3, CallOnly
<1> QED BY <1>2, <1>3

LEMMA DiesInv == ASSUME Inv, NEW c \in Call, Dies(c) PROVE Inv'
<1>1. call' = [call EXCEPT ![c] = None] /\ UNCHANGED <<row, Business, History>>
  BY DEF Dies, Return
<1>2. call'[c] = None
  BY <1>1 DEF Inv, NotificationTypeOK
<1>3. CallOK(c)'
  BY <1>2 DEF CallOK
<1> QED BY <1>1, <1>3, CallOnly

LEMMA NextRecipientInv == ASSUME Inv, NEW c \in Call, NextRecipient(c) PROVE Inv'
<1>1. UNCHANGED <<row, Business, History>> /\ call[c] # None /\ call[c].pc = "next"
  BY DEF NextRecipient, At
<1>2. CASE call[c].todo = {}
  <2>1. call' = [call EXCEPT ![c] = None]
    BY <1>2 DEF NextRecipient, Return
  <2>2. call'[c] = None
    BY <2>1 DEF Inv, NotificationTypeOK
  <2>3. CallOK(c)'
    BY <2>2 DEF CallOK
  <2> QED BY <1>1, <2>1, <2>3, CallOnly
<1>3. CASE call[c].todo # {}
  <2> DEFINE r == IF "CUSTOMER" \in call[c].todo THEN "CUSTOMER" ELSE "OPERATOR"
             pc == IF HasTemplate(call[c].event, r) THEN "create" ELSE "next"
             v == [call[c] EXCEPT !.todo = @ \ {r}, !.to = r, !.pc = pc]
  <2>1. call' = [call EXCEPT ![c] = v]
    BY <1>3 DEF NextRecipient
  <2>2. r \in Recipient /\ pc \in {"create", "next"}
    BY DEF Recipient
  <2>3. call[c] \in CallRecord
    BY <1>1 DEF Inv, NotificationTypeOK
  <2> HIDE DEF r, pc
  <2>4. v \in CallRecord /\ v.pc = pc /\ v.to = r /\ v.event = call[c].event
    BY <2>2, <2>3 DEF CallRecord
  <2> HIDE DEF v
  <2>5. call'[c] = v
    BY <2>1 DEF Inv, NotificationTypeOK
  <2>6. v.event = "RESOLUTION_COMPLETED" => once' /\ evidence'
    BY <1>1, <2>4 DEF Inv, CallOK, Business
  <2>7. CallOK(c)'
    BY <2>2, <2>4, <2>5, <2>6 DEF CallOK
  <2> QED BY <1>1, <2>1, <2>4, <2>7, CallOnly
<1> QED BY <1>2, <1>3

\* A call that has created or found its row.
LEMMA CreatedInv ==
  ASSUME Inv, NEW c \in Call, At(c, "create"),
         row' = [row EXCEPT ![Its(c)] = CreateOrFind(c)],
         Goto(c, IF CreateOrFind(c).status = "SENT" THEN "next" ELSE "claim"),
         UNCHANGED <<Business, History>>
  PROVE  Inv'
<1> DEFINE k == Its(c)
           r == IF row[k] = None THEN [status |-> "QUEUED", attempts |-> 0, isRead |-> FALSE] ELSE row[k]
           pc == IF r.status = "SENT" THEN "next" ELSE "claim"
           v == [call[c] EXCEPT !.pc = pc]
<1>1. call[c] # None /\ call[c].pc = "create" /\ CallOK(c)
  BY DEF At, Inv
<1>2. k \in Key /\ k[1] = call[c].event /\ call[c] \in CallRecord
  BY <1>1, KeyOf DEF CallOK, Inv
<1> HIDE DEF k
<1>3. row[k] \in Row \cup {None}
  BY <1>2 DEF Inv, NotificationTypeOK
<1>4. r \in Row /\ (row[k] # None => r = row[k]) /\ (row[k] = None => r.status = "QUEUED" /\ r.attempts = 0)
  BY <1>3, NotificationAssumption DEF Row, Status
<1>5. row' = [row EXCEPT ![k] = r]
  BY DEF CreateOrFind, k
<1>19. CreateOrFind(c) = r
  BY DEF CreateOrFind, k
<1> HIDE DEF r
<1>6. row'[k] = r
  BY <1>2, <1>5 DEF Inv, NotificationTypeOK
<1>7. call' = [call EXCEPT ![c] = v]
  BY <1>19 DEF Goto, k
<1>8. pc \in {"next", "claim"}
  OBVIOUS
<1> HIDE DEF pc
<1>9. v \in CallRecord /\ v.pc = pc /\ v.to = call[c].to /\ v.event = call[c].event
  BY <1>2, <1>8 DEF CallRecord
<1> HIDE DEF v
<1>10. call'[c] = v
  BY <1>7 DEF Inv, NotificationTypeOK
<1>11. Its(c)' = k
  BY <1>9, <1>10 DEF Its, k
<1>12. UNCHANGED <<Business, tries, delivered, retries>>
  BY DEF History
<1>13. r # None
  BY <1>4, NotificationAssumption
<1>14. call[c].event = "RESOLUTION_COMPLETED" => once /\ evidence
  BY <1>1 DEF CallOK
<1>15. CallOK(c)'
  BY <1>1, <1>6, <1>8, <1>9, <1>10, <1>11, <1>12, <1>13, <1>14 DEF CallOK, Business
<1>16. Budget'
  <2>1. ASSUME NEW q \in Key
        PROVE  (IF row'[q] = None THEN 0 ELSE row'[q].attempts) = (IF row[q] = None THEN 0 ELSE row[q].attempts)
    <3>1. CASE q = k
      BY <1>4, <1>6, <1>13, <3>1
    <3>2. CASE q # k
      BY <1>5, <3>2 DEF Inv, NotificationTypeOK
    <3> QED BY <3>1, <3>2
  <2> QED BY <1>12, <2>1 DEF Inv, Budget
<1>17. r.status = "SENT" => delivered[k] > 0
  BY <1>2, <1>4 DEF Inv, SentWasDelivered
<1>18. tries' \in [Key -> Nat] /\ retries' \in [Key -> Nat]
  BY <1>12 DEF Inv, NotificationTypeOK
<1> QED BY <1>2, <1>4, <1>5, <1>7, <1>9, <1>12, <1>14, <1>15, <1>16, <1>17, <1>18, RowAndCall

LEMMA CreateInv == ASSUME Inv, NEW c \in Call, Create(c) PROVE Inv'
<1>1. At(c, "create") /\ call[c] # None /\ call[c].pc = "create" /\ CallOK(c) /\ call[c] \in CallRecord
      /\ UNCHANGED <<Business, History>>
  BY DEF Create, At, Inv, NotificationTypeOK
<1>2. CASE Goto(c, "next") /\ UNCHANGED row
  <2> DEFINE v == [call[c] EXCEPT !.pc = "next"]
  <2>1. call' = [call EXCEPT ![c] = v]
    BY <1>2 DEF Goto
  <2>2. v \in CallRecord /\ v.pc = "next" /\ v.to = call[c].to /\ v.event = call[c].event
    BY <1>1 DEF CallRecord
  <2> HIDE DEF v
  <2>3. call'[c] = v
    BY <2>1 DEF Inv, NotificationTypeOK
  <2>4. CallOK(c)'
    BY <1>1, <2>2, <2>3 DEF CallOK, Business
  <2> QED BY <1>1, <1>2, <2>1, <2>2, <2>4, CallOnly
<1>3. CASE /\ row' = [row EXCEPT ![Its(c)] = CreateOrFind(c)]
           /\ Goto(c, IF CreateOrFind(c).status = "SENT" THEN "next" ELSE "claim")
  BY <1>1, <1>3, CreatedInv
<1> QED BY <1>2, <1>3 DEF Create

\* A call that has come to its row.
LEMMA Placed ==
  ASSUME Inv, NEW c \in Call, call[c] # None, call[c].pc \notin {"evidence", "next", "create"}
  PROVE  /\ Its(c) \in Key /\ row[Its(c)] \in Row /\ call[c] \in CallRecord
         /\ call[c].event = "RESOLUTION_COMPLETED" => once /\ evidence
         /\ Its(c)[1] = call[c].event /\ call[c].to \in Recipient
         /\ call[c].attempts \in 0..MaxAttempts
<1>1. CallOK(c)
  BY DEF Inv
<1>2. call[c].to \in Recipient /\ row[Its(c)] # None
  BY <1>1 DEF CallOK
<1>3. Its(c) \in Key /\ Its(c)[1] = call[c].event /\ call[c] \in CallRecord
  BY <1>2, KeyOf DEF Inv
<1>4. row[Its(c)] \in Row
  BY <1>2, <1>3 DEF Inv, NotificationTypeOK
<1>5. call[c].event = "RESOLUTION_COMPLETED" => once /\ evidence
  BY <1>1 DEF CallOK
<1>6. call[c].attempts \in 0..MaxAttempts
  BY <1>3 DEF CallRecord
<1> QED BY <1>2, <1>3, <1>4, <1>5, <1>6

LEMMA SameAttempts ==
  ASSUME NEW r \in CallRecord, NEW pc
  PROVE  [r EXCEPT !.pc = pc] = [r EXCEPT !.pc = pc, !.attempts = r.attempts]
  BY DEF CallRecord

\* A call that goes on, and does no more.
LEMMA GoesOnInv ==
  ASSUME Inv, NEW c \in Call, NEW pc \in {"next", "send", "readFailed", "markFailed"},
         NEW a \in 0..MaxAttempts, call[c] # None, call[c].pc \notin {"evidence", "next", "create"},
         call' = [call EXCEPT ![c] = [call[c] EXCEPT !.pc = pc, !.attempts = a]],
         UNCHANGED <<row, Business, History>>
  PROVE  Inv'
<1> DEFINE v == [call[c] EXCEPT !.pc = pc, !.attempts = a]
<1>1. /\ Its(c) \in Key /\ row[Its(c)] \in Row /\ call[c] \in CallRecord /\ call[c].to \in Recipient
      /\ call[c].event = "RESOLUTION_COMPLETED" => once /\ evidence
  BY Placed
<1>2. call' = [call EXCEPT ![c] = v] /\ v = [call[c] EXCEPT !.pc = pc, !.attempts = a]
  OBVIOUS
<1> HIDE DEF v
<1>7. v \in CallRecord /\ v.pc = pc /\ v.to = call[c].to /\ v.event = call[c].event
  BY <1>1, <1>2 DEF CallRecord
<1>3. call'[c] = v
  BY <1>2 DEF Inv, NotificationTypeOK
<1>4. Its(c)' = Its(c)
  BY <1>3, <1>7 DEF Its
<1>5. row'[Its(c)] # None
  BY <1>1, NotificationAssumption
<1>6. CallOK(c)'
  BY <1>1, <1>3, <1>4, <1>5, <1>7 DEF CallOK, Business
<1> QED BY <1>2, <1>6, <1>7, CallOnly

\* A call that writes its row, with as many attempts as it had, and goes on.
LEMMA WritesInv ==
  ASSUME Inv, NEW c \in Call, NEW status \in Status,
         NEW a \in 0..MaxAttempts, call[c] # None, call[c].pc \notin {"evidence", "next", "create"},
         call' = [call EXCEPT ![c] = [call[c] EXCEPT !.pc = "next", !.attempts = a]],
         row' = [row EXCEPT ![Its(c)] = [row[Its(c)] EXCEPT !.status = status]],
         status = "SENT" => delivered[Its(c)] > 0,
         UNCHANGED <<Business, History>>
  PROVE  Inv'
<1> DEFINE v == [call[c] EXCEPT !.pc = "next", !.attempts = a]
           r == [row[Its(c)] EXCEPT !.status = status]
<1>1. /\ Its(c) \in Key /\ row[Its(c)] \in Row /\ call[c] \in CallRecord /\ Its(c)[1] = call[c].event
      /\ call[c].event = "RESOLUTION_COMPLETED" => once /\ evidence
  BY Placed
<1>2. call' = [call EXCEPT ![c] = v] /\ row' = [row EXCEPT ![Its(c)] = r]
      /\ v = [call[c] EXCEPT !.pc = "next", !.attempts = a]
  OBVIOUS
<1>3. r \in Row /\ r.status = status /\ r.attempts = row[Its(c)].attempts
  BY <1>1 DEF Row
<1> HIDE DEF v, r
<1>10. v \in CallRecord /\ v.pc = "next" /\ v.to = call[c].to /\ v.event = call[c].event
  BY <1>1, <1>2 DEF CallRecord
<1>4. call'[c] = v
  BY <1>2 DEF Inv, NotificationTypeOK
<1>5. CallOK(c)'
  BY <1>1, <1>4, <1>10 DEF CallOK, Business
<1>6. Budget'
  <2>1. ASSUME NEW q \in Key
        PROVE  (IF row'[q] = None THEN 0 ELSE row'[q].attempts) = (IF row[q] = None THEN 0 ELSE row[q].attempts)
    <3>1. CASE q = Its(c)
      <4>1. row'[q] = r
        BY <1>2, <3>1 DEF Inv, NotificationTypeOK
      <4>2. r # None /\ row[q] # None
        BY <1>1, <1>3, <3>1, NotificationAssumption
      <4> QED BY <1>3, <3>1, <4>1, <4>2
    <3>2. CASE q # Its(c)
      BY <1>2, <3>2 DEF Inv, NotificationTypeOK
    <3> QED BY <3>1, <3>2
  <2> QED BY <2>1 DEF Inv, Budget, History
<1>7. tries' \in [Key -> Nat] /\ retries' \in [Key -> Nat] /\ UNCHANGED <<Business, delivered>>
  BY DEF Inv, NotificationTypeOK, History
<1>8. r.status = "SENT" => delivered[Its(c)] > 0
  BY <1>3
<1>9. Its(c)[1] = "RESOLUTION_COMPLETED" => once /\ evidence
  BY <1>1
<1> DEFINE k == Its(c)
<1>11. k \in Key /\ row' = [row EXCEPT ![k] = r] /\ (r.status = "SENT" => delivered[k] > 0)
       /\ (k[1] = "RESOLUTION_COMPLETED" => once /\ evidence)
  BY <1>1, <1>2, <1>8, <1>9
<1> HIDE DEF k
<1>12. call' = [call EXCEPT ![c] = v] /\ v \in CallRecord \cup {None} /\ r \in Row
  BY <1>2, <1>3, <1>10
<1> QED BY <1>5, <1>6, <1>7, <1>11, <1>12, RowAndCall

LEMMA ClaimInv == ASSUME Inv, NEW c \in Call, Claim(c) PROVE Inv'
<1> DEFINE k == Its(c)
           r == [row[k] EXCEPT !.status = "SENDING", !.attempts = row[k].attempts + 1]
           v == [call[c] EXCEPT !.pc = "send", !.attempts = call[c].attempts]
<1>1. call[c] # None /\ call[c].pc \notin {"evidence", "next", "create"}
  BY DEF Claim, At
<1>2. /\ k \in Key /\ row[k] \in Row /\ call[c] \in CallRecord
      /\ call[c].event = "RESOLUTION_COMPLETED" => once /\ evidence
      /\ k[1] = call[c].event /\ call[c].to \in Recipient /\ call[c].attempts \in 0..MaxAttempts
  BY <1>1, Placed
<1>3. CASE ~(row[k].status \in {"QUEUED", "FAILED"} /\ row[k].attempts < MaxAttempts)
  <2>1. Goto(c, "next") /\ UNCHANGED <<row, Business, History>>
    BY <1>3 DEF Claim, Claimable, History
  <2>2. call' = [call EXCEPT ![c] = [call[c] EXCEPT !.pc = "next", !.attempts = call[c].attempts]]
    BY <1>2, <2>1, SameAttempts DEF Goto
  <2> QED BY <1>1, <1>2, <2>1, <2>2, GoesOnInv
<1>4. CASE row[k].status \in {"QUEUED", "FAILED"} /\ row[k].attempts < MaxAttempts
  <2>1. row' = [row EXCEPT ![k] = r] /\ tries' = [tries EXCEPT ![k] = @ + 1] /\ Goto(c, "send")
    <3>1. call[c] # None /\ row[Its(c)].status \in {"QUEUED", "FAILED"} /\ row[Its(c)].attempts < MaxAttempts
      BY <1>1, <1>4
    <3> QED BY <3>1 DEF Claim, Claimable
  <2>2. UNCHANGED <<Business, delivered, retries>>
    BY DEF Claim
  <2>3. r \in Row /\ r.status = "SENDING" /\ r.attempts = row[k].attempts + 1
    <3>1. row[k].attempts + 1 \in 0..MaxAttempts
      BY <1>2, <1>4, NotificationAssumption DEF Row
    <3> HIDE DEF k
    <3> QED BY <1>2, <3>1 DEF Row, Status
  <2>4. call' = [call EXCEPT ![c] = v]
    BY <1>2, <2>1, SameAttempts DEF Goto
  <2>5. v \in CallRecord /\ v.pc = "send" /\ v.to = call[c].to /\ v.event = call[c].event
    BY <1>2 DEF CallRecord
  <2> HIDE DEF v, r
  <2>6. call'[c] = v /\ row'[k] = r
    BY <1>2, <2>1, <2>4 DEF Inv, NotificationTypeOK
  <2>7. Its(c)' = k /\ r # None
    BY <2>3, <2>5, <2>6, NotificationAssumption DEF Its
  <2>8. CallOK(c)'
    BY <1>2, <2>2, <2>5, <2>6, <2>7 DEF CallOK, Business
  <2>9. tries' \in [Key -> Nat] /\ retries' \in [Key -> Nat]
    BY <1>2, <2>1, <2>2 DEF Inv, NotificationTypeOK
  <2>10. Budget'
    <3>1. ASSUME NEW q \in Key
          PROVE  tries'[q] <= MaxAttempts * retries'[q] + (IF row'[q] = None THEN 0 ELSE row'[q].attempts)
      <4>1. CASE q = k
        <5>1. tries'[q] = tries[q] + 1 /\ retries'[q] = retries[q] /\ tries[q] \in Nat /\ retries[q] \in Nat
          BY <1>2, <2>1, <2>2, <4>1 DEF Inv, NotificationTypeOK
        <5>2. row'[q] # None /\ row'[q].attempts = row[q].attempts + 1 /\ row[q] # None
          BY <1>2, <2>3, <2>6, <2>7, <4>1, NotificationAssumption
        <5>3. tries[q] <= MaxAttempts * retries[q] + row[q].attempts /\ row[q].attempts \in Nat
          BY <1>2, <4>1, <5>2, NotificationAssumption DEF Inv, Budget, Row
        <5>4. MaxAttempts * retries[q] \in Nat
          BY <5>1, NotificationAssumption
        <5> HIDE DEF k
        <5> QED BY <5>1, <5>2, <5>3, <5>4
      <4>2. CASE q # k
        <5>1. tries'[q] = tries[q] /\ retries'[q] = retries[q] /\ row'[q] = row[q]
          BY <2>1, <2>2, <4>2 DEF Inv, NotificationTypeOK
        <5> QED BY <5>1 DEF Inv, Budget
      <4> QED BY <4>1, <4>2
    <3> QED BY <3>1 DEF Budget
  <2> HIDE DEF k
  <2> QED BY <1>2, <2>1, <2>2, <2>3, <2>4, <2>5, <2>8, <2>9, <2>10, RowAndCall
<1> QED BY <1>3, <1>4

LEMMA SendInv == ASSUME Inv, NEW c \in Call, Send(c) PROVE Inv'
<1>1. call[c] # None /\ call[c].pc \notin {"evidence", "next", "create"} /\ UNCHANGED <<row, Business, tries, retries>>
  BY DEF Send, At
<1>2. /\ Its(c) \in Key /\ row[Its(c)] \in Row /\ call[c] \in CallRecord
      /\ call[c].event = "RESOLUTION_COMPLETED" => once /\ evidence
      /\ call[c].to \in Recipient /\ call[c].attempts \in 0..MaxAttempts
  BY <1>1, Placed
<1>3. CASE Goto(c, "readFailed") /\ UNCHANGED delivered
  <2>1. call' = [call EXCEPT ![c] = [call[c] EXCEPT !.pc = "readFailed", !.attempts = call[c].attempts]]
    BY <1>2, <1>3, SameAttempts DEF Goto
  <2>2. UNCHANGED <<row, Business, History>>
    BY <1>1, <1>3 DEF History
  <2> QED BY <1>1, <1>2, <2>1, <2>2, GoesOnInv
<1>4. CASE delivered' = [delivered EXCEPT ![Its(c)] = @ + 1] /\ Goto(c, "markSent")
  <2> DEFINE v == [call[c] EXCEPT !.pc = "markSent"]
  <2>1. call' = [call EXCEPT ![c] = v]
    BY <1>4 DEF Goto
  <2>2. v \in CallRecord /\ v.pc = "markSent" /\ v.to = call[c].to /\ v.event = call[c].event
    BY <1>2 DEF CallRecord
  <2> HIDE DEF v
  <2>3. call'[c] = v /\ call' \in [Call -> CallRecord \cup {None}]
    BY <2>1, <2>2 DEF Inv, NotificationTypeOK
  <2>4. delivered' \in [Key -> Nat] /\ (\A q \in Key : delivered'[q] >= delivered[q]) /\ delivered'[Its(c)] > 0
    BY <1>2, <1>4 DEF Inv, NotificationTypeOK
  <2>5. Its(c)' = Its(c) /\ row[Its(c)] # None
    BY <1>2, <2>2, <2>3, NotificationAssumption DEF Its
  <2>6. CallOK(c)'
    BY <1>1, <1>2, <2>2, <2>3, <2>4, <2>5 DEF CallOK, Business
  <2>7. \A d \in Call \ {c} : CallOK(d)'
    <3>1. (\A k \in Key : row[k] # None => row'[k] # None) /\ (once => once') /\ (evidence => evidence')
      BY <1>1 DEF Business
    <3> QED BY <2>1, <2>4, <3>1, Others
  <2>8. NotificationTypeOK' /\ (completed => once)'
    BY <1>1, <2>3, <2>4 DEF Inv, NotificationTypeOK, Business
  <2>9. ResolutionGrounded' /\ Budget'
    BY <1>1 DEF Inv, ResolutionGrounded, Budget, Business
  <2>10. SentWasDelivered'
    <3>1. ASSUME NEW k \in Key, row'[k] # None, row'[k].status = "SENT" PROVE delivered'[k] > 0
      <4>1. delivered[k] > 0 /\ delivered[k] \in Nat /\ delivered'[k] \in Nat /\ delivered'[k] >= delivered[k]
        BY <1>1, <2>4, <3>1 DEF Inv, SentWasDelivered, NotificationTypeOK
      <4> QED BY <4>1
    <3> QED BY <3>1 DEF SentWasDelivered
  <2> QED BY <2>6, <2>7, <2>8, <2>9, <2>10 DEF Inv
<1> QED BY <1>3, <1>4 DEF Send, Deliver

LEMMA MarkSentInv == ASSUME Inv, NEW c \in Call, MarkSent(c) PROVE Inv'
<1>1. call[c] # None /\ call[c].pc = "markSent" /\ Goto(c, "next") /\ UNCHANGED <<Business, History>>
  BY DEF MarkSent, At
<1>2. call[c] \in CallRecord /\ call[c].attempts \in 0..MaxAttempts /\ Its(c) \in Key
  BY <1>1, Placed
<1>3. call' = [call EXCEPT ![c] = [call[c] EXCEPT !.pc = "next", !.attempts = call[c].attempts]]
  BY <1>1, <1>2, SameAttempts DEF Goto
<1>4. CASE UNCHANGED row
  BY <1>1, <1>2, <1>3, <1>4, GoesOnInv
<1>5. CASE SetStatus(c, "SENT")
  <2>1. delivered[Its(c)] > 0
    BY <1>1 DEF Inv, CallOK
  <2>2. row' = [row EXCEPT ![Its(c)] = [row[Its(c)] EXCEPT !.status = "SENT"]] /\ "SENT" \in Status
    BY <1>5 DEF SetStatus, Status
  <2> QED BY <1>1, <1>2, <1>3, <2>1, <2>2, WritesInv
<1> QED BY <1>4, <1>5 DEF MarkSent

LEMMA ReadFailedInv == ASSUME Inv, NEW c \in Call, ReadFailed(c) PROVE Inv'
<1>1. call[c] # None /\ call[c].pc = "readFailed" /\ UNCHANGED <<row, Business, History>>
  BY DEF ReadFailed, At
<1>2. row[Its(c)].attempts \in 0..MaxAttempts
  BY <1>1, Placed DEF Row
<1>3. call' = [call EXCEPT ![c] = [call[c] EXCEPT !.pc = "markFailed", !.attempts = row[Its(c)].attempts]]
  BY DEF ReadFailed
<1> QED BY <1>1, <1>2, <1>3, GoesOnInv

LEMMA MarkFailedInv == ASSUME Inv, NEW c \in Call, MarkFailed(c) PROVE Inv'
<1> DEFINE status == IF call[c].attempts >= MaxAttempts THEN "FAILED_PERMANENTLY" ELSE "FAILED"
<1>1. call[c] # None /\ call[c].pc = "markFailed" /\ UNCHANGED <<Business, History>>
  BY DEF MarkFailed, At
<1>2. call' = [call EXCEPT ![c] = [call[c] EXCEPT !.pc = "next", !.attempts = 0]] /\ 0 \in 0..MaxAttempts
  BY NotificationAssumption DEF MarkFailed
<1>3. CASE UNCHANGED row
  BY <1>1, <1>2, <1>3, GoesOnInv
<1>4. CASE SetStatus(c, status)
  <2>1. status \in Status /\ status # "SENT"
    BY DEF Status
  <2>2. row' = [row EXCEPT ![Its(c)] = [row[Its(c)] EXCEPT !.status = status]]
    BY <1>4 DEF SetStatus
  <2> HIDE DEF status
  <2> QED BY <1>1, <1>2, <2>1, <2>2, WritesInv
<1> QED BY <1>3, <1>4 DEF MarkFailed

LEMMA ReadRetryInv == ASSUME Inv, NEW c \in Call, ReadRetry(c) PROVE Inv'
<1>1. PICK k \in Key :
        /\ row[k] # None /\ UNCHANGED <<row, Business, History>>
        /\ call' = [call EXCEPT ![c] = [event |-> k[1], pc |-> "requeue", todo |-> {}, to |-> k[2],
             attempts |-> IF row[k].status = "FAILED_PERMANENTLY" THEN 0 ELSE row[k].attempts]]
  BY DEF ReadRetry
<1> DEFINE a == IF row[k].status = "FAILED_PERMANENTLY" THEN 0 ELSE row[k].attempts
           v == [event |-> k[1], pc |-> "requeue", todo |-> {}, to |-> k[2], attempts |-> a]
<1>2. a \in 0..MaxAttempts
  BY <1>1, NotificationAssumption DEF Inv, NotificationTypeOK, Row
<1>5. call' = [call EXCEPT ![c] = v]
  BY <1>1
<1> HIDE DEF a
<1>6. k[1] \in Event /\ k[2] \in Recipient /\ k = <<k[1], k[2]>>
  BY DEF Key
<1>7. v \in CallRecord /\ v.pc = "requeue" /\ v.to = k[2] /\ v.event = k[1]
  BY <1>2, <1>6 DEF CallRecord
<1> HIDE DEF v
<1>8. call'[c] = v
  BY <1>5 DEF Inv, NotificationTypeOK
<1>9. Its(c)' = k
  BY <1>6, <1>7, <1>8 DEF Its
<1>10. k[1] = "RESOLUTION_COMPLETED" => once /\ evidence
  BY <1>1 DEF Inv, ResolutionGrounded
<1>11. CallOK(c)'
  BY <1>1, <1>6, <1>7, <1>8, <1>9, <1>10 DEF CallOK, Business
<1> QED BY <1>1, <1>5, <1>7, <1>11, CallOnly

LEMMA RequeueInv == ASSUME Inv, NEW c \in Call, Requeue(c) PROVE Inv'
<1> DEFINE k == Its(c)
           r == [row[k] EXCEPT !.status = "QUEUED", !.attempts = call[c].attempts]
<1>1. call[c] # None /\ call[c].pc = "requeue" /\ UNCHANGED <<Business, tries, delivered>>
  BY DEF Requeue, At
<1>2. /\ k \in Key /\ row[k] \in Row /\ call[c] \in CallRecord
      /\ call[c].event = "RESOLUTION_COMPLETED" => once /\ evidence
      /\ k[1] = call[c].event /\ call[c].attempts \in 0..MaxAttempts
  BY <1>1, Placed
<1>3. row' = [row EXCEPT ![k] = r] /\ retries' = [retries EXCEPT ![k] = @ + 1] /\ Dispatch(c, call[c].event)
  BY DEF Requeue
<1>4. r \in Row /\ r.status = "QUEUED" /\ r.attempts = call[c].attempts
  BY <1>2 DEF Row, Status
<1> HIDE DEF r, k
<1>5. call[c].event \in Event /\ (call[c].event = "RESOLUTION_COMPLETED" => once' /\ evidence')
  BY <1>1, <1>2 DEF CallRecord, Business
<1>6. PICK v \in CallRecord : call' = [call EXCEPT ![c] = v] /\ CallOK(c)'
  BY <1>3, <1>5, DispatchOK
<1>7. tries' \in [Key -> Nat] /\ retries' \in [Key -> Nat]
  BY <1>1, <1>2, <1>3 DEF Inv, NotificationTypeOK
<1>8. Budget'
  <2>1. ASSUME NEW q \in Key
        PROVE  tries'[q] <= MaxAttempts * retries'[q] + (IF row'[q] = None THEN 0 ELSE row'[q].attempts)
    <3>1. CASE q = k
      <4>1. tries'[q] = tries[q] /\ retries'[q] = retries[q] + 1 /\ tries[q] \in Nat /\ retries[q] \in Nat
        BY <1>1, <1>2, <1>3, <3>1 DEF Inv, NotificationTypeOK
      <4>2. row'[q] = r /\ row'[q] # None /\ row[q] # None
        BY <1>2, <1>3, <1>4, <3>1, NotificationAssumption DEF Inv, NotificationTypeOK
      <4>3. tries[q] <= MaxAttempts * retries[q] + row[q].attempts /\ row[q].attempts \in 0..MaxAttempts
        BY <1>2, <3>1, <4>2 DEF Inv, Budget, Row
      <4>4. MaxAttempts * retries[q] \in Nat /\ MaxAttempts * (retries[q] + 1) = MaxAttempts * retries[q] + MaxAttempts
        <5>1. \A m, n \in Nat : m * n \in Nat /\ m * (n + 1) = m * n + m
          OBVIOUS
        <5> QED BY <4>1, <5>1, NotificationAssumption
      <4>5. row'[q].attempts \in Nat
        BY <1>2, <1>4, <4>2, NotificationAssumption
      <4> QED BY <4>1, <4>2, <4>3, <4>4, <4>5, NotificationAssumption
    <3>2. CASE q # k
      <4>1. tries'[q] = tries[q] /\ retries'[q] = retries[q] /\ row'[q] = row[q]
        BY <1>1, <1>3, <3>2 DEF Inv, NotificationTypeOK
      <4> QED BY <4>1 DEF Inv, Budget
    <3> QED BY <3>1, <3>2
  <2> QED BY <2>1 DEF Budget
<1>9. k[1] = "RESOLUTION_COMPLETED" => once /\ evidence
  BY <1>2
<1> QED BY <1>1, <1>2, <1>3, <1>4, <1>6, <1>7, <1>8, <1>9, RowAndCall

-----------------------------------------------------------------------------
(* The theorems *)

\* The invariant holds in every reachable state: every step of a dispatch, a
\* retry or the run keeps it.
THEOREM Invariance == Spec => []Inv
<1>1. Init => Inv
  BY InitInv
<1>2. Inv /\ [Next]_vars => Inv'
  <2> SUFFICES ASSUME Inv, [Next]_vars PROVE Inv'
    OBVIOUS
  <2>1. CASE RunMoves \/ MarkRead
    BY <2>1, RunMovesInv, MarkReadInv
  <2>2. ASSUME NEW c \in Call,
               \/ Notify(c) \/ NotifyResolved(c) \/ SeeEvidence(c) \/ NextRecipient(c)
               \/ Create(c) \/ Claim(c) \/ Send(c) \/ MarkSent(c) \/ ReadFailed(c) \/ MarkFailed(c)
               \/ ReadRetry(c) \/ Requeue(c) \/ Dies(c)
        PROVE  Inv'
    BY <2>2, NotifyInv, NotifyResolvedInv, SeeEvidenceInv, NextRecipientInv, CreateInv, ClaimInv, SendInv,
       MarkSentInv, ReadFailedInv, MarkFailedInv, ReadRetryInv, RequeueInv, DiesInv
  <2>3. CASE UNCHANGED vars
    BY <2>3 DEF vars, Inv, NotificationTypeOK, CallOK, Its, ResolutionGrounded, SentWasDelivered, Budget
  <2> QED BY <2>1, <2>2, <2>3 DEF Next
<1> QED BY <1>1, <1>2, PTL DEF Spec

\* Rows, calls and counts keep their types, the attempts of a row their maximum
\* (claimForDelivery, retryFailed).
THEOREM TypeCorrect == Spec => []NotificationTypeOK
<1>1. Inv => NotificationTypeOK
  BY DEF Inv
<1> QED BY <1>1, Invariance, PTL

\* A notification of a resolution has a completed run and evidence behind it
\* (dispatchResolutionSafe), retries included.
THEOREM ResolutionProved == Spec => []ResolutionGrounded
<1>1. Inv => ResolutionGrounded
  BY DEF Inv
<1> QED BY <1>1, Invariance, PTL

\* What is recorded as SENT was delivered (markSent, retryFailed).
THEOREM SentDelivered == Spec => []SentWasDelivered
<1>1. Inv => SentWasDelivered
  BY DEF Inv
<1> QED BY <1>1, Invariance, PTL

\* No notification is tried oftener than its maximum for each time an operator
\* put it back (claimForDelivery, retryFailed).
THEOREM TriesAreBounded == Spec => []TriesBounded
<1>1. Inv => TriesBounded
  <2> SUFFICES ASSUME Inv, NEW k \in Key PROVE tries[k] <= MaxAttempts * (1 + retries[k])
    BY DEF TriesBounded
  <2> DEFINE a == IF row[k] = None THEN 0 ELSE row[k].attempts
  <2>1. tries[k] <= MaxAttempts * retries[k] + a /\ tries[k] \in Nat /\ retries[k] \in Nat
    BY DEF Inv, Budget, NotificationTypeOK
  <2>2. a \in 0..MaxAttempts
    BY NotificationAssumption DEF Inv, NotificationTypeOK, Row
  <2> HIDE DEF a
  <2>3. MaxAttempts * retries[k] \in Nat /\ MaxAttempts * (1 + retries[k]) = MaxAttempts * retries[k] + MaxAttempts
    BY <2>1, NotificationAssumption
  <2> QED BY <2>1, <2>2, <2>3, NotificationAssumption
<1> QED BY <1>1, Invariance, PTL
=============================================================================
