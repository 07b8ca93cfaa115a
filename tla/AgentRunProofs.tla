---------------------------- MODULE AgentRunProofs ----------------------------
(***************************************************************************)
(* Proofs about the life of AgentRuns, for any runs and calls.              *)
(***************************************************************************)
EXTENDS AgentRun, TLAPS

\* A call works on a row that exists, or on none.
RowExists == \A c \in Call : call[c] # None /\ call[c].r # None => run[call[c].r] # None

Inv == RunTypeOK /\ RowExists

\* The places of a call that ask for nothing to be known of its run.
Elsewhere == PC \ {"record", "closeTicket", "compare", "complete"}

-----------------------------------------------------------------------------
(* Where a call may go next *)

LEMMA GatesType == ASSUME NEW c \in Call PROVE Gates(c) \subseteq Elsewhere
BY DEF Gates, Elsewhere, PC

LEMMA UnresolvedType == ASSUME NEW c \in Call PROVE Unresolved(c) \subseteq Elsewhere
BY DEF Unresolved, Elsewhere, PC

LEMMA JudgedType ==
  ASSUME NEW c \in Call
  PROVE  Judged(c) \subseteq Elsewhere \cup (IF call[c].ok THEN {"closeTicket"} ELSE {})
BY UnresolvedType DEF Judged, Elsewhere, PC

LEMMA RecoveriesType == ASSUME NEW c \in Call PROVE Recoveries(c) \subseteq Elsewhere
BY DEF Recoveries, Pauses, Elsewhere, PC

-----------------------------------------------------------------------------
(* The rows *)

\* Writing a step and a status keeps the rows' type, and which rows exist.
LEMMA WriteKeepsRows ==
  ASSUME Inv, NEW c \in Call, call[c] # None, NEW step \in Step, NEW status \in Status,
         Write(c, step, status)
  PROVE  /\ run' \in [Run -> Row \cup {None}]
         /\ \A r \in Run : run'[r] = None <=> run[r] = None
         /\ \A r \in Run : run'[r] # run[r] =>
              r = call[c].r /\ run'[r].step = step /\ run'[r].status = status
<1>1. CASE UNCHANGED run
  BY <1>1 DEF Inv, RunTypeOK
<1>2. CASE call[c].r # None /\ Store(c, step, status)
  <2> DEFINE r == call[c].r
  <2>1. r \in Run /\ run[r] \in Row
    BY <1>2 DEF Inv, RunTypeOK, RowExists, CallRecord
  <2>2. run' = [run EXCEPT ![r] = [run[r] EXCEPT !.step = step, !.status = status]]
    BY <1>2, <2>1 DEF Store, Inv, RunTypeOK
  <2>3. [run[r] EXCEPT !.step = step, !.status = status] \in Row
    BY <2>1 DEF Row
  <2>4. run'[r] \in Row /\ run'[r].step = step /\ run'[r].status = status
    BY <2>1, <2>2, <2>3 DEF Inv, RunTypeOK, Row
  <2>5. \A q \in Run : q # r => run'[q] = run[q]
    BY <2>2 DEF Inv, RunTypeOK
  <2>6. run' \in [Run -> Row \cup {None}]
    BY <2>2, <2>3 DEF Inv, RunTypeOK
  <2> QED
    BY <2>1, <2>4, <2>5, <2>6, RunAssumption
<1> QED
  BY <1>1, <1>2 DEF Write

\* A call that goes on works on the same row.
LEMMA CallKeepsRow ==
  ASSUME Inv, \A r \in Run : run'[r] = None <=> run[r] = None,
         NEW c \in Call,
         \A d \in Call : d # c => call'[d] = call[d],
         call'[c] = None \/ (call[c] # None /\ call'[c].r = call[c].r)
  PROVE  RowExists'
BY DEF Inv, RunTypeOK, RowExists, CallRecord

\* Where a call goes, and that it is gone.
LEMMA GotoMoves ==
  ASSUME RunTypeOK, NEW c \in Call, call[c] # None, NEW pc \in PC, Goto(c, pc)
  PROVE  /\ call' \in [Call -> CallRecord \cup {None}]
         /\ call'[c] = [call[c] EXCEPT !.pc = pc]
         /\ call'[c].r = call[c].r /\ call'[c].pc = pc /\ call'[c].kind = call[c].kind
         /\ call'[c].late = call[c].late
         /\ call'[c].ok = call[c].ok
         /\ \A d \in Call : d # c => call'[d] = call[d]
BY DEF RunTypeOK, Goto, CallRecord

\* A call that goes on with other locals.
LEMMA CallMoves ==
  ASSUME RunTypeOK, NEW c \in Call, call[c] # None, NEW next \in CallRecord, next.r = call[c].r,
         call' = [call EXCEPT ![c] = next]
  PROVE  /\ call' \in [Call -> CallRecord \cup {None}]
         /\ call'[c] = next /\ call'[c].r = call[c].r
         /\ \A d \in Call : d # c => call'[d] = call[d]
BY DEF RunTypeOK

LEMMA ReturnEnds ==
  ASSUME RunTypeOK, NEW c \in Call, Return(c)
  PROVE  /\ call' \in [Call -> CallRecord \cup {None}]
         /\ call'[c] = None
         /\ \A d \in Call : d # c => call'[d] = call[d]
BY DEF RunTypeOK, Return

\* A run that is escalated tells the other calls that it was refused, if so.
LEMMA EscalateFrame ==
  ASSUME Inv, NEW c \in Call, EscalateRun(c)
  PROVE  /\ call' \in [Call -> CallRecord \cup {None}]
         /\ call'[c] = None
         /\ \A d \in Call \ {c} : call'[d] # None =>
              /\ call[d] # None
              /\ call'[d].kind = call[d].kind /\ call'[d].r = call[d].r
              /\ call'[d].pc = call[d].pc /\ call'[d].ok = call[d].ok
              /\ call'[d].late <=>
                   call[d].late \/ (Orchestrating(d) /\ call[d].r \in Run /\ Refuses(c, call[d].r))
<1> DEFINE told(d) == call[d].late \/ (Orchestrating(d) /\ call[d].r \in Run /\ Refuses(c, call[d].r))
           next(d) == [call[d] EXCEPT !.late = told(d)]
<1>1. call' = [d \in Call |-> IF d = c \/ call[d] = None THEN None ELSE next(d)]
  BY Zenon DEF EscalateRun
<1>2. ASSUME NEW d \in Call, call[d] # None
      PROVE  /\ next(d) \in CallRecord
             /\ next(d).kind = call[d].kind /\ next(d).r = call[d].r
             /\ next(d).pc = call[d].pc /\ next(d).ok = call[d].ok /\ next(d).late = told(d)
  <2>1. call[d] \in CallRecord
    BY <1>2 DEF Inv, RunTypeOK
  <2>2. told(d) \in BOOLEAN
    BY <2>1 DEF CallRecord
  <2> HIDE DEF told
  <2> QED
    BY <2>1, <2>2 DEF CallRecord
<1> HIDE DEF next
<1>3. \A d \in Call : call'[d] = IF d = c \/ call[d] = None THEN None ELSE next(d)
  BY <1>1
<1>4. call' \in [Call -> CallRecord \cup {None}]
  BY <1>1, <1>2
<1> QED
  BY <1>2, <1>3, <1>4

-----------------------------------------------------------------------------
(* Types *)

\* What a step of c must show of the rows and of its own call.
LEMMA StepKeepsInv ==
  ASSUME Inv, NEW c \in Call,
         run' \in [Run -> Row \cup {None}], \A r \in Run : run'[r] = None <=> run[r] = None,
         call' \in [Call -> CallRecord \cup {None}],
         \A d \in Call : d # c => call'[d] = call[d],
         call'[c] = None \/ (call[c] # None /\ call'[c].r = call[c].r),
         audit' \in [Run \cup {None} -> SUBSET {"VERIFIED", "FAILED"}],
         refunded' \in BOOLEAN, ticket' \in {"OPEN", "ESCALATED", "RESOLVED"},
         rejected' \in [Run -> BOOLEAN]
  PROVE  Inv'
BY CallKeepsRow DEF Inv, RunTypeOK

LEMMA InitInv == Init => Inv
BY DEF Init, Inv, RunTypeOK, RowExists

\* One step per action; a leaf says what becomes of the row and of the call.
LEMMA NextInv == Inv /\ [Next]_vars => Inv'
<1> SUFFICES ASSUME Inv, [Next]_vars PROVE Inv'
  OBVIOUS
<1> USE DEF Inv
<1>1. ASSUME NEW c \in Call, Begin(c) PROVE Inv'
  <2>1. PICK r \in Run \cup {None} : call' = [call EXCEPT ![c] = NewCall("run", r, "intent")]
          /\ run' = [q \in Run |-> IF q = r /\ run[q] = None THEN NewRow ELSE run[q]]
          /\ rejected' = [q \in Run |-> rejected[q] /\ q # r] /\ UNCHANGED <<audit, refunded, ticket>>
    BY <1>1 DEF Begin
  <2>2. NewRow \in Row
    BY RunAssumption DEF NewRow, Row, Step, Status
  <2>3. NewCall("run", r, "intent") \in CallRecord /\ NewCall("run", r, "intent").r = r
    BY RunAssumption DEF NewCall, CallRecord, PC
  <2>4. RunTypeOK'
    BY <2>1, <2>2, <2>3 DEF RunTypeOK
  <2>5. \A q \in Run : run[q] # None \/ q = r => run'[q] # None
    BY <2>1, <2>2, RunAssumption DEF RunTypeOK
  <2>6. call'[c].r = r /\ \A d \in Call : d # c => call'[d] = call[d]
    BY <2>1, <2>3 DEF RunTypeOK
  <2>7. RowExists'
    BY <2>5, <2>6 DEF RowExists, RunTypeOK, CallRecord
  <2> QED
    BY <2>4, <2>7
<1>2. ASSUME NEW c \in Call, EnterPhase(c) PROVE Inv'
  <2>1. PICK p \in DOMAIN Phase : At(c, p) /\ Write(c, Phase[p], "IN_PROGRESS") /\ Goto(c, After[p])
                                  /\ UNCHANGED <<audit, refunded, ticket, rejected>>
    BY <1>2 DEF EnterPhase
  <2>2. Phase[p] \in Step /\ After[p] \in PC /\ "IN_PROGRESS" \in Status
    BY DEF Phase, After, Step, Status, PC
  <2>3. call[c] # None
    BY <2>1 DEF At
  <2> QED
    BY <2>1, <2>2, <2>3, WriteKeepsRows, GotoMoves, StepKeepsInv DEF RunTypeOK
<1>3. ASSUME NEW c \in Call, IntentUnknown(c) PROVE Inv'
  <2>1. call[c] # None /\ Write(c, "FAILED", "FAILED")
    BY <1>3 DEF IntentUnknown, At
  <2>2. Return(c) /\ UNCHANGED <<audit, refunded, ticket, rejected>>
    BY <1>3 DEF IntentUnknown
  <2>3. "FAILED" \in Step /\ "FAILED" \in Status
    BY DEF Step, Status
  <2> QED
    BY <2>1, <2>2, <2>3, WriteKeepsRows, ReturnEnds, StepKeepsInv DEF RunTypeOK
<1>4. ASSUME NEW c \in Call, Decide(c) PROVE Inv'
  <2>1. PICK pc \in Gates(c) :
          /\ At(c, "decide") /\ UNCHANGED <<audit, refunded, ticket, rejected>>
          /\ IF call[c].r = None THEN UNCHANGED run ELSE Store(c, "DECISION_FORMULATION", "IN_PROGRESS")
          /\ Goto(c, pc)
    BY <1>4 DEF Decide
  <2>2. call[c] # None /\ Write(c, "DECISION_FORMULATION", "IN_PROGRESS") /\ pc \in PC
    BY <2>1, GatesType DEF At, Write, Elsewhere
  <2>3. "DECISION_FORMULATION" \in Step /\ "IN_PROGRESS" \in Status
    BY DEF Step, Status
  <2>4. Goto(c, pc) /\ UNCHANGED <<audit, refunded, ticket, rejected>>
    BY <2>1
  <2> QED
    BY <2>2, <2>3, <2>4, WriteKeepsRows, GotoMoves, StepKeepsInv DEF RunTypeOK
<1>5. ASSUME NEW c \in Call, Pause(c) PROVE Inv'
  <2>1. PICK p \in DOMAIN Pauses : At(c, p) /\ Write(c, Pauses[p], "ACTION_PENDING") /\ Return(c)
                                   /\ UNCHANGED <<audit, refunded, ticket>>
    BY <1>5 DEF Pause
  <2>2. call[c] # None /\ Pauses[p] \in Step /\ "ACTION_PENDING" \in Status
    BY <2>1 DEF At, Pauses, Step, Status
  <2>3. rejected' \in [Run -> BOOLEAN]
    BY <1>5 DEF Pause, RunTypeOK
  <2> QED
    BY <2>1, <2>2, <2>3, WriteKeepsRows, ReturnEnds, StepKeepsInv DEF RunTypeOK
<1>6. ASSUME NEW c \in Call, EscalateTicket(c) PROVE Inv'
  <2>1. PICK pc \in PC : call[c] # None /\ Goto(c, pc)
    BY <1>6 DEF EscalateTicket, At, PC
  <2>2. ticket' \in {ticket, "ESCALATED"} /\ UNCHANGED <<run, audit, refunded, rejected>>
    BY <1>6 DEF EscalateTicket
  <2> QED
    BY <2>1, <2>2, GotoMoves, StepKeepsInv DEF RunTypeOK
<1>7. ASSUME NEW c \in Call, EscalateRun(c) PROVE Inv'
  <2>1. call[c] # None /\ Write(c, "HUMAN_ESCALATION", "ESCALATED")
    BY <1>7 DEF EscalateRun, At
  <2>2. rejected' \in [Run -> BOOLEAN] /\ UNCHANGED <<audit, refunded, ticket>>
    BY <1>7 DEF EscalateRun, Refuses, RunTypeOK
  <2>3. /\ run' \in [Run -> Row \cup {None}]
        /\ \A r \in Run : run'[r] = None <=> run[r] = None
    BY <2>1, WriteKeepsRows DEF Step, Status
  <2>4. RunTypeOK'
    BY <1>7, <2>2, <2>3, EscalateFrame DEF RunTypeOK
  <2>5. RowExists'
    BY <1>7, <2>3, EscalateFrame DEF RowExists, RunTypeOK, CallRecord
  <2> QED
    BY <2>4, <2>5
<1>8. ASSUME NEW c \in Call, Leave(c) PROVE Inv'
  BY <1>8, ReturnEnds, StepKeepsInv DEF Leave, RunTypeOK
<1>9. ASSUME NEW c \in Call, StartAction(c) PROVE Inv'
  <2>1. call[c] # None /\ Write(c, "TOOL_EXECUTION", "IN_PROGRESS")
    BY <1>9 DEF StartAction, At
  <2>2. Goto(c, "act") /\ UNCHANGED <<audit, refunded, ticket, rejected>>
    BY <1>9 DEF StartAction
  <2>3. "TOOL_EXECUTION" \in Step /\ "IN_PROGRESS" \in Status /\ "act" \in PC
    BY DEF Step, Status, PC
  <2> QED
    BY <2>1, <2>2, <2>3, WriteKeepsRows, GotoMoves, StepKeepsInv DEF RunTypeOK
<1>10. ASSUME NEW c \in Call, Act(c) PROVE Inv'
  <2>1. PICK pc \in PC : call[c] # None /\ Goto(c, pc)
    BY <1>10, UnresolvedType DEF Act, At, PC, Elsewhere
  <2>2. refunded' \in BOOLEAN /\ UNCHANGED <<run, audit, ticket, rejected>>
    BY <1>10 DEF Act, RunTypeOK
  <2> QED
    BY <2>1, <2>2, GotoMoves, StepKeepsInv DEF RunTypeOK
<1>11. ASSUME NEW c \in Call, Withheld(c) PROVE Inv'
  BY <1>11, ReturnEnds, StepKeepsInv DEF Withheld, RunTypeOK
<1>12. ASSUME NEW c \in Call, Verify(c) PROVE Inv'
  <2> DEFINE next(ok) == [call[c] EXCEPT !.pc = "record", !.ok = ok]
  <2>1. PICK ok \in BOOLEAN :
          /\ audit' = [audit EXCEPT ![call[c].r] = @ \cup Finding(call[c].r, ok)]
          /\ call' = [call EXCEPT ![c] = next(ok)]
    BY <1>12 DEF Verify, RunTypeOK
  <2>2. call[c] # None /\ UNCHANGED <<run, refunded, ticket, rejected>>
    BY <1>12 DEF Verify, At
  <2>3. audit' \in [Run \cup {None} -> SUBSET {"VERIFIED", "FAILED"}]
    BY <2>1, <2>2 DEF RunTypeOK, CallRecord, Finding
  <2>4. next(ok) \in CallRecord /\ next(ok).r = call[c].r
    BY <2>2 DEF RunTypeOK, CallRecord, PC
  <2> HIDE DEF next
  <2> QED
    BY <2>1, <2>2, <2>3, <2>4, CallMoves, StepKeepsInv DEF RunTypeOK
<1>13. ASSUME NEW c \in Call, RecordVerdict(c) PROVE Inv'
  <2>1. PICK status \in Status : call[c] # None /\ Write(c, "ACTION_VERIFICATION", status)
    BY <1>13 DEF RecordVerdict, At, Status
  <2>2. PICK pc \in PC : call' = [call EXCEPT ![c] = [call[c] EXCEPT !.pc = pc, !.ok = FALSE]]
    <3>1. PICK pc \in Judged(c) : call' = [call EXCEPT ![c].pc = pc, ![c].ok = FALSE]
      BY <1>13, Zenon DEF RecordVerdict
    <3>2. pc \in PC
      BY JudgedType DEF Elsewhere, PC
    <3> QED
      BY <3>1, <3>2 DEF RunTypeOK
  <2>3. [call[c] EXCEPT !.pc = pc, !.ok = FALSE] \in CallRecord /\ [call[c] EXCEPT !.pc = pc, !.ok = FALSE].r = call[c].r
    BY <2>1 DEF RunTypeOK, CallRecord
  <2>4. UNCHANGED <<audit, refunded, ticket, rejected>>
    BY <1>13 DEF RecordVerdict
  <2> QED
    BY <2>1, <2>2, <2>3, <2>4, CallMoves, WriteKeepsRows, StepKeepsInv DEF RunTypeOK, Step
<1>14. ASSUME NEW c \in Call, CloseTicket(c) PROVE Inv'
  <2>1. call[c] # None /\ Goto(c, "complete") /\ ticket' \in {ticket, "RESOLVED"}
        /\ UNCHANGED <<run, audit, refunded, rejected>>
    BY <1>14 DEF CloseTicket, At
  <2> QED
    BY <2>1, GotoMoves, StepKeepsInv DEF RunTypeOK, PC
<1>15. ASSUME NEW c \in Call, Complete(c) PROVE Inv'
  <2>1. call[c] # None /\ Write(c, "CASE_RESOLVED", "COMPLETED")
    BY <1>15 DEF Complete, At
  <2>2. Return(c) /\ UNCHANGED <<audit, refunded, ticket, rejected>>
    BY <1>15 DEF Complete
  <2>3. "CASE_RESOLVED" \in Step /\ "COMPLETED" \in Status
    BY DEF Step, Status
  <2> QED
    BY <2>1, <2>2, <2>3, WriteKeepsRows, ReturnEnds, StepKeepsInv DEF RunTypeOK
<1>16. ASSUME NEW c \in Call, StartReplanning(c) PROVE Inv'
  <2>1. call[c] # None /\ Write(c, "REPLANNING", "REPLANNING")
    BY <1>16 DEF StartReplanning, At
  <2>2. Goto(c, "count") /\ UNCHANGED <<audit, refunded, ticket, rejected>>
    BY <1>16 DEF StartReplanning
  <2>3. "REPLANNING" \in Step /\ "REPLANNING" \in Status /\ "count" \in PC
    BY DEF Step, Status, PC
  <2> QED
    BY <2>1, <2>2, <2>3, WriteKeepsRows, GotoMoves, StepKeepsInv DEF RunTypeOK
<1>17. ASSUME NEW c \in Call, ReadCount(c) PROVE Inv'
  <2>1. call[c] # None /\ UNCHANGED <<run, audit, refunded, ticket, rejected>>
    BY <1>17 DEF ReadCount, At
  <2> DEFINE n == IF call[c].r = None THEN 0 ELSE run[call[c].r].replans
             next == [call[c] EXCEPT !.pc = "recount", !.count = n]
  <2>2. n \in 0..MaxReplans
    BY <2>1, RunAssumption DEF RunTypeOK, RowExists, CallRecord, Row
  <2>3. call' = [call EXCEPT ![c] = next]
    BY <1>17 DEF ReadCount, RunTypeOK
  <2>4. next \in CallRecord /\ next.r = call[c].r
    <3> HIDE DEF n
    <3> QED
      BY <2>1, <2>2 DEF RunTypeOK, CallRecord, PC
  <2> HIDE DEF next
  <2> QED
    BY <2>1, <2>3, <2>4, CallMoves, StepKeepsInv DEF RunTypeOK
<1>18. ASSUME NEW c \in Call, WriteCount(c) PROVE Inv'
  <2>1. call[c] # None /\ UNCHANGED <<audit, refunded, ticket, rejected>>
    BY <1>18 DEF WriteCount, At
  <2>2. PICK pc \in PC : call' = [call EXCEPT ![c] = [call[c] EXCEPT !.count = 0, !.pc = pc]]
    BY <1>18 DEF WriteCount, PC, RunTypeOK
  <2>2a. 0 \in 0..MaxReplans
    BY RunAssumption
  <2>3. [call[c] EXCEPT !.count = 0, !.pc = pc] \in CallRecord /\ [call[c] EXCEPT !.count = 0, !.pc = pc].r = call[c].r
    BY <2>1, <2>2a DEF RunTypeOK, CallRecord
  <2>4. run' \in [Run -> Row \cup {None}] /\ \A r \in Run : run'[r] = None <=> run[r] = None
    <3>1. CASE UNCHANGED run
      BY <3>1 DEF RunTypeOK
    <3> DEFINE n == IF call[c].count = MaxReplans THEN MaxReplans ELSE call[c].count + 1
               row == [step |-> "REPLANNING", status |-> "REPLANNING", replans |-> n]
    <3>2. CASE call[c].r # None /\ run' = [run EXCEPT ![call[c].r] = row]
      <4>1. call[c].r \in Run /\ run[call[c].r] # None /\ call[c].count \in 0..MaxReplans
        BY <2>1, <3>2 DEF RunTypeOK, RowExists, CallRecord
      <4>2. n \in 0..MaxReplans
        BY <4>1, RunAssumption
      <4>3. row \in Row
        <5> HIDE DEF n
        <5> QED
          BY <4>2 DEF Row, Step, Status
      <4> HIDE DEF row
      <4> QED
        BY <3>2, <4>1, <4>3, RunAssumption DEF RunTypeOK
    <3> QED
      BY <1>18, <3>1, <3>2 DEF WriteCount
  <2> QED
    BY <2>1, <2>2, <2>3, <2>4, CallMoves, StepKeepsInv DEF RunTypeOK
<1>19. ASSUME NEW c \in Call, GiveUp(c) PROVE Inv'
  <2>1. call[c] # None /\ Write(c, "HUMAN_ESCALATION", "ESCALATED")
    BY <1>19 DEF GiveUp, At
  <2>2. PICK pc \in {"leave", "escalateTicket"} : Goto(c, pc)
    BY <1>19, Zenon DEF GiveUp
  <2>2a. UNCHANGED <<audit, refunded, ticket, rejected>>
    BY <1>19 DEF GiveUp
  <2>3. "HUMAN_ESCALATION" \in Step /\ "ESCALATED" \in Status /\ pc \in PC
    BY DEF Step, Status, PC
  <2> QED
    BY <2>1, <2>2, <2>2a, <2>3, WriteKeepsRows, GotoMoves, StepKeepsInv DEF RunTypeOK
<1>20. ASSUME NEW c \in Call, Redecide(c) PROVE Inv'
  <2>0. PICK pc \in Recoveries(c) :
          /\ At(c, "redecide") /\ UNCHANGED <<audit, refunded, ticket, rejected>>
          /\ IF call[c].r = None THEN UNCHANGED run ELSE Store(c, "DECISION_FORMULATION", "IN_PROGRESS")
          /\ call' = [call EXCEPT ![c].pc = pc, ![c].alt = (pc = "act")]
    BY <1>20, Zenon DEF Redecide
  <2>1.
          /\ At(c, "redecide") /\ UNCHANGED <<audit, refunded, ticket, rejected>>
          /\ IF call[c].r = None THEN UNCHANGED run ELSE Store(c, "DECISION_FORMULATION", "IN_PROGRESS")
          /\ call' = [call EXCEPT ![c] = [call[c] EXCEPT !.pc = pc, !.alt = (pc = "act")]]
    BY <2>0 DEF RunTypeOK
  <2>2. call[c] # None /\ Write(c, "DECISION_FORMULATION", "IN_PROGRESS") /\ pc \in PC
    BY <2>0, <2>1, RecoveriesType DEF At, Write, Elsewhere
  <2>3. "DECISION_FORMULATION" \in Step /\ "IN_PROGRESS" \in Status
    BY DEF Step, Status
  <2>4. [call[c] EXCEPT !.pc = pc, !.alt = (pc = "act")] \in CallRecord
        /\ [call[c] EXCEPT !.pc = pc, !.alt = (pc = "act")].r = call[c].r
    BY <2>2 DEF RunTypeOK, CallRecord
  <2>5. call' = [call EXCEPT ![c] = [call[c] EXCEPT !.pc = pc, !.alt = (pc = "act")]]
        /\ UNCHANGED <<audit, refunded, ticket, rejected>>
    BY <2>1
  <2> QED
    BY <2>2, <2>3, <2>4, <2>5, WriteKeepsRows, CallMoves, StepKeepsInv DEF RunTypeOK
<1>21. ASSUME NEW c \in Call, Approve(c) PROVE Inv'
  <2>1. PICK r \in Run, kind \in {"grant", "reject"} : run[r] # None /\ Answer(c, kind, r)
    BY <1>21 DEF Approve, Resume
  <2>2. NewCall(kind, r, IF kind = "grant" THEN "decide" ELSE "escalateTicket") \in CallRecord
        /\ NewCall(kind, r, IF kind = "grant" THEN "decide" ELSE "escalateTicket").r = r
    BY RunAssumption DEF NewCall, CallRecord, PC
  <2> QED
    BY <2>1, <2>2 DEF Answer, RunTypeOK, RowExists
<1>22. ASSUME NEW c \in Call, Consent(c) PROVE Inv'
  <2>1. PICK r \in Run, kind \in {"grant", "reject"} : run[r] # None /\ Answer(c, kind, r)
    BY <1>22 DEF Consent, Resume
  <2>2. NewCall(kind, r, IF kind = "grant" THEN "decide" ELSE "escalateTicket") \in CallRecord
        /\ NewCall(kind, r, IF kind = "grant" THEN "decide" ELSE "escalateTicket").r = r
    BY RunAssumption DEF NewCall, CallRecord, PC
  <2> QED
    BY <2>1, <2>2 DEF Answer, RunTypeOK, RowExists
<1>23. ASSUME NEW c \in Call, ReadRun(c) PROVE Inv'
  <2> DEFINE ok(r) == "VERIFIED" \in audit[r]
             alt(r) == "FAILED" \in audit[r] \/ run[r].replans >= MaxReplans
             next(r) == [NewCall("reconcile", r, "compare") EXCEPT !.ok = ok(r), !.alt = alt(r)]
  <2>1. PICK r \in Run : run[r] # None /\ UNCHANGED <<run, audit, refunded, ticket, rejected>>
                        /\ call' = [call EXCEPT ![c] = next(r)]
    BY <1>23, Zenon DEF ReadRun
  <2>2. ok(r) \in BOOLEAN /\ alt(r) \in BOOLEAN
    OBVIOUS
  <2>3. next(r) \in CallRecord /\ next(r).r = r
    <3> HIDE DEF ok, alt
    <3>1. 0 \in 0..MaxReplans
      BY RunAssumption
    <3> QED
      BY <2>2, <3>1 DEF NewCall, CallRecord, PC
  <2> HIDE DEF next
  <2> QED
    BY <2>1, <2>3 DEF RunTypeOK, RowExists
<1>24. ASSUME NEW c \in Call, Compare(c) PROVE Inv'
  <2>1. call[c] # None /\ UNCHANGED <<run, audit, refunded, ticket, rejected>>
    BY <1>24 DEF Compare, At
  <2>2. Return(c) \/ \E pc \in PC : Goto(c, pc)
    BY <1>24 DEF Compare, PC
  <2> QED
    BY <2>1, <2>2, GotoMoves, ReturnEnds, StepKeepsInv DEF RunTypeOK
<1>25. ASSUME NEW c \in Call, Dies(c) PROVE Inv'
  BY <1>25, ReturnEnds, StepKeepsInv DEF Dies, RunTypeOK
<1>26. ASSUME NEW c \in Call, Serve(c) PROVE Inv'
  <2>1. PICK r \in Run, pc \in {"decide", "act", "count"} :
          run[r] # None /\ call' = [call EXCEPT ![c] = NewCall("alone", r, pc)]
          /\ UNCHANGED <<run, audit, refunded, ticket, rejected>>
    BY <1>26, Zenon DEF Serve
  <2>2. NewCall("alone", r, pc) \in CallRecord /\ NewCall("alone", r, pc).r = r
    BY RunAssumption DEF NewCall, CallRecord, PC
  <2> QED
    BY <2>1, <2>2 DEF RunTypeOK, RowExists
<1>27. CASE UNCHANGED vars
  BY <1>27 DEF vars, RunTypeOK, RowExists
<1> QED
  BY <1>1, <1>2, <1>3, <1>4, <1>5, <1>6, <1>7, <1>8, <1>9, <1>10, <1>11, <1>12, <1>13, <1>14, <1>15, <1>16, <1>17, <1>18, <1>19, <1>20, <1>21, <1>22, <1>23, <1>24, <1>25, <1>26, <1>27 DEF Next

\* The rows and the calls keep their types, for any number of runs and calls
\* and any limit of replans (agentStateRepository.ts, AgentOrchestrator.ts).
THEOREM TypeCorrect == Spec => []RunTypeOK
<1>1. Inv => RunTypeOK
  BY DEF Inv
<1> QED
  BY <1>1, InitInv, NextInv, PTL DEF Spec

-----------------------------------------------------------------------------
(* What a call in flight does, whichever step it takes *)

\* c goes on, or ends; it writes to no row but its own.
Steps(c) ==
  /\ call[c] # None
  /\ \A d \in Call : d # c => call'[d] = call[d]
  /\ \/ call'[c] = None
     \/ call'[c].kind = call[c].kind /\ call'[c].r = call[c].r /\ call'[c].late = call[c].late
  /\ \A r \in Run : run'[r] # run[r] => r = call[c].r

Working(c) ==
  \/ EnterPhase(c) \/ IntentUnknown(c) \/ Decide(c) \/ Pause(c)
  \/ EscalateTicket(c) \/ Leave(c)
  \/ StartAction(c) \/ Act(c) \/ Withheld(c) \/ Verify(c) \/ RecordVerdict(c) \/ CloseTicket(c)
  \/ StartReplanning(c) \/ ReadCount(c) \/ WriteCount(c) \/ GiveUp(c) \/ Redecide(c) \/ Dies(c)

LEMMA WriteFrame ==
  ASSUME Inv, NEW c \in Call, call[c] # None, NEW step, NEW status, Write(c, step, status)
  PROVE  \A r \in Run : run'[r] # run[r] => r = call[c].r
BY DEF Write, Store, Inv, RunTypeOK

LEMMA CallFrame ==
  ASSUME Inv, NEW c \in Call, call[c] # None,
         \/ Return(c) \/ \E pc : Goto(c, pc)
         \/ \E pc, x : \/ call' = [call EXCEPT ![c].pc = pc, ![c].ok = x]
                       \/ call' = [call EXCEPT ![c].pc = pc, ![c].alt = x]
                       \/ call' = [call EXCEPT ![c].pc = pc, ![c].count = x]
                       \/ call' = [call EXCEPT ![c].count = x, ![c].pc = pc]
  PROVE  /\ \A d \in Call : d # c => call'[d] = call[d]
         /\ \/ call'[c] = None
            \/ call'[c].kind = call[c].kind /\ call'[c].r = call[c].r /\ call'[c].late = call[c].late
<1>1. call[c] \in CallRecord
  BY DEF Inv, RunTypeOK
<1>2. CASE Return(c)
  BY <1>2 DEF Inv, RunTypeOK, Return
<1>3. ASSUME NEW pc, Goto(c, pc) PROVE call'[c].kind = call[c].kind /\ call'[c].r = call[c].r /\ call'[c].late = call[c].late
  BY <1>1, <1>3 DEF Inv, RunTypeOK, Goto, CallRecord
<1>4. ASSUME NEW pc, NEW x,
             \/ call' = [call EXCEPT ![c].pc = pc, ![c].ok = x]
             \/ call' = [call EXCEPT ![c].pc = pc, ![c].alt = x]
             \/ call' = [call EXCEPT ![c].pc = pc, ![c].count = x]
             \/ call' = [call EXCEPT ![c].count = x, ![c].pc = pc]
      PROVE  call'[c].kind = call[c].kind /\ call'[c].r = call[c].r /\ call'[c].late = call[c].late
  BY <1>1, <1>4 DEF Inv, RunTypeOK, CallRecord
<1>5. \A d \in Call : d # c => call'[d] = call[d]
  BY DEF Inv, RunTypeOK, Return, Goto
<1> QED
  BY <1>2, <1>3, <1>4, <1>5

LEMMA WorkingSteps ==
  ASSUME Inv, NEW c \in Call, Working(c) PROVE Steps(c)
<1>1. call[c] # None
  BY DEF Working, EnterPhase, IntentUnknown, Decide, Pause, EscalateTicket, Leave, StartAction, Act,
     Withheld, Verify, RecordVerdict, CloseTicket, StartReplanning, ReadCount, WriteCount, GiveUp,
     Redecide, Dies, At
<1>2. \/ Return(c) \/ \E pc : Goto(c, pc)
      \/ \E pc, x : \/ call' = [call EXCEPT ![c].pc = pc, ![c].ok = x]
                    \/ call' = [call EXCEPT ![c].pc = pc, ![c].alt = x]
                    \/ call' = [call EXCEPT ![c].pc = pc, ![c].count = x]
                    \/ call' = [call EXCEPT ![c].count = x, ![c].pc = pc]
  <2>1. CASE EnterPhase(c) \/ IntentUnknown(c) \/ Decide(c) \/ Pause(c) \/ EscalateTicket(c) \/ Leave(c)
    BY <2>1 DEF EnterPhase, IntentUnknown, Decide, Pause, EscalateTicket, Leave
  <2>2. CASE StartAction(c) \/ Act(c) \/ Withheld(c) \/ CloseTicket(c) \/ StartReplanning(c) \/ GiveUp(c) \/ Dies(c)
    BY <2>2 DEF StartAction, Act, Withheld, CloseTicket, StartReplanning, GiveUp, Dies
  <2>3. CASE Verify(c) \/ RecordVerdict(c)
    BY <2>3, Zenon DEF Verify, RecordVerdict
  <2>4. CASE ReadCount(c)
    BY <2>4, Zenon DEF ReadCount
  <2>5. CASE WriteCount(c)
    BY <2>5, Zenon DEF WriteCount
  <2>6. CASE Redecide(c)
    BY <2>6, Zenon DEF Redecide
  <2> QED
    BY <2>1, <2>2, <2>3, <2>4, <2>5, <2>6 DEF Working
<1>3. \A r \in Run : run'[r] # run[r] => r = call[c].r
  <2>1. CASE UNCHANGED run \/ \E step, status : Write(c, step, status)
    BY <1>1, <2>1, WriteFrame
  <2>2. CASE WriteCount(c)
    BY <2>2 DEF WriteCount, Inv, RunTypeOK
  <2>3. CASE Decide(c) \/ Redecide(c)
    BY <2>3 DEF Decide, Redecide, Store, Inv, RunTypeOK
  <2> QED
    BY <2>1, <2>2, <2>3 DEF Working, EnterPhase, IntentUnknown, Pause, EscalateTicket, Leave, StartAction,
       Act, Withheld, Verify, RecordVerdict, CloseTicket, StartReplanning, ReadCount, GiveUp, Dies
<1> QED
  BY <1>1, <1>2, <1>3, CallFrame DEF Steps

-----------------------------------------------------------------------------
(* A refusal holds *)

Waiting(r) == run[r] # None /\ run[r].step \in {"WAITING_FOR_APPROVAL", "WAITING_FOR_CUSTOMER_CONSENT"}

\* A row that waits does not say that it is escalated.
Pending == \A r \in Run : Waiting(r) => run[r].status # "ESCALATED"

AlonePC == {"decide", "act", "verify", "record", "count", "recount", "giveUp", "redecide", "leave"}

\* A refused row waits for no one, and neither reconcile nor one agent by itself
\* has a row wait again.
RInv ==
  /\ RejectionHolds
  /\ \A r \in Run : rejected[r] => ~Waiting(r)
  /\ \A c \in Call : call[c] # None =>
       /\ call[c].kind = "reconcile" => call[c].pc \in {"compare", "complete", "escalateRun"}
       /\ Alone(c) => call[c].pc \in AlonePC

\* Only a pause makes a row wait.
LEMMA OnlyPauses ==
  ASSUME Inv, NEW c \in Call, Working(c) \/ Complete(c) \/ EscalateRun(c), ~Pause(c)
  PROVE  \A r \in Run : run'[r] # run[r] => ~Waiting(r)'
<1>1. CASE /\ call[c] # None
           /\ UNCHANGED run \/ \E step \in Step \ {"WAITING_FOR_APPROVAL", "WAITING_FOR_CUSTOMER_CONSENT"}, status \in Status :
                                Write(c, step, status)
  <2>1. CASE UNCHANGED run
    BY <2>1
  <2>2. ASSUME NEW step \in Step \ {"WAITING_FOR_APPROVAL", "WAITING_FOR_CUSTOMER_CONSENT"}, NEW status \in Status, Write(c, step, status)
        PROVE  \A r \in Run : run'[r] # run[r] => ~Waiting(r)'
    BY <1>1, <2>2, WriteKeepsRows DEF Waiting
  <2> QED
    BY <1>1, <2>1, <2>2
<1>2. CASE WriteCount(c)
  BY <1>2 DEF WriteCount, Waiting, Inv, RunTypeOK
<1>3. CASE Decide(c) \/ Redecide(c)
  <2>1. At(c, "decide") \/ At(c, "redecide")
    BY <1>3 DEF Decide, Redecide
  <2>2. IF call[c].r = None THEN UNCHANGED run ELSE Store(c, "DECISION_FORMULATION", "IN_PROGRESS")
    BY <1>3 DEF Decide, Redecide
  <2>3. UNCHANGED run \/ Write(c, "DECISION_FORMULATION", "IN_PROGRESS")
    BY <2>2 DEF Write
  <2> QED
    BY <1>1, <2>1, <2>3 DEF At, Step, Status
<1>4. CASE \/ EnterPhase(c) \/ IntentUnknown(c) \/ EscalateTicket(c) \/ Leave(c) \/ StartAction(c)
           \/ Act(c) \/ Withheld(c) \/ Verify(c) \/ RecordVerdict(c) \/ CloseTicket(c) \/ StartReplanning(c)
           \/ ReadCount(c) \/ GiveUp(c) \/ Dies(c) \/ Complete(c) \/ EscalateRun(c)
  <2>1. call[c] # None
    BY <1>4 DEF EnterPhase, IntentUnknown, EscalateTicket, Leave, StartAction, Act, Withheld, Verify, RecordVerdict,
       CloseTicket, StartReplanning, ReadCount, GiveUp, Dies, Complete, EscalateRun, At
  <2>2. UNCHANGED run \/ \E step \in Step \ {"WAITING_FOR_APPROVAL", "WAITING_FOR_CUSTOMER_CONSENT"}, status \in Status :
          Write(c, step, status)
    <3>1. CASE EscalateTicket(c) \/ Leave(c) \/ Act(c) \/ Withheld(c) \/ Verify(c) \/ CloseTicket(c) \/ ReadCount(c) \/ Dies(c)
      BY <3>1 DEF EscalateTicket, Leave, Act, Withheld, Verify, CloseTicket, ReadCount, Dies
    <3>2. CASE RecordVerdict(c)
      BY <3>2 DEF RecordVerdict, Step, Status
    <3>3. CASE EnterPhase(c)
      BY <3>3 DEF EnterPhase, Phase, Step, Status
    <3>4. CASE IntentUnknown(c) \/ StartAction(c) \/ StartReplanning(c) \/ GiveUp(c) \/ Complete(c) \/ EscalateRun(c)
      BY <3>4 DEF IntentUnknown, StartAction, StartReplanning, GiveUp, Complete, EscalateRun, Step, Status
    <3> QED
      BY <1>4, <3>1, <3>2, <3>3, <3>4
  <2> QED
    BY <1>1, <2>1, <2>2
<1> QED
  BY <1>2, <1>3, <1>4 DEF Working

LEMMA NextPending == Inv /\ Pending /\ [Next]_vars => Pending'
<1> SUFFICES ASSUME Inv, Pending, [Next]_vars PROVE Pending'
  OBVIOUS
<1>1. ASSUME NEW c \in Call, Working(c) \/ Complete(c) \/ EscalateRun(c), ~Pause(c) PROVE Pending'
  BY <1>1, OnlyPauses DEF Pending, Waiting
<1>2. ASSUME NEW c \in Call, Pause(c) PROVE Pending'
  <2>1. PICK step \in Step : call[c] # None /\ Write(c, step, "ACTION_PENDING")
    BY <1>2 DEF Pause, Pauses, At, Step
  <2>2. \A r \in Run : run'[r] # run[r] => run'[r].status = "ACTION_PENDING"
    BY <2>1, WriteKeepsRows DEF Status
  <2> QED
    BY <2>2 DEF Pending, Waiting
<1>3. ASSUME NEW c \in Call, Begin(c) PROVE Pending'
  <2>1. PICK r \in Run \cup {None} : run' = [q \in Run |-> IF q = r /\ run[q] = None THEN NewRow ELSE run[q]]
    BY <1>3 DEF Begin
  <2>2. \A q \in Run : run'[q] # run[q] => run'[q].step = "GOAL_RECEIVED"
    BY <2>1 DEF NewRow
  <2> QED
    BY <2>2 DEF Pending, Waiting
<1>4. ASSUME NEW c \in Call, Approve(c) \/ Consent(c) \/ ReadRun(c) \/ Compare(c) \/ Serve(c) PROVE UNCHANGED run
  BY <1>4 DEF Approve, Consent, Resume, Answer, ReadRun, Compare, Serve
<1>5. CASE UNCHANGED run
  BY <1>5 DEF Pending, Waiting
<1> QED
  BY <1>1, <1>2, <1>3, <1>4, <1>5 DEF Next, Working, vars

\* A call of the orchestrator that does not pause leaves a refused row without
\* anyone to wait for; one that pauses is one that was overtaken.
LEMMA WorkingKeepsRefusals ==
  ASSUME Inv, RInv, NEW c \in Call, Steps(c), Orchestrating(c),
         \/ UNCHANGED rejected /\ \A r \in Run : run'[r] # run[r] => ~Waiting(r)'
         \/ rejected' = [r \in Run |-> rejected[r] /\ ~(call[c].r = r /\ call[c].late /\ run'[r] # run[r])]
  PROVE  RInv'
<1>1. \A r \in Run : rejected'[r] => rejected[r] /\ ~Waiting(r)'
  <2>1. CASE UNCHANGED rejected /\ \A r \in Run : run'[r] # run[r] => ~Waiting(r)'
    BY <2>1 DEF RInv, Waiting
  <2>2. CASE rejected' = [r \in Run |-> rejected[r] /\ ~(call[c].r = r /\ call[c].late /\ run'[r] # run[r])]
    <3> SUFFICES ASSUME NEW r \in Run, rejected'[r] PROVE rejected[r] /\ ~Waiting(r)'
      OBVIOUS
    <3>1. rejected[r] /\ ~(call[c].r = r /\ call[c].late /\ run'[r] # run[r])
      BY <2>2
    <3>2. call[c].r = r => call[c].late
      BY <3>1 DEF RInv, RejectionHolds
    <3>3. run'[r] = run[r]
      BY <3>1, <3>2 DEF Steps
    <3> QED
      BY <3>1, <3>3 DEF RInv, Waiting
  <2> QED
    BY <2>1, <2>2
<1>2. \A d \in Call : Orchestrating(d)' =>
        Orchestrating(d) /\ call'[d].r = call[d].r /\ call'[d].late = call[d].late
  BY DEF Steps, Orchestrating
<1>3. RejectionHolds'
  BY <1>1, <1>2 DEF RInv, RejectionHolds
<1> QED
  BY <1>1, <1>3 DEF RInv, Steps, Orchestrating, Alone

\* Where one agent by itself goes.
LEMMA AloneGoes ==
  ASSUME Inv, NEW c \in Call, Working(c), Alone(c), call[c].pc \in AlonePC
  PROVE  ~Pause(c) /\ (call'[c] = None \/ call'[c].pc \in AlonePC)
<1>a. ~Pause(c)
  BY DEF Pause, Pauses, At, AlonePC
<1> SUFFICES call'[c] = None \/ call'[c].pc \in AlonePC
  BY <1>a
<1>0. call[c] # None
  BY WorkingSteps DEF Steps
<1>1. call[c] \in CallRecord
  BY <1>0 DEF Inv, RunTypeOK
<1>2. \/ Decide(c) \/ Leave(c) \/ Act(c) \/ Verify(c) \/ RecordVerdict(c)
      \/ ReadCount(c) \/ WriteCount(c) \/ GiveUp(c) \/ Redecide(c) \/ Dies(c)
  BY DEF Working, EnterPhase, Phase, IntentUnknown, Pause, Pauses, EscalateTicket, StartAction, Withheld,
     CloseTicket, StartReplanning, At, AlonePC, Alone
<1>3. CASE Leave(c) \/ Dies(c)
  BY <1>3, ReturnEnds DEF Leave, Dies, Inv
<1>4. CASE Decide(c) \/ Act(c) \/ GiveUp(c)
  <2>1. PICK pc \in AlonePC : Goto(c, pc)
    BY <1>4 DEF Decide, Gates, Act, Unresolved, GiveUp, AlonePC
  <2> QED
    BY <1>0, <2>1, GotoMoves DEF Inv, PC, AlonePC
<1>5. CASE Verify(c)
  BY <1>1, <1>5 DEF Verify, Inv, RunTypeOK, CallRecord, AlonePC
<1>6. CASE RecordVerdict(c)
  <2>1. PICK pc \in Judged(c) : call' = [call EXCEPT ![c].pc = pc, ![c].ok = FALSE]
    BY <1>6, Zenon DEF RecordVerdict
  <2>2. pc \in AlonePC
    BY <2>1 DEF Judged, Unresolved, AlonePC
  <2> QED
    BY <1>1, <2>1, <2>2 DEF Inv, RunTypeOK, CallRecord
<1>7. CASE ReadCount(c)
  <2>1. PICK n : call' = [call EXCEPT ![c].pc = "recount", ![c].count = n]
    BY <1>7, Zenon DEF ReadCount
  <2> QED
    BY <1>1, <2>1 DEF Inv, RunTypeOK, CallRecord, AlonePC
<1>8. CASE WriteCount(c)
  <2>1. PICK pc \in {"giveUp", "redecide"} : call' = [call EXCEPT ![c].count = 0, ![c].pc = pc]
    BY <1>8 DEF WriteCount
  <2> QED
    BY <1>1, <2>1 DEF Inv, RunTypeOK, CallRecord, AlonePC
<1>9. CASE Redecide(c)
  <2>1. PICK pc \in Recoveries(c) : call' = [call EXCEPT ![c].pc = pc, ![c].alt = (pc = "act")]
    BY <1>9, Zenon DEF Redecide
  <2>2. pc \in AlonePC
    BY <2>1 DEF Recoveries, AlonePC
  <2> QED
    BY <1>1, <2>1, <2>2 DEF Inv, RunTypeOK, CallRecord
<1> QED
  BY <1>2, <1>3, <1>4, <1>5, <1>6, <1>7, <1>8, <1>9

\* A call that makes its row final, and those that it tells of a refusal.
LEMMA FinalKeepsRefusals ==
  ASSUME Inv, Inv', Pending', RInv, NEW c \in Call, call[c] # None, call'[c] = None,
         \A d \in Call \ {c} : call'[d] # None =>
           /\ call[d] # None
           /\ call'[d].kind = call[d].kind /\ call'[d].r = call[d].r /\ call'[d].pc = call[d].pc
           /\ call[d].late => call'[d].late
           /\ \A r \in Run : rejected'[r] /\ ~rejected[r] /\ Orchestrating(d) /\ call[d].r = r => call'[d].late,
         \A r \in Run : run'[r] # run[r] => ~Waiting(r)',
         \A r \in Run : rejected'[r] => rejected[r] \/ run'[r].status = "ESCALATED"
  PROVE  RInv'
<1>1. \A r \in Run : rejected'[r] => ~Waiting(r)'
  BY DEF RInv, Waiting, Pending
<1>2. RejectionHolds'
  BY DEF RInv, RejectionHolds, Orchestrating
<1> QED
  BY <1>1, <1>2 DEF RInv, Alone

LEMMA NextRInv == Inv /\ Inv' /\ Pending' /\ RInv /\ [Next]_vars => RInv'
<1> SUFFICES ASSUME Inv, Inv', Pending', RInv, [Next]_vars PROVE RInv'
  OBVIOUS
<1>1. ASSUME NEW c \in Call, Working(c) PROVE RInv'
  <2>1. Steps(c)
    BY <1>1, WorkingSteps
  <2>1a. ~Pause(c) => UNCHANGED rejected /\ \A r \in Run : run'[r] # run[r] => ~Waiting(r)'
    <3>1. ~Pause(c) => UNCHANGED rejected
      BY <1>1 DEF Working, EnterPhase, IntentUnknown, Decide, EscalateTicket, Leave,
         StartAction, Act, Withheld, Verify, RecordVerdict, CloseTicket, StartReplanning, ReadCount, WriteCount,
         GiveUp, Redecide, Dies
    <3> QED
      BY <1>1, <3>1, OnlyPauses
  <2>2. CASE Orchestrating(c)
    <3>1. CASE Pause(c)
      <4>1. rejected' = [r \in Run |-> rejected[r] /\ ~(call[c].r = r /\ call[c].late /\ run'[r] # run[r])]
        BY <3>1 DEF Pause
      <4> QED
        BY <2>1, <2>2, <4>1, WorkingKeepsRefusals
    <3>2. CASE ~Pause(c)
      BY <2>1, <2>1a, <2>2, <3>2, WorkingKeepsRefusals
    <3> QED
      BY <3>1, <3>2
  <2>3. CASE call[c].kind = "reconcile"
    <3>1. call[c].pc \in {"compare", "complete", "escalateRun"}
      BY <2>1, <2>3 DEF RInv, Steps
    <3>2. Dies(c)
      BY <1>1, <3>1 DEF Working, EnterPhase, IntentUnknown, Decide, Pause, EscalateTicket, Leave,
         StartAction, Act, Withheld, Verify, RecordVerdict, CloseTicket, StartReplanning, ReadCount, WriteCount,
         GiveUp, Redecide, At, Phase, Pauses
    <3>3. call'[c] = None /\ UNCHANGED <<run, rejected>> /\ \A d \in Call : d # c => call'[d] = call[d]
      BY <3>2, ReturnEnds DEF Dies, Inv
    <3> QED
      BY <2>1, <3>3 DEF RInv, RejectionHolds, Waiting, Orchestrating, Alone
  <2>4. CASE Alone(c)
    <3>1. call[c].pc \in AlonePC
      BY <2>1, <2>4 DEF RInv, Steps
    <3>2. ~Pause(c) /\ (call'[c] = None \/ call'[c].pc \in AlonePC)
      BY <1>1, <2>4, <3>1, AloneGoes
    <3>3. UNCHANGED rejected /\ \A r \in Run : run'[r] # run[r] => ~Waiting(r)'
      BY <2>1a, <3>2
    <3>4. \A r \in Run : rejected'[r] => ~Waiting(r)'
      BY <3>3 DEF RInv, Waiting
    <3>5. call'[c] = None \/ call'[c].kind = "alone"
      BY <2>1, <2>4 DEF Steps, Alone
    <3> QED
      BY <2>1, <3>2, <3>3, <3>4, <3>5 DEF RInv, RejectionHolds, Steps, Orchestrating, Alone
  <2> QED
    BY <2>1, <2>2, <2>3, <2>4 DEF Orchestrating, Alone, Steps
<1>2. ASSUME NEW c \in Call, Begin(c) PROVE RInv'
  <2>1. PICK r \in Run \cup {None} : call' = [call EXCEPT ![c] = NewCall("run", r, "intent")]
          /\ run' = [q \in Run |-> IF q = r /\ run[q] = None THEN NewRow ELSE run[q]]
          /\ rejected' = [q \in Run |-> rejected[q] /\ q # r]
    BY <1>2 DEF Begin
  <2>2. call'[c].r = r /\ call'[c].kind = "run" /\ \A d \in Call : d # c => call'[d] = call[d]
    BY <2>1 DEF Inv, RunTypeOK, NewCall
  <2>3. \A q \in Run : rejected'[q] => rejected[q] /\ q # r /\ run'[q] = run[q]
    BY <2>1
  <2> QED
    BY <2>2, <2>3 DEF RInv, RejectionHolds, Waiting, Orchestrating, Alone
<1>3. ASSUME NEW c \in Call, Approve(c) \/ Consent(c) PROVE RInv'
  <2>1. PICK r \in Run, kind \in {"grant", "reject"} :
          Waiting(r) /\ Answer(c, kind, r)
    BY <1>3 DEF Approve, Consent, Resume, Waiting
  <2>2. /\ call'[c].r = r /\ call'[c].kind \in {"grant", "reject"}
        /\ \A d \in Call : d # c => call'[d] = call[d]
        /\ UNCHANGED <<run, rejected>>
    BY <2>1 DEF Inv, RunTypeOK, NewCall, Answer
  <2>3. ~rejected[r]
    BY <2>1 DEF RInv
  <2> QED
    BY <2>1, <2>2, <2>3 DEF RInv, RejectionHolds, Waiting, Orchestrating, Alone
<1>4. ASSUME NEW c \in Call, ReadRun(c) \/ Serve(c) PROVE RInv'
  <2>1. /\ \/ call'[c].kind = "reconcile" /\ call'[c].pc = "compare"
           \/ call'[c].kind = "alone" /\ call'[c].pc \in AlonePC
        /\ \A d \in Call : d # c => call'[d] = call[d]
        /\ UNCHANGED <<run, rejected>>
    <3>1. CASE ReadRun(c)
      BY <3>1 DEF ReadRun, NewCall, Inv, RunTypeOK
    <3>2. CASE Serve(c)
      BY <3>2 DEF Serve, NewCall, AlonePC, Inv, RunTypeOK
    <3> QED
      BY <1>4, <3>1, <3>2
  <2> QED
    BY <2>1 DEF RInv, RejectionHolds, Waiting, Orchestrating, Alone
<1>5. ASSUME NEW c \in Call, Compare(c) PROVE RInv'
  <2>1. /\ At(c, "compare") /\ UNCHANGED <<run, rejected>>
        /\ Return(c) \/ Goto(c, "complete") \/ Goto(c, "escalateRun")
    BY <1>5 DEF Compare
  <2>2. /\ \A d \in Call : d # c => call'[d] = call[d]
        /\ \/ call'[c] = None
           \/ /\ call'[c].kind = call[c].kind /\ call'[c].r = call[c].r /\ call'[c].late = call[c].late
              /\ call'[c].pc \in {"complete", "escalateRun"}
    BY <2>1, ReturnEnds, GotoMoves DEF Inv, PC, At
  <2>3. ~Alone(c)
    BY <2>1 DEF At, RInv, AlonePC
  <2> QED
    BY <2>1, <2>2, <2>3 DEF RInv, RejectionHolds, Waiting, Orchestrating, Alone, At
<1>6. ASSUME NEW c \in Call, Complete(c) PROVE RInv'
  <2>1. call[c] # None /\ Return(c) /\ UNCHANGED rejected /\ ~Pause(c)
    BY <1>6 DEF Complete, Pause, Pauses, At
  <2>2. \A r \in Run : run'[r] # run[r] => ~Waiting(r)'
    BY <1>6, <2>1, OnlyPauses
  <2>3. call'[c] = None /\ \A d \in Call : d # c => call'[d] = call[d]
    BY <2>1, ReturnEnds DEF Inv
  <2> QED
    BY <2>1, <2>2, <2>3, FinalKeepsRefusals
<1>6a. ASSUME NEW c \in Call, EscalateRun(c) PROVE RInv'
  <2>1. call[c] # None /\ ~Pause(c)
    BY <1>6a DEF EscalateRun, Pause, Pauses, At
  <2>2. \A r \in Run : run'[r] # run[r] => ~Waiting(r)'
    BY <1>6a, <2>1, OnlyPauses
  <2>3. \A r \in Run : rejected'[r] <=> rejected[r] \/ Refuses(c, r)
    BY <1>6a DEF EscalateRun
  <2>4. \A r \in Run : rejected'[r] => rejected[r] \/ run'[r].status = "ESCALATED"
    BY <2>3 DEF Refuses
  <2>5. call'[c] = None
    BY <1>6a, EscalateFrame
  <2>6. ASSUME NEW d \in Call \ {c}, call'[d] # None
        PROVE  /\ call[d] # None
               /\ call'[d].kind = call[d].kind /\ call'[d].r = call[d].r /\ call'[d].pc = call[d].pc
               /\ call[d].late => call'[d].late
               /\ \A r \in Run : rejected'[r] /\ ~rejected[r] /\ Orchestrating(d) /\ call[d].r = r => call'[d].late
    BY <1>6a, <2>3, <2>6, EscalateFrame
  <2> QED
    BY <2>1, <2>2, <2>4, <2>5, <2>6, FinalKeepsRefusals
<1>7. CASE UNCHANGED vars
  BY <1>7 DEF vars, RInv, RejectionHolds, Waiting, Orchestrating, Alone
<1> QED
  BY <1>1, <1>2, <1>3, <1>4, <1>5, <1>6, <1>6a, <1>7 DEF Next, Working

\* However many calls of a run overlap, no answer is taken after a human's refusal
\* and no call of the orchestrator takes the run up, until a client starts it anew
\* or a call that was in flight makes it wait again (AgentOrchestrator.ts:808, 850-895).
THEOREM RefusalHolds == Spec => []RejectionHolds
<1>1. Init => Pending /\ RInv
  BY DEF Init, Pending, Waiting, RInv, RejectionHolds, Orchestrating
<1>2. RInv => RejectionHolds
  BY DEF RInv, RejectionHolds
<1> QED
  BY <1>1, <1>2, InitInv, NextInv, NextPending, NextRInv, PTL DEF Spec

-----------------------------------------------------------------------------
(* What is resolved was verified *)

Verified(r) == "VERIFIED" \in audit[r]

\* What the place of a call says of its run.
Knows(c) ==
  /\ call[c].pc = "record" /\ call[c].ok => Verified(call[c].r)
  /\ call[c].pc = "closeTicket" => Verified(call[c].r)
  /\ call[c].pc = "compare" /\ call[c].ok => Verified(call[c].r)
  /\ call[c].pc = "complete" => Verified(call[c].r) \/ refunded

\* The ticket says RESOLVED only if the case may.
TicketVerified ==
  /\ \A r \in Run : run[r] # None /\ run[r].step = "CASE_RESOLVED" => Verified(r) \/ refunded
  /\ ticket = "RESOLVED" => \E r \in Run \cup {None} : Verified(r)

VInv ==
  /\ TicketVerified
  /\ \A c \in Call : call[c] # None => Knows(c)

\* What a step of c must show.
LEMMA StepKeepsVInv ==
  ASSUME Inv, Inv', VInv, NEW c \in Call,
         \A d \in Call : d # c => call'[d] = call[d],
         call'[c] # None => Knows(c)',
         \A r \in Run \cup {None} : Verified(r) => Verified(r)',
         refunded => refunded',
         \A r \in Run : run'[r] # run[r] /\ run'[r] # None /\ run'[r].step = "CASE_RESOLVED" => Verified(r)' \/ refunded',
         ticket' = "RESOLVED" => ticket = "RESOLVED" \/ \E r \in Run \cup {None} : Verified(r)'
  PROVE  VInv'
<1>1. \A d \in Call : call'[d] # None => Knows(d)'
  BY DEF VInv, Knows, Inv, RunTypeOK, CallRecord
<1>2. \A r \in Run : run'[r] # None /\ run'[r].step = "CASE_RESOLVED" => "VERIFIED" \in audit'[r] \/ refunded'
  BY DEF VInv, TicketVerified, Verified
<1>3. ticket' = "RESOLVED" => \E r \in Run \cup {None} : "VERIFIED" \in audit'[r]
  BY DEF VInv, TicketVerified, Verified
<1> QED
  BY <1>1, <1>2, <1>3 DEF VInv, TicketVerified

LEMMA PlainStep ==
  ASSUME Inv, Inv', VInv, NEW c \in Call, call[c] # None,
         UNCHANGED audit, refunded => refunded', ticket' # "RESOLVED" \/ ticket' = ticket,
         UNCHANGED run \/ \E step \in Step \ {"CASE_RESOLVED"}, status \in Status : Write(c, step, status),
         \A d \in Call : d # c => call'[d] = call[d],
         call'[c] = None \/ call'[c].pc \in Elsewhere
  PROVE  VInv'
<1>1. \A r \in Run : run'[r] # run[r] => run'[r].step # "CASE_RESOLVED"
  <2>1. CASE UNCHANGED run
    BY <2>1
  <2>2. ASSUME NEW step \in Step \ {"CASE_RESOLVED"}, NEW status \in Status, Write(c, step, status)
        PROVE  \A r \in Run : run'[r] # run[r] => run'[r].step # "CASE_RESOLVED"
    BY <2>2, WriteKeepsRows
  <2> QED
    BY <2>1, <2>2
<1>2. call'[c] # None => Knows(c)'
  BY DEF Knows, Elsewhere
<1> QED
  BY <1>1, <1>2, StepKeepsVInv DEF Verified

LEMMA GotoElsewhere ==
  ASSUME Inv, NEW c \in Call, call[c] # None, Return(c) \/ \E pc \in Elsewhere : Goto(c, pc)
  PROVE  /\ \A d \in Call : d # c => call'[d] = call[d]
         /\ call'[c] = None \/ call'[c].pc \in Elsewhere
<1>1. CASE Return(c)
  BY <1>1, ReturnEnds DEF Inv
<1>2. ASSUME NEW pc \in Elsewhere, Goto(c, pc)
      PROVE  call'[c].pc = pc /\ \A d \in Call : d # c => call'[d] = call[d]
  BY <1>2, GotoMoves DEF Inv, Elsewhere
<1> QED
  BY <1>1, <1>2

LEMMA NextVInv == Inv /\ Inv' /\ VInv /\ [Next]_vars => VInv'
<1> SUFFICES ASSUME Inv, Inv', VInv, [Next]_vars PROVE VInv'
  OBVIOUS
<1>1. ASSUME NEW c \in Call, Begin(c) PROVE VInv'
  <2>1. PICK r \in Run \cup {None} : call' = [call EXCEPT ![c] = NewCall("run", r, "intent")]
          /\ run' = [q \in Run |-> IF q = r /\ run[q] = None THEN NewRow ELSE run[q]]
          /\ UNCHANGED <<audit, refunded, ticket>>
    BY <1>1 DEF Begin
  <2>2. call'[c].pc = "intent" /\ \A d \in Call : d # c => call'[d] = call[d]
    BY <2>1 DEF Inv, RunTypeOK, NewCall
  <2>3. \A q \in Run : run'[q] # run[q] => run'[q].step # "CASE_RESOLVED"
    BY <2>1 DEF NewRow
  <2> QED
    BY <2>1, <2>2, <2>3, StepKeepsVInv DEF Knows, Verified
<1>2. ASSUME NEW c \in Call,
             \/ EnterPhase(c) \/ IntentUnknown(c) \/ Pause(c) \/ EscalateTicket(c) \/ Leave(c)
             \/ StartAction(c) \/ Withheld(c) \/ StartReplanning(c) \/ GiveUp(c) \/ Dies(c)
      PROVE  VInv'
  <2>1. /\ call[c] # None /\ UNCHANGED <<audit, refunded>>
        /\ ticket' # "RESOLVED" \/ ticket' = ticket
    BY <1>2 DEF EnterPhase, IntentUnknown, Pause, EscalateTicket, Leave, StartAction, Withheld, StartReplanning,
       GiveUp, Dies, At
  <2>2. UNCHANGED run \/ \E step \in Step \ {"CASE_RESOLVED"}, status \in Status : Write(c, step, status)
    BY <1>2 DEF EnterPhase, Phase, IntentUnknown, Pause, Pauses, EscalateTicket, Leave, StartAction, Withheld,
       StartReplanning, GiveUp, Dies, Step, Status
  <2>3. Return(c) \/ \E pc \in Elsewhere : Goto(c, pc)
    BY <1>2 DEF EnterPhase, Phase, After, IntentUnknown, Pause, EscalateTicket, Leave, StartAction, Withheld,
       StartReplanning, GiveUp, Dies, Elsewhere, PC
  <2> QED
    BY <2>1, <2>2, <2>3, GotoElsewhere, PlainStep
<1>3. ASSUME NEW c \in Call, Decide(c) \/ Redecide(c) PROVE VInv'
  <2>1. PICK pc \in Elsewhere : /\ At(c, "decide") \/ At(c, "redecide")
                                /\ IF call[c].r = None THEN UNCHANGED run ELSE Store(c, "DECISION_FORMULATION", "IN_PROGRESS")
                                /\ Goto(c, pc) \/ call' = [call EXCEPT ![c].pc = pc, ![c].alt = (pc = "act")]
                                /\ UNCHANGED <<audit, refunded, ticket, rejected>>
    <3>1. CASE Decide(c)
      BY <3>1, GatesType DEF Decide
    <3>2. CASE Redecide(c)
      <4>1. PICK pc \in Recoveries(c) :
              /\ At(c, "redecide")
              /\ IF call[c].r = None THEN UNCHANGED run ELSE Store(c, "DECISION_FORMULATION", "IN_PROGRESS")
              /\ call' = [call EXCEPT ![c].pc = pc, ![c].alt = (pc = "act")]
              /\ UNCHANGED <<audit, refunded, ticket, rejected>>
        BY <3>2, Zenon DEF Redecide
      <4>2. pc \in Elsewhere
        BY RecoveriesType
      <4> QED
        BY <4>1, <4>2, Zenon
    <3> QED
      BY <1>3, <3>1, <3>2
  <2>2. call[c] # None /\ call[c] \in CallRecord
    BY <2>1 DEF At, Inv, RunTypeOK
  <2>3. Write(c, "DECISION_FORMULATION", "IN_PROGRESS") /\ "DECISION_FORMULATION" \in Step \ {"CASE_RESOLVED"} /\ "IN_PROGRESS" \in Status
    BY <2>1 DEF Write, Step, Status
  <2>4. call'[c].pc = pc /\ \A d \in Call : d # c => call'[d] = call[d]
    <3> DEFINE alt == pc = "act"
    <3>1. Goto(c, pc) \/ call' = [call EXCEPT ![c].pc = pc, ![c].alt = alt]
      BY <2>1
    <3> HIDE DEF alt
    <3> QED
      BY <2>2, <3>1 DEF Goto, Inv, RunTypeOK, CallRecord
  <2> QED
    BY <2>1, <2>2, <2>3, <2>4, PlainStep
<1>4. ASSUME NEW c \in Call, Act(c) PROVE VInv'
  <2>0. refunded => refunded'
    BY <1>4, Zenon DEF Act
  <2>1. /\ call[c] # None /\ UNCHANGED <<audit, run, ticket>>
        /\ \E pc \in {"verify"} \cup Unresolved(c) : Goto(c, pc)
    BY <1>4 DEF Act, At
  <2>2. {"verify"} \cup Unresolved(c) \subseteq Elsewhere
    BY UnresolvedType DEF Elsewhere, PC
  <2> QED
    BY <2>0, <2>1, <2>2, GotoElsewhere, PlainStep
<1>5. ASSUME NEW c \in Call, Verify(c) PROVE VInv'
  <2> DEFINE next(ok) == [call[c] EXCEPT !.pc = "record", !.ok = ok]
  <2>1. PICK ok \in BOOLEAN :
          /\ audit' = [audit EXCEPT ![call[c].r] = @ \cup Finding(call[c].r, ok)]
          /\ call' = [call EXCEPT ![c] = next(ok)]
    BY <1>5 DEF Verify, Inv, RunTypeOK
  <2>2. call[c] \in CallRecord /\ UNCHANGED <<run, refunded, ticket, rejected>>
    BY <1>5 DEF Verify, At, Inv, RunTypeOK
  <2>3. call'[c] = next(ok) /\ \A d \in Call : d # c => call'[d] = call[d]
    BY <2>1 DEF Inv, RunTypeOK
  <2>4. call'[c].pc = "record" /\ call'[c].ok = ok /\ call'[c].r = call[c].r
    BY <2>2, <2>3 DEF CallRecord
  <2>5. \A r \in Run \cup {None} : Verified(r) => Verified(r)'
    BY <2>1 DEF Verified, Inv, RunTypeOK
  <2>6. ok => Verified(call[c].r)'
    BY <2>1, <2>2 DEF Verified, Inv, RunTypeOK, CallRecord, Finding
  <2>7. Knows(c)'
    BY <2>4, <2>6 DEF Knows, Verified
  <2> QED
    BY <2>2, <2>3, <2>5, <2>7, StepKeepsVInv
<1>6. ASSUME NEW c \in Call, RecordVerdict(c) PROVE VInv'
  <2>1. PICK pc \in Judged(c) : call' = [call EXCEPT ![c].pc = pc, ![c].ok = FALSE]
    BY <1>6, Zenon DEF RecordVerdict
  <2>2. At(c, "record") /\ UNCHANGED <<audit, refunded, ticket, rejected>>
    BY <1>6 DEF RecordVerdict
  <2>3. PICK status \in Status : Write(c, "ACTION_VERIFICATION", status)
    BY <1>6 DEF RecordVerdict, Status
  <2>4. call[c] \in CallRecord
    BY <2>2 DEF At, Inv, RunTypeOK
  <2>5. pc \in Elsewhere \/ (pc = "closeTicket" /\ call[c].ok)
    BY JudgedType
  <2>6. /\ call'[c].pc = pc /\ call'[c].r = call[c].r
        /\ \A d \in Call : d # c => call'[d] = call[d]
    BY <2>1, <2>4 DEF Inv, RunTypeOK, CallRecord
  <2>7. call[c].ok => Verified(call[c].r)
    BY <2>2 DEF At, VInv, Knows
  <2>8. Knows(c)'
    BY <2>2, <2>5, <2>6, <2>7 DEF Knows, Elsewhere, Verified
  <2>9. \A r \in Run : run'[r] # run[r] => run'[r].step = "ACTION_VERIFICATION"
    BY <2>2, <2>3, WriteKeepsRows DEF At, Step
  <2> QED
    BY <2>2, <2>6, <2>8, <2>9, StepKeepsVInv DEF Verified
<1>7. ASSUME NEW c \in Call, CloseTicket(c) PROVE VInv'
  <2>1. call[c] # None /\ Goto(c, "complete") /\ UNCHANGED <<run, audit, refunded>> /\ Verified(call[c].r)
    BY <1>7 DEF CloseTicket, At, VInv, Knows
  <2>2. /\ call'[c].pc = "complete" /\ call'[c].r = call[c].r
        /\ \A d \in Call : d # c => call'[d] = call[d]
    BY <2>1, GotoMoves DEF Inv, PC
  <2>3. Knows(c)'
    BY <2>1, <2>2 DEF Knows, Verified
  <2>4. call[c].r \in Run \cup {None} /\ "VERIFIED" \in audit'[call[c].r]
    BY <2>1 DEF Inv, RunTypeOK, CallRecord, Verified
  <2> QED
    BY <2>1, <2>2, <2>3, <2>4, StepKeepsVInv DEF Verified
<1>8. ASSUME NEW c \in Call, Complete(c) PROVE VInv'
  <2>1. /\ call[c] # None /\ Write(c, "CASE_RESOLVED", "COMPLETED") /\ Return(c)
        /\ UNCHANGED <<audit, refunded, ticket>>
        /\ Verified(call[c].r) \/ refunded
    BY <1>8 DEF Complete, At, VInv, Knows
  <2>2. \A r \in Run : run'[r] # run[r] => r = call[c].r
    BY <2>1, WriteFrame
  <2>3. call'[c] = None /\ \A d \in Call : d # c => call'[d] = call[d]
    BY <2>1, ReturnEnds DEF Inv
  <2> QED
    BY <2>1, <2>2, <2>3, StepKeepsVInv DEF Verified
<1>9. ASSUME NEW c \in Call, ReadCount(c) \/ WriteCount(c) PROVE VInv'
  <2>0. {"recount", "giveUp", "redecide"} \subseteq Elsewhere
    BY DEF Elsewhere, PC
  <2>1. PICK pc \in Elsewhere :
          /\ call[c] # None /\ UNCHANGED <<audit, refunded, ticket>>
          /\ \E n : \/ call' = [call EXCEPT ![c].pc = pc, ![c].count = n]
                   \/ call' = [call EXCEPT ![c].count = n, ![c].pc = pc]
    BY <1>9, <2>0 DEF ReadCount, WriteCount, At
  <2>2. call'[c].pc = pc /\ \A d \in Call : d # c => call'[d] = call[d]
    BY <2>1 DEF Inv, RunTypeOK, CallRecord
  <2>3. \A r \in Run : run'[r] # run[r] => run'[r].step = "REPLANNING"
    BY <1>9 DEF ReadCount, WriteCount, Inv, RunTypeOK
  <2>4. Knows(c)'
    BY <2>2 DEF Knows, Elsewhere
  <2> QED
    BY <2>1, <2>2, <2>3, <2>4, StepKeepsVInv DEF Verified
<1>10. ASSUME NEW c \in Call, EscalateRun(c) PROVE VInv'
  <2>1. /\ call[c] # None /\ Write(c, "HUMAN_ESCALATION", "ESCALATED")
        /\ UNCHANGED <<audit, refunded, ticket>>
        /\ "HUMAN_ESCALATION" \in Step /\ "ESCALATED" \in Status
    BY <1>10 DEF EscalateRun, At, Step, Status
  <2>2. \A r \in Run : run'[r] # run[r] => run'[r].step = "HUMAN_ESCALATION"
    BY <2>1, WriteKeepsRows
  <2>3. TicketVerified'
    BY <2>1, <2>2 DEF VInv, TicketVerified, Verified
  <2>4. ASSUME NEW d \in Call, call'[d] # None PROVE Knows(d)'
    <3>1. /\ call[d] # None /\ call'[d].r = call[d].r
          /\ call'[d].pc = call[d].pc /\ call'[d].ok = call[d].ok
      BY <1>10, <2>4, EscalateFrame
    <3> QED
      BY <2>1, <3>1 DEF VInv, Knows, Verified
  <2> QED
    BY <2>3, <2>4 DEF VInv
<1>11. ASSUME NEW c \in Call, Approve(c) \/ Consent(c) PROVE VInv'
  <2>1. PICK r \in Run, kind \in {"grant", "reject"} : Answer(c, kind, r)
    BY <1>11 DEF Approve, Consent, Resume
  <2>2. /\ call'[c].pc \in {"decide", "escalateTicket"}
        /\ \A d \in Call : d # c => call'[d] = call[d]
        /\ UNCHANGED <<run, audit, refunded, ticket>>
    BY <2>1 DEF Inv, RunTypeOK, NewCall, Answer
  <2> QED
    BY <2>2, StepKeepsVInv DEF Knows, Verified
<1>12. ASSUME NEW c \in Call, ReadRun(c) PROVE VInv'
  <2> DEFINE alt(r) == "FAILED" \in audit[r] \/ run[r].replans >= MaxReplans
             next(r) == [NewCall("reconcile", r, "compare") EXCEPT !.ok = "VERIFIED" \in audit[r], !.alt = alt(r)]
  <2>1. PICK r \in Run : /\ UNCHANGED <<run, audit, refunded, ticket, rejected>>
                         /\ call' = [call EXCEPT ![c] = next(r)]
    BY <1>12, Zenon DEF ReadRun
  <2>2. next(r).pc = "compare" /\ next(r).r = r /\ (next(r).ok <=> "VERIFIED" \in audit[r])
    BY DEF NewCall
  <2> HIDE DEF next
  <2>3. call'[c] = next(r) /\ \A d \in Call : d # c => call'[d] = call[d]
    BY <2>1 DEF Inv, RunTypeOK
  <2>4. Knows(c)'
    BY <2>1, <2>2, <2>3 DEF Knows, Verified
  <2> QED
    BY <2>1, <2>3, <2>4, StepKeepsVInv DEF Verified
<1>13. ASSUME NEW c \in Call, Compare(c) PROVE VInv'
  <2>1. /\ At(c, "compare") /\ UNCHANGED <<run, audit, refunded, ticket, rejected>>
        /\ \/ (refunded \/ call[c].ok) /\ Goto(c, "complete")
           \/ Goto(c, "escalateRun") \/ Return(c)
    BY <1>13 DEF Compare
  <2>2. CASE (refunded \/ call[c].ok) /\ Goto(c, "complete")
    <3>1. /\ call'[c].pc = "complete" /\ call'[c].r = call[c].r
          /\ \A d \in Call : d # c => call'[d] = call[d]
      BY <2>1, <2>2, GotoMoves DEF Inv, PC, At
    <3>2. Knows(c)'
      BY <2>1, <2>2, <3>1 DEF Knows, Verified, VInv, At
    <3> QED
      BY <2>1, <3>1, <3>2, StepKeepsVInv DEF Verified
  <2>3. CASE Goto(c, "escalateRun") \/ Return(c)
    <3>1. Return(c) \/ \E pc \in Elsewhere : Goto(c, pc)
      BY <2>3 DEF Elsewhere, PC
    <3> QED
      BY <2>1, <3>1, GotoElsewhere, PlainStep DEF At
  <2> QED
    BY <2>1, <2>2, <2>3
<1>14. ASSUME NEW c \in Call, Serve(c) PROVE VInv'
  <2>1. /\ call'[c].pc \in {"decide", "act", "count"}
        /\ \A d \in Call : d # c => call'[d] = call[d]
        /\ UNCHANGED <<run, audit, refunded, ticket>>
    BY <1>14 DEF Serve, NewCall, Inv, RunTypeOK
  <2> QED
    BY <2>1, StepKeepsVInv DEF Knows, Verified
<1>15. CASE UNCHANGED vars
  BY <1>15 DEF vars, VInv, Knows, Verified, TicketVerified
<1> QED
  BY <1>1, <1>2, <1>3, <1>4, <1>5, <1>6, <1>7, <1>8, <1>9, <1>10, <1>11, <1>12, <1>13, <1>14, <1>15 DEF Next

\* However run, resumeRun and reconcile fail and overlap, a run is completed and
\* the ticket resolved only after an action was verified, or the order refunded.
THEOREM VerifiedBeforeResolved == Spec => []ResolvedIsVerified
<1>1. Init => VInv
  BY DEF Init, VInv, TicketVerified
<1>2. VInv => ResolvedIsVerified
  BY DEF VInv, TicketVerified, Verified, ResolvedIsVerified, CaseStatus, RunShows
<1> QED
  BY <1>1, <1>2, InitInv, NextInv, NextVInv, PTL DEF Spec
=============================================================================
