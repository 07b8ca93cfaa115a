----------------------------- MODULE Integrations -----------------------------
(***************************************************************************)
(* External operations through the integration layer: an adapter of the     *)
(* registry's mode carries them out, either the sandbox's fake or the HTTP   *)
(* adapter with HardenedHttpClient's retries; IntegrationRepository keeps a  *)
(* row for each, and a circuit breaker counts what becomes of them.         *)
(*                                                                          *)
(* The caller is the one of INTEGRATIONS.md: it asks the breaker, records    *)
(* the operation, executes it, reports and records the outcome, verifies it. *)
(* Providers do not affect each other, so a behaviour has one.              *)
(***************************************************************************)
EXTENDS CircuitBreaker, FiniteSets, TLC
CONSTANTS
  Call,         \* callers
  Key,          \* what tells operations of a kind apart: the rest of their keys
  Stock,        \* units in the inventory
  MaxRetries,   \* retries of a request
  MaxRedirects, \* redirects that are followed
  MaxCalls,     \* bound: calls, in each mode
  MaxLost,      \* bound: writes to the database that fail
  None

Mode == {"SANDBOX", "PRODUCTION"}
Outcome == {"SUCCESS", "FAILED", "UNKNOWN_OUTCOME"}

ASSUME IntegrationAssumption ==
  /\ Stock \in Nat /\ MaxRetries \in Nat /\ MaxRedirects \in Nat
  /\ MaxCalls \in [Mode -> Nat] /\ MaxLost \in Nat

\* NULL is no status.
ASSUME NoStatusAssumption == None \notin Outcome \cup {"PENDING", "SUCCEEDED", "PASSED"}

-----------------------------------------------------------------------------
(* The HTTP adapters: what they offer, and the method it is asked for with. *)

HttpOrder == "CANCEL_ORDER" :> "POST"
HttpPayment == "PROCESS_REFUND" :> "POST"
HttpInventory == "RESERVE_STOCK" :> "POST" @@ "RELEASE_STOCK" :> "POST"
HttpShipping == "CREATE_LABEL" :> "POST"
HttpCrm == "CREATE_TICKET" :> "POST" @@ "UPDATE_TICKET" :> "PATCH"
HttpNotification == "SEND_NOTIFICATION" :> "POST"

\* The adapters of the registry.
Adapters == {HttpOrder, HttpPayment, HttpInventory, HttpShipping, HttpCrm, HttpNotification}
Method == HttpOrder @@ HttpPayment @@ HttpInventory @@ HttpShipping @@ HttpCrm @@ HttpNotification
Operation == DOMAIN Method

VARIABLES
  mode,     \* currentMode
  adapter,  \* the operations of the provider in question
  breaker,  \* its circuit breaker
  row,      \* row[i]: the IntegrationOperation of the idempotency key i, or None
  call,     \* call[c]: a call and its locals, or None
  memo,     \* memo[i]: the sandbox's answer to the idempotency key i, or None
  seen,     \* the idempotency keys the provider has carried out
  late,     \* requests that may still arrive although nobody waits
  order,    \* the order at the provider
  refund,   \* refund[k]: the refund made with k, or None
  free,     \* units in stock
  held,     \* reservations, named by the k they were made with
  entries,  \* keys of the labels, tickets, notes and messages at the provider
  done,     \* done[i]: how often the provider carried i out (history)
  rerouted, \* idempotency keys whose request went on as a GET (history)
  streak,   \* outcomes of one kind reported in a row (history)
  calls,    \* calls so far (history)
  lost      \* writes that failed (history)

World == <<seen, order, refund, free, held, entries, done>>
Http == <<late, rerouted>>
vars == <<mode, adapter, breaker, row, call, memo, seen, late, order, refund, free, held, entries,
          done, rerouted, streak, calls, lost>>

Id == adapter \X Key
Its(c) == <<call[c].op, call[c].key>>
At(c, pc) == call[c] # None /\ call[c].pc = pc
Goto(c, pc) == call' = [call EXCEPT ![c] = [call[c] EXCEPT !.pc = pc]]
Got(c, outcome) == call' = [call EXCEPT ![c] = [call[c] EXCEPT !.pc = "report", !.outcome = outcome]]

Init ==
  /\ mode \in Mode
  /\ adapter \in {DOMAIN a : a \in Adapters}
  /\ breaker = NewBreaker
  /\ row = [i \in Id |-> None]
  /\ call = [c \in Call |-> None]
  /\ memo = [i \in Id |-> None]
  /\ seen = {}
  /\ late = {}
  /\ order \in (IF "CANCEL_ORDER" \in adapter THEN {"PENDING", "SHIPPED"} ELSE {"PENDING"})
  /\ refund = [k \in Key |-> None]
  /\ free = Stock
  /\ held = {}
  /\ entries = {}
  /\ done = [i \in Id |-> 0]
  /\ rerouted = {}
  /\ streak = [good |-> 0, bad |-> 0]
  /\ calls = 0
  /\ lost = 0

-----------------------------------------------------------------------------
(* What an operation does at the provider; i is its idempotency key. The     *)
(* fakes stand for the systems of record, on either side of the wire.        *)

\* FakeOrderAdapter, CANCEL_ORDER
CancelOrder(i) ==
  /\ order # "SHIPPED"
  /\ order' = "CANCELLED"
  /\ UNCHANGED <<refund, free, held, entries>>

\* FakePaymentAdapter, PROCESS_REFUND. A gateway may take its time.
ProcessRefund(i) ==
  /\ \E s \in (IF mode = "SANDBOX" THEN {"SUCCEEDED"} ELSE {"PENDING", "SUCCEEDED", "FAILED"}) :
       refund' = [refund EXCEPT ![i[2]] = s]
  /\ UNCHANGED <<order, free, held, entries>>

\* FakeInventoryAdapter, RESERVE_STOCK
ReserveStock(i) ==
  /\ free >= 1
  /\ free' = free - 1
  /\ held' = held \cup {i[2]}
  /\ UNCHANGED <<order, refund, entries>>

\* Mutant: the reservation is left when it is released.
ReleaseHeld(i, of) ==
  /\ of \in held
  /\ free' = free + 1
  /\ UNCHANGED <<order, refund, held, entries>>

\* FakeInventoryAdapter, RELEASE_STOCK of the reservation of
ReleaseStock(i, of) ==
  /\ of \in held
  /\ free' = free + 1
  /\ held' = held \ {of}
  /\ UNCHANGED <<order, refund, entries>>

\* FakeShippingAdapter, CREATE_LABEL
CreateLabel(i) == entries' = entries \cup {i} /\ UNCHANGED <<order, refund, free, held>>

\* FakeCrmAdapter, CREATE_TICKET; UPDATE_TICKET adds a note to a ticket there is.
WriteTicket(i) == entries' = entries \cup {i} /\ UNCHANGED <<order, refund, free, held>>

\* FakeNotificationAdapter, SEND_NOTIFICATION
SendNotification(i) == entries' = entries \cup {i} /\ UNCHANGED <<order, refund, free, held>>

Possible(i, of) ==
  /\ i[1] = "CANCEL_ORDER" => order # "SHIPPED"
  /\ i[1] = "RESERVE_STOCK" => free >= 1
  /\ i[1] = "RELEASE_STOCK" => of \in held

CarryOut(i, of) ==
  /\ \/ i[1] = "CANCEL_ORDER" /\ CancelOrder(i)
     \/ i[1] = "PROCESS_REFUND" /\ ProcessRefund(i)
     \/ i[1] = "RESERVE_STOCK" /\ ReserveStock(i)
     \/ i[1] = "RELEASE_STOCK" /\ ReleaseStock(i, of)
     \/ i[1] = "CREATE_LABEL" /\ CreateLabel(i)
     \/ i[1] \in {"CREATE_TICKET", "UPDATE_TICKET"} /\ WriteTicket(i)
     \/ i[1] = "SEND_NOTIFICATION" /\ SendNotification(i)
  /\ done' = [done EXCEPT ![i] = @ + 1]

\* A gateway comes to an end with a refund.
Settle ==
  \E k \in Key :
    /\ refund[k] = "PENDING"
    /\ \E s \in {"SUCCEEDED", "FAILED"} : refund' = [refund EXCEPT ![k] = s]
    /\ UNCHANGED <<mode, adapter, breaker, row, call, memo, seen, order, free, held, entries, done, streak, calls, lost, Http>>

-----------------------------------------------------------------------------
(* The caller *)

Begin(op, k, of) ==
  [pc |-> "execute", op |-> op, key |-> k, of |-> of, outcome |-> None, attempt |-> 0,
   get |-> FALSE, hops |-> 0]

\* A write that fails is only logged.
WriteLost == lost < MaxLost /\ lost' = lost + 1 /\ UNCHANGED row

\* recordOperation: an upsert.
RecordOperation(i, status) ==
  \/ /\ row' = [row EXCEPT ![i] = IF @ = None THEN [status |-> status, verification |-> None]
                                  ELSE [status |-> status, verification |-> @.verification]]
     /\ UNCHANGED lost
  \/ WriteLost

\* A call the breaker allows, recorded; a reservation is released under any key.
Start(c) ==
  \E op \in adapter, k, of \in Key :
    /\ call[c] = None
    /\ calls < MaxCalls[mode]
    /\ op = "RELEASE_STOCK" \/ of = k
    /\ breaker' = Looked(breaker)
    /\ Allows(breaker)
    /\ RecordOperation(<<op, k>>, "PENDING")
    /\ call' = [call EXCEPT ![c] = Begin(op, k, of)]
    /\ calls' = calls + 1
    /\ UNCHANGED <<mode, adapter, memo, streak, World, Http>>

\* resetTimeoutMs pass ...
Rest ==
  /\ breaker.state = "OPEN" /\ ~breaker.rested
  /\ breaker' = [breaker EXCEPT !.rested = TRUE]
  /\ UNCHANGED <<mode, adapter, row, call, memo, streak, calls, lost, World, Http>>

\* ... and the health route asks for the state.
Health ==
  /\ breaker' = Looked(breaker) /\ breaker' # breaker
  /\ UNCHANGED <<mode, adapter, row, call, memo, streak, calls, lost, World, Http>>

\* The bounded count of what is reported in a row.
Counted(n, most) == IF n < most THEN n + 1 ELSE n

\* What became of it is reported to the breaker and recorded.
Report(c) ==
  /\ At(c, "report")
  /\ IF call[c].outcome = "SUCCESS"
     THEN /\ breaker' = Succeeded(breaker)
          /\ streak' = [good |-> Counted(streak.good, ProbeThreshold), bad |-> 0]
          /\ RecordOperation(Its(c), "COMPLETED")
     ELSE /\ breaker' = Failed(breaker)
          /\ streak' = [good |-> 0, bad |-> Counted(streak.bad, FailureThreshold)]
          /\ RecordOperation(Its(c), "FAILED")
  /\ Goto(c, "verify")
  /\ UNCHANGED <<mode, adapter, memo, calls, World, Http>>

-----------------------------------------------------------------------------
(* The sandbox: execute of the fakes, which awaits nothing. *)

\* The failures a fake can be told to show.
Simulated(op) ==
  IF op \in {"CANCEL_ORDER", "PROCESS_REFUND"} THEN {"timeout", "failure", "unknown"}
  ELSE IF op = "SEND_NOTIFICATION" THEN {"failure"} ELSE {"timeout", "failure"}

Remember(c, outcome) ==
  /\ memo' = [memo EXCEPT ![Its(c)] = outcome]
  /\ Got(c, outcome)

SandboxExecute(c) ==
  /\ mode = "SANDBOX"
  /\ At(c, "execute")
  /\ \/ memo[Its(c)] # None /\ Got(c, memo[Its(c)]) /\ UNCHANGED <<memo, World>>
     \/ /\ memo[Its(c)] = None
        /\ \/ /\ \E s \in Simulated(call[c].op) \ {"unknown"} :
                   Remember(c, IF s = "timeout" THEN "UNKNOWN_OUTCOME" ELSE "FAILED")
              /\ UNCHANGED World
           \/ /\ CarryOut(Its(c), call[c].of)
              /\ Remember(c, "SUCCESS")
                 \/ ("unknown" \in Simulated(call[c].op) /\ Remember(c, "UNKNOWN_OUTCOME"))
              /\ UNCHANGED seen
           \/ /\ ~Possible(Its(c), call[c].of)
              /\ Got(c, "FAILED")
              /\ UNCHANGED <<memo, World>>
  /\ UNCHANGED <<mode, adapter, breaker, row, streak, calls, lost, Http>>

\* verify of the fakes: the order's status, a refund of the payment; the others
\* ask for an id that the call does not have, and verify.
FakeOrderVerdicts == {order = "CANCELLED"}
FakePaymentVerdicts == {\E k \in Key : refund[k] = "SUCCEEDED"}
FakeInventoryVerdicts == {TRUE}
FakeShippingVerdicts == {TRUE}
FakeCrmVerdicts == {TRUE}
FakeNotificationVerdicts == {TRUE}

SandboxVerdicts(op) ==
  CASE op = "CANCEL_ORDER" -> FakeOrderVerdicts
    [] op = "PROCESS_REFUND" -> FakePaymentVerdicts
    [] op \in {"RESERVE_STOCK", "RELEASE_STOCK"} -> FakeInventoryVerdicts
    [] op = "CREATE_LABEL" -> FakeShippingVerdicts
    [] op \in {"CREATE_TICKET", "UPDATE_TICKET"} -> FakeCrmVerdicts
    [] op = "SEND_NOTIFICATION" -> FakeNotificationVerdicts

-----------------------------------------------------------------------------
(* Production: HardenedHttpClient.request. Its answers: a status below 300;   *)
(* 4xx; 429; 408 or 504; another 5xx; 301 or 302; 303; 307 or 308; and the     *)
(* errors of a timeout and of the network.                                  *)

Redirect == {"moved", "see", "again"}
Error == {"client", "limited", "timeout", "server", "abort", "network"}

\* IntegrationError.fromHttpStatus
Retryable == {"limited", "timeout", "server", "abort", "network"}
Unknown == {"timeout", "abort", "network"}

\* Mutant: every attempt has a key of its own.
FreshKey(c) == <<call[c].op, call[c].key, call[c].attempt>>

\* generateIdempotencyKey
IdempotencyKey(c) == <<call[c].op, call[c].key>>

\* An attempt, the first or after a backoff.
Send(c) ==
  /\ mode = "PRODUCTION"
  /\ At(c, "execute")
  /\ call' = [call EXCEPT ![c] =
       [call[c] EXCEPT !.pc = "wait", !.attempt = @ + 1, !.get = FALSE, !.hops = 0]]
  /\ UNCHANGED <<mode, adapter, breaker, row, memo, streak, calls, lost, World, Http>>

Raise(c, e) ==
  IF e \in Retryable /\ call[c].attempt <= MaxRetries THEN Goto(c, "execute")
  ELSE Got(c, IF e \in Unknown THEN "UNKNOWN_OUTCOME" ELSE "FAILED")

\* Mutant: a redirect is taken for a success.
FollowNot(c, a) == Got(c, "SUCCESS")

\* A POST that is redirected becomes a GET, except by a 307 or 308.
Follow(c, a) ==
  IF call[c].hops = MaxRedirects THEN Got(c, "FAILED")
  ELSE call' = [call EXCEPT ![c] = [call[c] EXCEPT !.hops = @ + 1,
         !.get = @ \/ a = "see" \/ (a = "moved" /\ Method[call[c].op] = "POST")]]

Answered(c, a) ==
  \/ a = "ok" /\ Got(c, "SUCCESS") /\ rerouted' = (IF call[c].get THEN rerouted \cup {Its(c)} ELSE rerouted)
  \/ a \in Redirect /\ Follow(c, a) /\ UNCHANGED rerouted
  \/ a \in Error /\ Raise(c, a) /\ UNCHANGED rerouted

\* The provider honours idempotency keys. It may refuse a request, and fail
\* before or after it is carried out; an answer that is lost is a timeout.
Serve(c) ==
  /\ At(c, "wait")
  /\ \/ /\ ~call[c].get /\ IdempotencyKey(c) \notin seen
        /\ CarryOut(Its(c), call[c].of)
        /\ seen' = seen \cup {IdempotencyKey(c)}
        /\ \E a \in {"ok", "abort", "server", "timeout", "see", "again"} : Answered(c, a)
     \/ /\ call[c].get \/ IdempotencyKey(c) \in seen
        /\ \E a \in {"ok", "abort", "server", "timeout", "limited"} : Answered(c, a)
        /\ UNCHANGED World
     \/ /\ \E a \in {"client", "abort", "limited", "server", "timeout", "moved", "again"} : Answered(c, a)
        /\ UNCHANGED World
  /\ UNCHANGED <<mode, adapter, breaker, row, memo, late, streak, calls, lost>>

\* The timeout, or the network fails; the request may still be on its way.
TimedOut(c) ==
  /\ At(c, "wait")
  /\ \E e \in {"abort", "network"} : Raise(c, e)
  /\ \/ UNCHANGED late
     \/ /\ ~call[c].get
        /\ late' = late \cup {[id |-> Its(c), sent |-> IdempotencyKey(c), of |-> call[c].of]}
  /\ UNCHANGED <<mode, adapter, breaker, row, memo, rerouted, streak, calls, lost, World>>

\* A request arrives that was given up.
ArriveLate ==
  \E r \in late :
    /\ r.sent \notin seen
    /\ CarryOut(r.id, r.of)
    /\ seen' = seen \cup {r.sent}
    /\ late' = late \ {r}
    /\ UNCHANGED <<mode, adapter, breaker, row, call, memo, rerouted, streak, calls, lost>>

\* verify of the HTTP adapters: the order's status, a refund of the payment, no
\* more than that the stock or the ticket can be read; without an id nothing is
\* read, and what fails to be read is not verified.
HttpOrderVerdicts == {order = "CANCELLED", FALSE}

\* Mutant: a refund that is on record is as good as one that has succeeded.
HttpPaymentRecorded == {\E k \in Key : refund[k] # None, FALSE}

HttpPaymentVerdicts == {refund[k] = "SUCCEEDED" : k \in Key} \cup {FALSE}
HttpInventoryVerdicts(op) == IF op = "RESERVE_STOCK" THEN BOOLEAN ELSE {TRUE}
HttpShippingVerdicts == {TRUE}
HttpCrmVerdicts(op) == IF op = "UPDATE_TICKET" THEN BOOLEAN ELSE {TRUE}
HttpNotificationVerdicts == {TRUE}

ProductionVerdicts(op) ==
  CASE op = "CANCEL_ORDER" -> HttpOrderVerdicts
    [] op = "PROCESS_REFUND" -> HttpPaymentVerdicts
    [] op \in {"RESERVE_STOCK", "RELEASE_STOCK"} -> HttpInventoryVerdicts(op)
    [] op = "CREATE_LABEL" -> HttpShippingVerdicts
    [] op \in {"CREATE_TICKET", "UPDATE_TICKET"} -> HttpCrmVerdicts(op)
    [] op = "SEND_NOTIFICATION" -> HttpNotificationVerdicts

\* updateVerification of the row that recordOperation returned, if there is one.
Verify(c) ==
  /\ At(c, "verify")
  /\ \/ /\ row[Its(c)] # None
        /\ \E v \in (IF mode = "SANDBOX" THEN SandboxVerdicts(call[c].op) ELSE ProductionVerdicts(call[c].op)) :
             row' = [row EXCEPT ![Its(c)] =
               [row[Its(c)] EXCEPT !.verification = IF v THEN "PASSED" ELSE "FAILED"]]
        /\ UNCHANGED lost
     \/ row[Its(c)] = None /\ UNCHANGED <<row, lost>>
     \/ row[Its(c)] # None /\ WriteLost
  /\ call' = [call EXCEPT ![c] = None]
  /\ UNCHANGED <<mode, adapter, breaker, memo, streak, calls, World, Http>>

-----------------------------------------------------------------------------
Progress(c) ==
  \/ SandboxExecute(c) \/ Send(c) \/ Serve(c) \/ TimedOut(c)
  \/ Report(c) \/ Verify(c)

Next ==
  \/ Rest \/ Health \/ Settle \/ ArriveLate
  \/ \E c \in Call : Start(c) \/ Progress(c)

Spec == Init /\ [][Next]_vars

-----------------------------------------------------------------------------
(* Properties *)

IntegrationTypeOK ==
  /\ mode \in Mode /\ breaker \in Breaker
  /\ row \in [Id -> {None} \cup [status : {"PENDING", "COMPLETED", "FAILED"}, verification : {None, "PASSED", "FAILED"}]]
  /\ memo \in [Id -> Outcome \cup {None}]
  /\ \A c \in Call : call[c] # None => call[c].attempt \in 0..(MaxRetries + 1) /\ call[c].hops \in 0..MaxRedirects
  /\ refund \in [Key -> {None, "PENDING", "SUCCEEDED", "FAILED"}]
  /\ order \in {"PENDING", "SHIPPED", "CANCELLED"} /\ held \subseteq Key
  /\ free + Cardinality(held) = Stock /\ entries \subseteq Id

\* "prevents duplicate external mutations" (INTEGRATIONS.md): whatever is retried,
\* redirected, lost or late, an idempotency key has one effect at most.
EffectOnce == \A i \in Id : done[i] <= 1

\* An operation recorded as COMPLETED was carried out, unless its request was
\* answered after it had been redirected and turned into a GET.
CompletedWasDone ==
  \A i \in Id : row[i] # None /\ row[i].status = "COMPLETED" => done[i] > 0 \/ i \in rerouted

\* A cancellation or a refund recorded as verified is true at the provider: the
\* order is cancelled, a refund of the payment has succeeded.
VerifiedIsTrue ==
  \A i \in Id : row[i] # None /\ row[i].verification = "PASSED" =>
    /\ i[1] = "CANCEL_ORDER" => order = "CANCELLED"
    /\ i[1] = "PROCESS_REFUND" => \E k \in Key : refund[k] = "SUCCEEDED"

\* "5 consecutive failures trips", "2 consecutive successes in HALF_OPEN closes"
\* (INTEGRATIONS.md), also with results of calls that began in another state.
BreakerCounts ==
  [][/\ breaker.state = "CLOSED" /\ breaker'.state = "OPEN" => streak'.bad = FailureThreshold
     /\ breaker.state # "CLOSED" /\ breaker'.state = "CLOSED" => streak'.good = ProbeThreshold]_vars
=============================================================================
