---------------------------- MODULE AdmissionControl ----------------------------
(***************************************************************************)
(* The three limiters of the service, each in the memory of one process:    *)
(* RateLimiter, which authenticate() asks for every request, and            *)
(* DistributedRateLimiter and the token bucket of TenantFairnessManager,    *)
(* which stand ready for whoever calls them.  A limiter is one synchronous  *)
(* function, so one action; callers come at any time and in any order.  The *)
(* keys of a limiter share nothing: the model has one key of each.          *)
(*                                                                         *)
(* Time.  A stored timestamp is its distance to the present, capped where   *)
(* no comparison can tell more.  The tick is a part of a second.  What may  *)
(* happen several times, a timestamp of the sliding window among them, is   *)
(* counted cumulatively: how many of them are at most so many ticks old.    *)
(***************************************************************************)
EXTENDS Integers

CONSTANTS
  Caller,          \* callers of the sliding window that may be refused
  NotTold,         \* no refusal
  Window,          \* windowMs in ticks
  MaxRequests, BurstAllowance,       \* DistributedRateLimiter
  MaxPerClient,                      \* RateLimiter
  TokenRate, Refill,                 \* tokenRatePerSec, and its share per tick
  MaxCharge                          \* bound: tokens consumed at once

ASSUME AdmissionAssumption ==
  /\ {Window, MaxRequests, MaxPerClient, Refill} \subseteq Nat \ {0}
  /\ {BurstAllowance, TokenRate, MaxCharge} \subseteq Nat

VARIABLES
  record,   \* RateLimiter: the client's record, left until its resetTime
  stamps,   \* DistributedRateLimiter: how many of the key's timestamps are that old at most
  bucket,   \* tokenBuckets: the tenant's tokens, and the time since lastRefill
  told,     \* told[c]: the wait c was refused with, and the requests admitted since (history)
  passed, entered, spent  \* history: what passed each limiter at most so many ticks ago

admissionVars == <<record, stamps, bucket, told, passed, entered, spent>>

Recent == 0..(Window - 1)
Never == [a \in Recent |-> 0]
Upto(h, a) == IF a < 0 THEN 0 ELSE h[a]
Add(h, n) == [a \in Recent |-> h[a] + n]

AdmissionInit ==
  /\ record = [count |-> 0, left |-> -1]
  /\ stamps = [a \in 0..Window |-> 0]
  /\ bucket = [tokens |-> TokenRate, age |-> 0]
  /\ told = [c \in Caller |-> NotTold]
  /\ passed = Never /\ entered = Never /\ spent = Never

-----------------------------------------------------------------------------
(* RateLimiter.checkRateLimit; a refusal changes nothing. *)

\* No record is one whose time is over.
Fresh == record.left < 0
WithinRecord == ~Fresh /\ record.count < MaxPerClient

Arrive ==
  /\ \/ Fresh /\ record' = [count |-> 1, left |-> Window]
     \/ WithinRecord /\ record' = [record EXCEPT !.count = @ + 1]
  /\ passed' = Add(passed, 1)
  /\ UNCHANGED <<stamps, bucket, told, entered, spent>>

-----------------------------------------------------------------------------
(* DistributedRateLimiter.checkLimit *)

MaxAllowed == MaxRequests + BurstAllowance

\* Mutant: a timestamp leaves the window a tick early.
LiveLess(s) == [a \in 0..Window |-> IF a < Window - 1 THEN s[a] ELSE Upto(s, Window - 2)]

\* What is left of the timestamps in the window (t > now - windowMs).
Live(s) == [a \in 0..Window |-> IF a < Window THEN s[a] ELSE s[Window - 1]]

\* How old the oldest timestamp is.
Oldest(s) == CHOOSE a \in 0..Window :
               s[a] = s[Window] /\ \A b \in 0..(a - 1) : s[b] # s[Window]

\* Mutant: the wait ends a tick before the oldest timestamp leaves the window.
ResetAfterShort(s) == Window - Oldest(s) - 1

\* The wait a refusal names: until the oldest timestamp leaves the window.
ResetAfter(s) == Window - Oldest(s)

\* One more request was admitted since those waiting were refused.
Noted == [d \in Caller |->
            IF told[d] = NotTold THEN NotTold
            ELSE [told[d] EXCEPT !.since = IF @ = MaxAllowed THEN @ ELSE @ + 1]]

CheckLimit(c) ==
  /\ LET live == Live(stamps) IN
       \/ /\ live[Window] < MaxAllowed
          /\ stamps' = [a \in 0..Window |-> live[a] + 1]
          /\ entered' = Add(entered, 1)
          /\ told' = Noted
       \/ /\ live[Window] >= MaxAllowed
          /\ stamps' = live
          /\ told' = [told EXCEPT ![c] = [left |-> ResetAfter(live), since |-> 0]]
          /\ UNCHANGED entered
  /\ UNCHANGED <<record, bucket, passed, spent>>

-----------------------------------------------------------------------------
(* TenantFairnessManager.consumeTokens *)

\* The refill, which is stored whether or not there are enough.
Refilled ==
  LET n == bucket.tokens + bucket.age * Refill IN IF n > TokenRate THEN TokenRate ELSE n

Consume(n) ==
  /\ IF Refilled < n
     THEN /\ bucket' = [tokens |-> Refilled, age |-> 0]
          /\ UNCHANGED spent
     ELSE /\ bucket' = [tokens |-> Refilled - n, age |-> 0]
          /\ spent' = Add(spent, n)
  /\ UNCHANGED <<record, stamps, told, passed, entered>>

-----------------------------------------------------------------------------
(* Time and the next-state relation *)

Older(a, limit) == IF a = limit THEN a ELSE a + 1
Shifted(h) == [a \in Recent |-> Upto(h, a - 1)]

Pass ==
  /\ record' = [record EXCEPT !.left = IF @ < 0 THEN @ ELSE @ - 1]
  /\ stamps' = [a \in 0..Window |-> IF a = Window THEN stamps[a] ELSE Upto(stamps, a - 1)]
  /\ bucket' = [bucket EXCEPT !.age = Older(@, TokenRate)]
  /\ passed' = Shifted(passed) /\ entered' = Shifted(entered) /\ spent' = Shifted(spent)
  /\ told' = [c \in Caller |-> IF told[c] = NotTold \/ told[c].left <= 0 THEN NotTold
                               ELSE [told[c] EXCEPT !.left = @ - 1]]

AdmissionNext ==
  \/ Pass
  \/ Arrive
  \/ \E c \in Caller : CheckLimit(c)
  \/ \E n \in 1..MaxCharge : Consume(n)

AdmissionSpec == AdmissionInit /\ [][AdmissionNext]_admissionVars

-----------------------------------------------------------------------------
(* Properties *)

\* Over every stretch of time the limiters let through what they promise,
\* whenever the requests come: the sliding window its maximum and the burst,
\* the records of the middleware no more than two of them hold, and the bucket
\* what it holds and what flows in meanwhile.
RatesBounded ==
  /\ entered[Window - 1] <= MaxAllowed
  /\ passed[Window - 1] <= 2 * MaxPerClient
  /\ \A k \in Recent : spent[k] <= TokenRate + k * Refill

\* Who waits as long as a refusal says finds room, unless others took it meanwhile.
WaitSuffices ==
  \A c \in Caller :
    (told[c] # NotTold /\ told[c].left = 0) => Live(stamps)[Window] - told[c].since < MaxAllowed
=============================================================================
