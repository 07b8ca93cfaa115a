----------------------------- MODULE BoundaryProofs -----------------------------
(***************************************************************************)
(* Proofs about the two boundaries of the service.                         *)
(*                                                                         *)
(* Towards its callers (AdmissionControl): for any number of requests and  *)
(* any limits, no stretch of time lets through more than its limit, and a  *)
(* refusal names a wait that is long enough.                               *)
(*                                                                         *)
(* Towards its providers (Integrations, CircuitBreaker): for any calls,    *)
(* keys, retries and thresholds, an operation takes effect once, its       *)
(* record is true, and the breaker changes state for cause.                *)
(***************************************************************************)
EXTENDS AdmissionControl, Integrations, FiniteSetTheorems, WellFoundedInduction, TLAPS

-----------------------------------------------------------------------------
(* What the limiters count.  Every invariant is about one limiter and the *)
(* history of what it let through.                                         *)

\* RateLimiter: what a record that ends in left ticks has counted is what
\* passed since it was made, Window - left ticks ago; the record before it
\* counted no more than a record may.
RecordInv ==
  /\ record \in [count : 0..MaxPerClient, left : (-1)..Window]
  /\ passed \in [Recent -> Nat]
  /\ record.left < 0 => passed[0] = 0
  /\ \A k \in Recent :
       /\ passed[k] <= record.count + MaxPerClient
       /\ k + record.left <= Window => passed[k] <= record.count

\* DistributedRateLimiter: the timestamps are those of what was admitted, and
\* there is room once what was there at a refusal is too old.
WindowInv ==
  /\ stamps \in [0..Window -> Nat]
  /\ \A a, b \in 0..Window : a <= b => stamps[a] <= stamps[b]
  /\ stamps[Window - 1] <= MaxAllowed
  /\ entered = [a \in Recent |-> stamps[a]]
  /\ told = [c \in Caller |-> told[c]]
  /\ \A c \in Caller : told[c] # NotTold =>
       /\ told[c] \in [left : 0..Window, since : 0..MaxAllowed]
       /\ Upto(stamps, Window - told[c].left - 1) - told[c].since < MaxAllowed

\* TenantFairnessManager: what was spent since the refill is what the bucket
\* lost, and before it no more than the bucket held and what flowed in.
BucketInv ==
  /\ bucket \in [tokens : 0..TokenRate, age : 0..TokenRate]
  /\ spent \in [Recent -> Nat]
  /\ \A k \in Recent :
       IF k < bucket.age THEN spent[k] = 0
       ELSE spent[k] + bucket.tokens <= TokenRate + (k - bucket.age) * Refill

RateInv == RecordInv /\ WindowInv /\ BucketInv

LEMMA RateConstants ==
  /\ Window \in Nat \ {0} /\ MaxPerClient \in Nat \ {0} /\ Refill \in Nat \ {0}
  /\ TokenRate \in Nat /\ MaxCharge \in Nat /\ MaxAllowed \in Nat \ {0}
  /\ 0 \in Recent /\ Window - 1 \in Recent /\ Recent \subseteq 0..Window
  BY AdmissionAssumption DEF MaxAllowed, Recent

LEMMA UptoIsNatural ==
  ASSUME NEW h, NEW n \in Nat, h \in [0..n -> Nat], NEW a \in Int, a <= n
  PROVE  Upto(h, a) \in Nat
  BY DEF Upto

\* Adding to a history, and the time that passes over it.
LEMMA AddAt ==
  ASSUME NEW h \in [Recent -> Nat], NEW n \in Nat
  PROVE  /\ Add(h, n) \in [Recent -> Nat]
         /\ \A k \in Recent : Add(h, n)[k] = h[k] + n
  BY DEF Add

LEMMA ShiftedAt ==
  ASSUME NEW h \in [Recent -> Nat]
  PROVE  /\ Shifted(h) \in [Recent -> Nat]
         /\ Shifted(h)[0] = 0
         /\ \A k \in Recent \ {0} : k - 1 \in Recent /\ Shifted(h)[k] = h[k - 1]
<1>1. \A k \in Recent \ {0} : k - 1 \in Recent /\ Upto(h, k - 1) = h[k - 1]
  BY RateConstants DEF Upto, Recent
<1>2. Upto(h, 0 - 1) = 0
  BY DEF Upto
<1>3. \A k \in Recent : Upto(h, k - 1) \in Nat
  BY <1>1, <1>2
<1>4. Shifted(h) = [a \in Recent |-> Upto(h, a - 1)]
  BY DEF Shifted
<1>5. QED
  BY <1>1, <1>2, <1>3, <1>4, RateConstants

-----------------------------------------------------------------------------
(* The records of the middleware. *)

LEMMA ArriveKeepsRecord ==
  ASSUME RecordInv, Arrive
  PROVE  RecordInv'
<1>1. passed' \in [Recent -> Nat] /\ \A k \in Recent : passed'[k] = passed[k] + 1
  BY AddAt DEF RecordInv, Arrive
<1>2. CASE Fresh /\ record' = [count |-> 1, left |-> Window]
  <2>1. record.left < 0 /\ record'.count = 1 /\ record'.left = Window
    BY <1>2 DEF Fresh
  <2>2. record' \in [count : 0..MaxPerClient, left : (-1)..Window]
    BY <1>2, RateConstants
  <2>3. ASSUME NEW k \in Recent
        PROVE  /\ passed'[k] <= record'.count + MaxPerClient
               /\ k + record'.left <= Window => passed'[k] <= record'.count
    <3>1. k \in Nat /\ k <= Window
      BY RateConstants DEF Recent
    <3>2. passed[k] <= record.count /\ record.count <= MaxPerClient
            /\ passed[k] \in Nat /\ record.count \in Nat
      BY <2>1, <3>1, RateConstants DEF RecordInv
    <3>3. k + Window <= Window => k = 0
      BY <3>1, RateConstants
    <3>4. passed[0] = 0
      BY <2>1 DEF RecordInv
    <3>5. QED
      BY <1>1, <2>1, <3>2, <3>3, <3>4, RateConstants
  <2>4. QED
    BY <1>1, <2>1, <2>2, <2>3, RateConstants DEF RecordInv
<1>3. CASE WithinRecord /\ record' = [record EXCEPT !.count = @ + 1]
  <2>1. /\ record.left >= 0 /\ record.count < MaxPerClient
        /\ record'.count = record.count + 1 /\ record'.left = record.left
        /\ record' \in [count : 0..MaxPerClient, left : (-1)..Window]
    BY <1>3, RateConstants DEF WithinRecord, Fresh, RecordInv
  <2>2. ASSUME NEW k \in Recent
        PROVE  /\ passed'[k] <= record'.count + MaxPerClient
               /\ k + record'.left <= Window => passed'[k] <= record'.count
    BY <1>1, <2>1, RateConstants DEF RecordInv
  <2>3. QED
    BY <1>1, <2>1, <2>2 DEF RecordInv
<1>4. QED
  BY <1>2, <1>3 DEF Arrive

LEMMA PassKeepsRecord ==
  ASSUME RecordInv, Pass
  PROVE  RecordInv'
<1>1. passed' = Shifted(passed) /\ record' = [record EXCEPT !.left = IF @ < 0 THEN @ ELSE @ - 1]
  BY DEF Pass
<1>2. /\ passed' \in [Recent -> Nat] /\ passed'[0] = 0
      /\ \A k \in Recent \ {0} : k - 1 \in Recent /\ passed'[k] = passed[k - 1]
  BY <1>1, ShiftedAt DEF RecordInv
<1>3. /\ record' \in [count : 0..MaxPerClient, left : (-1)..Window]
      /\ record'.count = record.count
      /\ record'.left >= record.left - 1
      /\ record.count \in 0..MaxPerClient /\ record.left \in (-1)..Window
  BY <1>1, RateConstants DEF RecordInv
<1>4. ASSUME NEW k \in Recent
      PROVE  /\ passed'[k] <= record'.count + MaxPerClient
             /\ k + record'.left <= Window => passed'[k] <= record'.count
  <2>1. CASE k = 0
    BY <1>2, <1>3, <2>1, RateConstants
  <2>2. CASE k # 0
    <3>1. /\ k - 1 \in Recent /\ passed'[k] = passed[k - 1] /\ k \in Nat
          /\ passed[k - 1] <= record.count + MaxPerClient
          /\ (k - 1) + record.left <= Window => passed[k - 1] <= record.count
      BY <1>2, <2>2 DEF RecordInv, Recent
    <3>2. k + record'.left <= Window => (k - 1) + record.left <= Window
      BY <1>3, <3>1, RateConstants
    <3>3. QED
      BY <1>3, <3>1, <3>2
  <2>3. QED
    BY <2>1, <2>2
<1>5. QED
  BY <1>2, <1>3, <1>4 DEF RecordInv

-----------------------------------------------------------------------------
(* The bucket. *)

\* What flowed in while the bucket aged fills it at least that far, or to the brim.
LEMMA RefilledBounds ==
  ASSUME BucketInv
  PROVE  /\ Refilled \in 0..TokenRate
         /\ \A k \in Recent : spent[k] + Refilled <= TokenRate + k * Refill
         /\ \A k \in Recent : k * Refill \in Nat
<1>1. /\ bucket.tokens \in 0..TokenRate /\ bucket.age \in 0..TokenRate
      /\ TokenRate \in Nat /\ Refill \in Nat
  BY RateConstants DEF BucketInv
<1>2. bucket.age * Refill \in Nat
  BY <1>1
<1>3. Refilled \in 0..TokenRate /\ Refilled <= bucket.tokens + bucket.age * Refill
  BY <1>1, <1>2 DEF Refilled
<1>4. ASSUME NEW k \in Recent
      PROVE  k * Refill \in Nat /\ spent[k] + Refilled <= TokenRate + k * Refill
  <2>1. k \in Nat /\ k * Refill \in Nat /\ spent[k] \in Nat
    BY <1>1 DEF Recent, BucketInv
  <2>2. CASE k < bucket.age
    <3>1. spent[k] = 0
      BY <2>2 DEF BucketInv
    <3>2. QED
      BY <1>1, <1>3, <2>1, <3>1
  <2>3. CASE ~(k < bucket.age)
    <3>1. spent[k] + bucket.tokens <= TokenRate + (k - bucket.age) * Refill
      BY <2>3 DEF BucketInv
    <3>2. (k - bucket.age) * Refill + bucket.age * Refill = k * Refill
             /\ (k - bucket.age) * Refill \in Int
      BY <1>1, <2>1
    <3>3. QED
      BY <1>1, <1>2, <1>3, <2>1, <3>1, <3>2
  <2>4. QED
    BY <2>2, <2>3, <2>1
<1>5. QED
  BY <1>3, <1>4

LEMMA ConsumeKeepsBucket ==
  ASSUME BucketInv, NEW n \in 1..MaxCharge, Consume(n)
  PROVE  BucketInv'
<1>1. /\ Refilled \in 0..TokenRate /\ n \in Nat /\ TokenRate \in Nat
      /\ \A k \in Recent : k \in Nat /\ k * Refill \in Nat /\ (k - 0) * Refill = k * Refill
      /\ \A k \in Recent : spent[k] + Refilled <= TokenRate + k * Refill
  BY RefilledBounds, RateConstants DEF Recent
<1>2. spent \in [Recent -> Nat]
  BY DEF BucketInv
<1>3. CASE /\ Refilled < n /\ bucket' = [tokens |-> Refilled, age |-> 0] /\ spent' = spent
  <2>1. \A k \in Recent : spent'[k] + bucket'.tokens <= TokenRate + (k - 0) * Refill
    BY <1>1, <1>3
  <2>2. QED
    BY <1>1, <1>2, <1>3, <2>1 DEF BucketInv
<1>4. CASE /\ ~(Refilled < n) /\ bucket' = [tokens |-> Refilled - n, age |-> 0]
           /\ spent' = Add(spent, n)
  <2>1. spent' \in [Recent -> Nat] /\ \A k \in Recent : spent'[k] = spent[k] + n
    BY <1>1, <1>2, <1>4, AddAt
  <2>2. ASSUME NEW k \in Recent
        PROVE  spent'[k] + bucket'.tokens <= TokenRate + (k - 0) * Refill
    <3>1. spent[k] \in Nat
      BY <1>2
    <3>2. spent'[k] + bucket'.tokens = spent[k] + Refilled
      BY <1>1, <1>4, <2>1, <3>1
    <3>3. QED
      BY <1>1, <3>2
  <2>3. Refilled - n \in 0..TokenRate
    BY <1>1, <1>4
  <2>4. QED
    BY <1>1, <1>4, <2>1, <2>2, <2>3 DEF BucketInv
<1>5. QED
  BY <1>3, <1>4 DEF Consume

LEMMA PassKeepsBucket ==
  ASSUME BucketInv, Pass
  PROVE  BucketInv'
<1>1. spent' = Shifted(spent) /\ bucket' = [bucket EXCEPT !.age = Older(@, TokenRate)]
  BY DEF Pass
<1>2. /\ spent' \in [Recent -> Nat] /\ spent'[0] = 0
      /\ \A k \in Recent \ {0} : k - 1 \in Recent /\ spent'[k] = spent[k - 1]
  BY <1>1, ShiftedAt DEF BucketInv
<1>3. /\ bucket' \in [tokens : 0..TokenRate, age : 0..TokenRate]
      /\ bucket'.tokens = bucket.tokens
      /\ bucket'.age = Older(bucket.age, TokenRate)
      /\ bucket.tokens \in 0..TokenRate /\ bucket.age \in 0..TokenRate
      /\ TokenRate \in Nat /\ Refill \in Nat \ {0}
  BY <1>1, RateConstants DEF BucketInv, Older
<1>4. ASSUME NEW k \in Recent
      PROVE  IF k < bucket'.age THEN spent'[k] = 0
             ELSE spent'[k] + bucket'.tokens <= TokenRate + (k - bucket'.age) * Refill
  <2>1. k \in Nat
    BY DEF Recent
  <2>2. CASE k = 0
    <3>1. CASE 0 < bucket'.age
      BY <1>2, <2>2, <3>1
    <3>2. CASE bucket'.age = 0
      <4>1. (0 - 0) * Refill = 0
        BY <1>3
      <4>2. QED
        BY <1>2, <1>3, <2>2, <3>2, <4>1
    <3>3. QED
      BY <1>3, <3>1, <3>2
  <2>3. CASE k # 0
    <3>1. k - 1 \in Recent /\ spent'[k] = spent[k - 1] /\ spent[k - 1] \in Nat
      BY <1>2, <2>3 DEF BucketInv
    <3>2. IF k - 1 < bucket.age THEN spent[k - 1] = 0
          ELSE spent[k - 1] + bucket.tokens <= TokenRate + ((k - 1) - bucket.age) * Refill
      BY <3>1 DEF BucketInv
    <3>3. CASE bucket'.age = bucket.age + 1
      <4>1. (k - 1) - bucket.age = k - bucket'.age
        BY <1>3, <2>1, <3>3
      <4>2. k < bucket'.age <=> k - 1 < bucket.age
        BY <1>3, <2>1, <3>3
      <4>3. QED
        BY <1>3, <3>1, <3>2, <4>1, <4>2
    <3>4. CASE bucket.age = TokenRate /\ bucket'.age = TokenRate
      <4>1. CASE k < TokenRate
        BY <1>3, <2>1, <3>1, <3>2, <3>4, <4>1
      <4>2. CASE k = TokenRate
        <5>1. (k - bucket'.age) * Refill = 0
          BY <1>3, <3>4, <4>2
        <5>2. spent[k - 1] = 0
          BY <1>3, <2>1, <3>2, <3>4, <4>2
        <5>3. spent'[k] = 0 /\ bucket'.tokens <= TokenRate /\ bucket'.tokens \in Nat
          BY <1>3, <3>1, <5>2
        <5>4. ~(k < bucket'.age)
          BY <1>3, <3>4, <4>2
        <5>5. spent'[k] + bucket'.tokens <= TokenRate + (k - bucket'.age) * Refill
          BY <1>3, <5>1, <5>3
        <5>6. QED
          BY <5>4, <5>5
      <4>3. CASE k > TokenRate
        <5>1. spent[k - 1] + bucket.tokens <= TokenRate + ((k - 1) - TokenRate) * Refill
          BY <1>3, <2>1, <3>2, <3>4, <4>3
        <5>2. ((k - 1) - TokenRate) * Refill <= (k - TokenRate) * Refill
          <6>1. (k - TokenRate) * Refill = ((k - 1) - TokenRate) * Refill + Refill
                  /\ ((k - 1) - TokenRate) * Refill \in Int
            BY <1>3, <2>1
          <6>2. QED
            BY <1>3, <6>1
        <5>3. (k - TokenRate) * Refill \in Int /\ ((k - 1) - TokenRate) * Refill \in Int
          BY <1>3, <2>1
        <5>4. QED
          BY <1>3, <2>1, <3>1, <3>4, <4>3, <5>1, <5>2, <5>3
      <4>4. QED
        BY <1>3, <2>1, <4>1, <4>2, <4>3
    <3>5. QED
      BY <1>3, <3>3, <3>4 DEF Older
  <2>4. QED
    BY <2>2, <2>3
<1>5. QED
  BY <1>2, <1>3, <1>4 DEF BucketInv

-----------------------------------------------------------------------------
(* The sliding window. *)

LEMMA LeastNatural ==
  ASSUME NEW S \in SUBSET Nat, S # {}
  PROVE  \E n \in S : \A k \in S : n <= k
<1> DEFINE R == OpToRel(<, Nat)
<1>1. IsWellFoundedOn(R, Nat)
  BY NatLessThanWellFounded
<1>2. \A k, n \in Nat : k < n => <<k, n>> \in R
  BY DEF OpToRel
<1> HIDE DEF R
<1>3. PICK n \in S : \A k \in S : ~(<<k, n>> \in R)
  BY <1>1, WFMin
<1>4. \A k \in S : ~(k < n)
  BY <1>2, <1>3
<1> QED
  BY <1>4

\* There is an oldest timestamp, and what is younger than it is not all.
LEMMA OldestIs ==
  ASSUME NEW s \in [0..Window -> Nat]
  PROVE  /\ Oldest(s) \in 0..Window
         /\ \A b \in 0..(Oldest(s) - 1) : s[b] # s[Window]
<1> DEFINE S == {a \in 0..Window : s[a] = s[Window]}
<1>1. Window \in S /\ S \in SUBSET Nat
  BY RateConstants
<1>2. PICK n \in S : \A k \in S : n <= k
  BY <1>1, LeastNatural
<1>3. n \in 0..Window /\ s[n] = s[Window] /\ \A b \in 0..(n - 1) : s[b] # s[Window]
  <2>1. ASSUME NEW b \in 0..(n - 1) PROVE s[b] # s[Window]
    <3>1. b \in 0..Window /\ ~(n <= b)
      BY <1>1, <1>2, RateConstants
    <3>2. QED
      BY <1>2, <3>1
  <2>2. QED
    BY <1>2, <2>1
<1>4. QED
  BY <1>3 DEF Oldest

\* What the window still holds.
LEMMA LiveBounds ==
  ASSUME WindowInv
  PROVE  /\ Live(stamps) \in [0..Window -> Nat]
         /\ \A a \in Recent : Live(stamps)[a] = stamps[a]
         /\ Live(stamps)[Window] = stamps[Window - 1]
         /\ \A a, b \in 0..Window : a <= b => Live(stamps)[a] <= Live(stamps)[b]
<1>1. \A a \in Recent : a \in 0..Window /\ a < Window
  BY RateConstants DEF Recent
<1>2. stamps \in [0..Window -> Nat] /\ Window - 1 \in 0..Window /\ Window \in 0..Window
  BY RateConstants DEF WindowInv
<1>3. /\ Live(stamps) \in [0..Window -> Nat]
      /\ \A a \in 0..Window : Live(stamps)[a] = IF a < Window THEN stamps[a] ELSE stamps[Window - 1]
  BY <1>2 DEF Live
<1>4. ASSUME NEW a \in 0..Window, NEW b \in 0..Window, a <= b
      PROVE  Live(stamps)[a] <= Live(stamps)[b]
  <2> DEFINE p == IF a < Window THEN a ELSE Window - 1
             q == IF b < Window THEN b ELSE Window - 1
  <2>1. p \in 0..Window /\ q \in 0..Window /\ p <= q
    BY <1>2, <1>4, RateConstants
  <2>2. stamps[p] <= stamps[q]
    BY <2>1 DEF WindowInv
  <2>3. Live(stamps)[a] = stamps[p] /\ Live(stamps)[b] = stamps[q]
    BY <1>3
  <2>4. QED
    BY <2>2, <2>3
<1>5. QED
  BY <1>1, <1>2, <1>3, <1>4, RateConstants

LEMMA AdmitKeepsWindow ==
  ASSUME WindowInv, NEW c \in Caller, Live(stamps)[Window] < MaxAllowed,
         stamps' = [a \in 0..Window |-> Live(stamps)[a] + 1],
         entered' = Add(entered, 1), told' = Noted
  PROVE  WindowInv'
<1>1. /\ Live(stamps) \in [0..Window -> Nat]
      /\ \A a \in Recent : Live(stamps)[a] = stamps[a]
      /\ Live(stamps)[Window] = stamps[Window - 1]
      /\ \A a, b \in 0..Window : a <= b => Live(stamps)[a] <= Live(stamps)[b]
  BY LiveBounds
<1>2. /\ stamps' \in [0..Window -> Nat]
      /\ \A a \in 0..Window : stamps'[a] = Live(stamps)[a] + 1 /\ Live(stamps)[a] \in Nat
  BY <1>1
<1>3. \A a, b \in 0..Window : a <= b => stamps'[a] <= stamps'[b]
  BY <1>1, <1>2
<1>4. \A a \in Recent : a \in 0..Window /\ stamps'[a] = stamps[a] + 1 /\ stamps'[a] <= MaxAllowed
  <2>1. ASSUME NEW a \in Recent
        PROVE  a \in 0..Window /\ stamps'[a] = stamps[a] + 1 /\ stamps'[a] <= MaxAllowed
    <3>1. a \in 0..Window /\ a <= Window /\ Window \in 0..Window
      BY RateConstants DEF Recent
    <3>2. Live(stamps)[a] <= Live(stamps)[Window] /\ Live(stamps)[a] = stamps[a]
             /\ Live(stamps)[a] \in Nat /\ Live(stamps)[Window] \in Nat
      BY <1>1, <3>1
    <3>3. QED
      BY <1>2, <3>1, <3>2, RateConstants
  <2>2. QED
    BY <2>1
<1>5. entered' = [a \in Recent |-> stamps'[a]]
  BY <1>4 DEF WindowInv, Add
<1>6. ASSUME NEW d \in Caller, told'[d] # NotTold
      PROVE  /\ told'[d] \in [left : 0..Window, since : 0..MaxAllowed]
             /\ Upto(stamps', Window - told'[d].left - 1) - told'[d].since < MaxAllowed
  <2>1. /\ told[d] # NotTold
        /\ told'[d] = [told[d] EXCEPT !.since = IF @ = MaxAllowed THEN @ ELSE @ + 1]
    BY <1>6 DEF Noted
  <2>2. /\ told[d] \in [left : 0..Window, since : 0..MaxAllowed]
        /\ Upto(stamps, Window - told[d].left - 1) - told[d].since < MaxAllowed
    BY <2>1 DEF WindowInv
  <2>3. /\ told'[d] \in [left : 0..Window, since : 0..MaxAllowed]
        /\ told'[d].left = told[d].left
        /\ told'[d].since = IF told[d].since = MaxAllowed THEN MaxAllowed ELSE told[d].since + 1
    <3>1. told[d].since \in 0..MaxAllowed /\ MaxAllowed \in Nat
      BY <2>2, RateConstants
    <3>2. CASE told[d].since = MaxAllowed
      BY <2>1, <2>2, <3>1, <3>2
    <3>3. CASE told[d].since # MaxAllowed
      <4>1. told[d].since + 1 \in 0..MaxAllowed
        BY <3>1, <3>3
      <4>2. told'[d] = [told[d] EXCEPT !.since = told[d].since + 1]
        BY <2>1, <3>3
      <4>3. QED
        BY <2>2, <3>3, <4>1, <4>2
    <3>4. QED
      BY <3>2, <3>3
  <2> DEFINE k == Window - told[d].left - 1
  <2>4. k \in Int /\ k <= Window - 1 /\ told[d].since \in 0..MaxAllowed
    BY <2>2, RateConstants
  <2>5. CASE k < 0
    <3>1. Upto(stamps, k) = 0 /\ Upto(stamps', k) = 0
      BY <2>5 DEF Upto
    <3>2. QED
      BY <2>2, <2>3, <2>4, <3>1, RateConstants
  <2>6. CASE k >= 0
    <3>1. k \in Recent
      BY <2>4, <2>6 DEF Recent
    <3>2. Upto(stamps, k) = stamps[k] /\ Upto(stamps', k) = stamps'[k]
      BY <2>6, <2>4 DEF Upto
    <3>3. stamps'[k] = stamps[k] + 1 /\ stamps'[k] <= MaxAllowed /\ stamps[k] \in Nat
      BY <1>4, <3>1 DEF WindowInv
    <3>4. stamps[k] - told[d].since < MaxAllowed
      BY <2>2, <3>2
    <3>5. stamps'[k] - told'[d].since < MaxAllowed
      BY <2>3, <2>4, <3>3, <3>4, RateConstants
    <3>6. QED
      BY <2>3, <3>2, <3>5
  <2>7. QED
    BY <2>4, <2>5, <2>6
<1>7. stamps'[Window - 1] <= MaxAllowed
  BY <1>4, RateConstants
<1>8. QED
  BY <1>2, <1>3, <1>5, <1>6, <1>7 DEF WindowInv, Noted

LEMMA RefuseKeepsWindow ==
  ASSUME WindowInv, NEW c \in Caller,
         stamps' = Live(stamps), UNCHANGED entered,
         told' = [told EXCEPT ![c] = [left |-> ResetAfter(Live(stamps)), since |-> 0]]
  PROVE  WindowInv'
<1>1. /\ stamps' \in [0..Window -> Nat]
      /\ \A a \in Recent : stamps'[a] = stamps[a]
      /\ stamps'[Window] = stamps[Window - 1]
      /\ \A a, b \in 0..Window : a <= b => stamps'[a] <= stamps'[b]
  BY LiveBounds
<1>2. /\ Oldest(stamps') \in 0..Window
      /\ \A b \in 0..(Oldest(stamps') - 1) : stamps'[b] # stamps'[Window]
  BY <1>1, OldestIs
<1>3. stamps'[Window - 1] <= MaxAllowed /\ stamps'[Window] <= MaxAllowed
  BY <1>1, RateConstants DEF WindowInv
<1>4. entered' = [a \in Recent |-> stamps'[a]]
  BY <1>1 DEF WindowInv
<1>5. ASSUME NEW d \in Caller, told'[d] # NotTold
      PROVE  /\ told'[d] \in [left : 0..Window, since : 0..MaxAllowed]
             /\ Upto(stamps', Window - told'[d].left - 1) - told'[d].since < MaxAllowed
  <2>1. CASE told'[d] = [left |-> Window - Oldest(stamps'), since |-> 0]
    <3> DEFINE k == Oldest(stamps') - 1
    <3>1. told'[d].left = Window - Oldest(stamps') /\ told'[d].since = 0
      BY <2>1
    <3>2. Window - told'[d].left - 1 = k /\ k \in Int /\ k < Window
      BY <1>2, <3>1, RateConstants
    <3>3. told'[d] \in [left : 0..Window, since : 0..MaxAllowed]
      BY <1>2, <2>1, RateConstants
    <3>4. CASE k < 0
      BY <3>1, <3>2, <3>3, <3>4, RateConstants DEF Upto
    <3>5. CASE k >= 0
      <4>1. k \in 0..Window /\ Window \in 0..Window /\ k <= Window
        BY <3>2, <3>5, RateConstants
      <4>2. stamps'[k] <= stamps'[Window] /\ stamps'[k] # stamps'[Window]
        BY <1>1, <1>2, <3>2, <3>5, <4>1
      <4>3. stamps'[k] \in Nat /\ stamps'[Window] \in Nat
        BY <1>1, <4>1
      <4>4. Upto(stamps', k) = stamps'[k]
        BY <3>2, <3>5 DEF Upto
      <4>5. Upto(stamps', k) - 0 < MaxAllowed
        BY <1>3, <4>2, <4>3, <4>4, RateConstants
      <4>6. QED
        BY <3>1, <3>2, <3>3, <4>5
    <3>6. QED
      BY <3>2, <3>4, <3>5
  <2>2. CASE told'[d] = told[d]
    <3>1. /\ told[d] \in [left : 0..Window, since : 0..MaxAllowed]
          /\ Upto(stamps, Window - told[d].left - 1) - told[d].since < MaxAllowed
      BY <1>5, <2>2 DEF WindowInv
    <3>2. Upto(stamps', Window - told[d].left - 1) = Upto(stamps, Window - told[d].left - 1)
      <4> DEFINE k == Window - told[d].left - 1
      <4>1. k \in Int /\ k < Window
        BY <3>1, RateConstants
      <4>2. CASE k < 0
        BY <4>2 DEF Upto
      <4>3. CASE k >= 0
        <5>1. k \in Recent
          BY <4>1, <4>3, RateConstants DEF Recent
        <5>2. stamps'[k] = stamps[k]
          BY <1>1, <5>1
        <5>3. QED
          BY <4>1, <4>3, <5>2 DEF Upto
      <4>4. QED
        BY <4>1, <4>2, <4>3
    <3>3. QED
      BY <2>2, <3>1, <3>2
  <2>3. told'[d] = told[d] \/ told'[d] = [left |-> Window - Oldest(stamps'), since |-> 0]
    BY <1>5 DEF ResetAfter
  <2>4. QED
    BY <2>1, <2>2, <2>3
<1>6. QED
  BY <1>1, <1>3, <1>4, <1>5 DEF WindowInv

LEMMA PassKeepsWindow ==
  ASSUME WindowInv, Pass
  PROVE  WindowInv'
<1>1. /\ stamps' = [a \in 0..Window |-> IF a = Window THEN stamps[a] ELSE Upto(stamps, a - 1)]
      /\ entered' = Shifted(entered)
      /\ told' = [c \in Caller |-> IF told[c] = NotTold \/ told[c].left <= 0 THEN NotTold
                                   ELSE [told[c] EXCEPT !.left = @ - 1]]
  BY DEF Pass
<1>2. stamps \in [0..Window -> Nat] /\ \A a, b \in 0..Window : a <= b => stamps[a] <= stamps[b]
  BY DEF WindowInv
<1>3. \A a \in 0..Window : Upto(stamps, a - 1) \in Nat
  BY <1>2, RateConstants DEF Upto
<1>4. /\ stamps' \in [0..Window -> Nat]
      /\ stamps'[0] = 0 /\ stamps'[Window] = stamps[Window]
      /\ \A a \in 0..Window : a # 0 /\ a # Window => stamps'[a] = stamps[a - 1]
  BY <1>1, <1>2, <1>3, RateConstants DEF Upto
<1>5. ASSUME NEW a \in 0..Window, NEW b \in 0..Window, a <= b
      PROVE  stamps'[a] <= stamps'[b]
  <2>1. CASE a = 0
    BY <1>4, <2>1
  <2>2. CASE a = Window
    BY <1>4, <1>5, <2>2, RateConstants
  <2>3. CASE a # 0 /\ a # Window /\ b = Window
    <3>1. a - 1 \in 0..Window /\ a - 1 <= Window /\ Window \in 0..Window
      BY <2>3, RateConstants
    <3>2. QED
      BY <1>2, <1>4, <2>3, <3>1
  <2>4. CASE a # 0 /\ a # Window /\ b # Window
    <3>1. a - 1 \in 0..Window /\ b - 1 \in 0..Window /\ a - 1 <= b - 1 /\ b # 0
      BY <1>5, <2>4, RateConstants
    <3>2. QED
      BY <1>2, <1>4, <2>4, <3>1
  <2>5. QED
    BY <2>1, <2>2, <2>3, <2>4
<1>6. stamps'[Window - 1] <= MaxAllowed
  <2>1. Window - 1 \in 0..Window /\ Window - 1 # Window
    BY RateConstants
  <2>2. CASE Window - 1 = 0
    BY <1>4, <2>2, RateConstants
  <2>3. CASE Window - 1 # 0
    <3>1. stamps'[Window - 1] = stamps[Window - 1 - 1] /\ Window - 1 - 1 \in 0..Window
      BY <1>4, <2>1, <2>3, RateConstants
    <3>2. stamps[Window - 1 - 1] <= stamps[Window - 1]
      BY <1>2, <2>1, <3>1, RateConstants
    <3>3. stamps[Window - 1] <= MaxAllowed
      BY DEF WindowInv
    <3>4. stamps[Window - 1 - 1] \in Nat /\ stamps[Window - 1] \in Nat
      BY <1>2, <2>1, <3>1
    <3>5. QED
      BY <3>1, <3>2, <3>3, <3>4, RateConstants
  <2>4. QED
    BY <2>2, <2>3
<1>7. entered' = [a \in Recent |-> stamps'[a]]
  <2>1. entered \in [Recent -> Nat] /\ \A a \in Recent : entered[a] = stamps[a]
    BY <1>2, RateConstants DEF WindowInv
  <2>2. /\ entered' \in [Recent -> Nat] /\ entered'[0] = 0
        /\ \A k \in Recent \ {0} : k - 1 \in Recent /\ entered'[k] = entered[k - 1]
    BY <1>1, <2>1, ShiftedAt
  <2>3. \A a \in Recent : a \in 0..Window /\ a # Window
    BY RateConstants DEF Recent
  <2>4. \A a \in Recent : entered'[a] = stamps'[a]
    BY <1>4, <2>1, <2>2, <2>3
  <2>5. QED
    BY <2>2, <2>4
<1>8. ASSUME NEW d \in Caller, told'[d] # NotTold
      PROVE  /\ told'[d] \in [left : 0..Window, since : 0..MaxAllowed]
             /\ Upto(stamps', Window - told'[d].left - 1) - told'[d].since < MaxAllowed
  <2>1. told[d] # NotTold /\ ~(told[d].left <= 0) /\ told'[d] = [told[d] EXCEPT !.left = @ - 1]
    BY <1>1, <1>8
  <2>2. /\ told[d] \in [left : 0..Window, since : 0..MaxAllowed]
        /\ Upto(stamps, Window - told[d].left - 1) - told[d].since < MaxAllowed
    BY <2>1 DEF WindowInv
  <2>3. /\ told'[d] \in [left : 0..Window, since : 0..MaxAllowed]
        /\ told'[d].left = told[d].left - 1 /\ told'[d].since = told[d].since
        /\ told[d].left \in 1..Window
    BY <2>1, <2>2, RateConstants
  <2> DEFINE k == Window - told[d].left
  <2>4. k \in 0..Window /\ k < Window /\ Window - told'[d].left - 1 = k
           /\ Window - told[d].left - 1 = k - 1
    BY <2>3, RateConstants
  <2>5. Upto(stamps', k) = Upto(stamps, k - 1)
    BY <1>1, <2>4 DEF Upto
  <2>6. QED
    BY <2>2, <2>3, <2>4, <2>5
<1>9. told' = [c \in Caller |-> told'[c]]
  BY <1>1
<1>10. QED
  BY <1>4, <1>5, <1>6, <1>7, <1>8, <1>9 DEF WindowInv

\* What does not concern the sliding window.
LEMMA BesideWindow ==
  ASSUME WindowInv, UNCHANGED <<stamps, entered, told>>
  PROVE  WindowInv'
  BY DEF WindowInv

-----------------------------------------------------------------------------
(* Theorems *)

LEMMA RateInvInit == AdmissionInit => RateInv
<1>1. SUFFICES ASSUME AdmissionInit PROVE RateInv
  OBVIOUS
<1>2. RecordInv
  BY <1>1, RateConstants DEF AdmissionInit, RecordInv, Never
<1>3. WindowInv
  <2>1. /\ stamps = [a \in 0..Window |-> 0] /\ entered = Never
        /\ told = [c \in Caller |-> NotTold]
    BY <1>1 DEF AdmissionInit
  <2>2. stamps[Window - 1] <= MaxAllowed
    BY <2>1, RateConstants
  <2>3. entered = [a \in Recent |-> stamps[a]]
    BY <2>1, RateConstants DEF Never
  <2>4. QED
    BY <2>1, <2>2, <2>3, RateConstants DEF WindowInv
<1>4. BucketInv
  <2>1. bucket = [tokens |-> TokenRate, age |-> 0] /\ spent = Never
    BY <1>1 DEF AdmissionInit
  <2>2. bucket \in [tokens : 0..TokenRate, age : 0..TokenRate] /\ spent \in [Recent -> Nat]
    BY <2>1, RateConstants DEF Never
  <2>3. ASSUME NEW k \in Recent
        PROVE  IF k < bucket.age THEN spent[k] = 0
               ELSE spent[k] + bucket.tokens <= TokenRate + (k - bucket.age) * Refill
    <3>1. k \in Nat /\ (k - 0) * Refill \in Nat
      BY RateConstants DEF Recent
    <3>2. QED
      BY <2>1, <3>1, RateConstants DEF Never
  <2>4. QED
    BY <2>2, <2>3 DEF BucketInv
<1>5. QED
  BY <1>2, <1>3, <1>4 DEF RateInv

LEMMA RateInvStep == RateInv /\ [AdmissionNext]_admissionVars => RateInv'
<1>1. SUFFICES ASSUME RateInv, [AdmissionNext]_admissionVars PROVE RateInv'
  OBVIOUS
<1>2. CASE Pass
  BY <1>1, <1>2, PassKeepsRecord, PassKeepsWindow, PassKeepsBucket DEF RateInv
<1>3. ASSUME Arrive
      PROVE  RateInv'
  <2>1. RecordInv'
    BY <1>1, <1>3, ArriveKeepsRecord DEF RateInv
  <2>2. WindowInv'
    BY <1>1, <1>3, BesideWindow DEF RateInv, Arrive
  <2>3. BucketInv'
    BY <1>1, <1>3 DEF RateInv, BucketInv, Arrive
  <2>4. QED
    BY <2>1, <2>2, <2>3 DEF RateInv
<1>4. ASSUME NEW c \in Caller, CheckLimit(c)
      PROVE  RateInv'
  <2>1. RecordInv' /\ BucketInv'
    BY <1>1, <1>4 DEF RateInv, RecordInv, BucketInv, CheckLimit
  <2>2. WindowInv'
    BY <1>1, <1>4, AdmitKeepsWindow, RefuseKeepsWindow DEF RateInv, CheckLimit
  <2>3. QED
    BY <2>1, <2>2 DEF RateInv
<1>5. ASSUME NEW n \in 1..MaxCharge, Consume(n)
      PROVE  RateInv'
  <2>1. BucketInv'
    BY <1>1, <1>5, ConsumeKeepsBucket DEF RateInv
  <2>2. RecordInv' /\ WindowInv'
    BY <1>1, <1>5, BesideWindow DEF RateInv, RecordInv, Consume
  <2>3. QED
    BY <2>1, <2>2 DEF RateInv
<1>6. CASE UNCHANGED admissionVars
  BY <1>1, <1>6, BesideWindow DEF admissionVars, RateInv, RecordInv, BucketInv
<1>7. QED
  BY <1>1, <1>2, <1>3, <1>4, <1>5, <1>6 DEF AdmissionNext

LEMMA RatesAlways == AdmissionSpec => []RateInv
  BY RateInvInit, RateInvStep, PTL DEF AdmissionSpec

\* Whenever the requests come, no stretch of the window lets through more than
\* the sliding window's maximum, two records of the middleware, or what the
\* bucket held and what flowed in.
THEOREM RatesHold == AdmissionSpec => []RatesBounded
<1>1. RateInv => RatesBounded
  <2>1. SUFFICES ASSUME RateInv PROVE RatesBounded
    OBVIOUS
  <2>2. entered[Window - 1] <= MaxAllowed
    BY <2>1, RateConstants DEF RateInv, WindowInv
  <2>3. passed[Window - 1] <= 2 * MaxPerClient
    BY <2>1, RateConstants DEF RateInv, RecordInv
  <2>4. ASSUME NEW k \in Recent PROVE spent[k] <= TokenRate + k * Refill
    <3>1. /\ spent[k] + Refilled <= TokenRate + k * Refill
          /\ Refilled \in Nat /\ spent[k] \in Nat /\ k * Refill \in Nat /\ TokenRate \in Nat
      BY <2>1, RefilledBounds, RateConstants DEF RateInv, BucketInv
    <3>2. QED
      BY <3>1
  <2>5. QED
    BY <2>2, <2>3, <2>4 DEF RatesBounded
<1>2. QED
  BY <1>1, RatesAlways, PTL

\* Who waits as long as a refusal says finds room, unless others took it.
THEOREM WaitsSuffice == AdmissionSpec => []WaitSuffices
<1>1. RateInv => WaitSuffices
  <2>1. SUFFICES ASSUME RateInv, NEW c \in Caller, told[c] # NotTold, told[c].left = 0
        PROVE  Live(stamps)[Window] - told[c].since < MaxAllowed
    BY DEF WaitSuffices
  <2>2. Live(stamps)[Window] = stamps[Window - 1]
    BY <2>1, LiveBounds DEF RateInv
  <2>3. Upto(stamps, Window - 0 - 1) - told[c].since < MaxAllowed
    BY <2>1 DEF RateInv, WindowInv
  <2>4. Upto(stamps, Window - 0 - 1) = stamps[Window - 1]
    BY RateConstants DEF Upto
  <2>5. QED
    BY <2>2, <2>3, <2>4
<1>2. QED
  BY <1>1, RatesAlways, PTL

-----------------------------------------------------------------------------
(* The breaker: its counters against the outcomes reported in a row. *)

StreakOf == [good : 0..ProbeThreshold, bad : 0..FailureThreshold]

\* While it is closed, the failures it counts were reported in a row; while it is
\* half-open, the successes were.
Counts(b, s) ==
  /\ b \in Breaker
  /\ s \in StreakOf
  /\ b.state = "CLOSED" => b.failures < FailureThreshold /\ b.failures <= s.bad
  /\ b.state = "HALF_OPEN" => b.successes < ProbeThreshold /\ b.successes <= s.good

LEMMA LookedCounts ==
  ASSUME NEW b, NEW s, Counts(b, s)
  PROVE  /\ Counts(Looked(b), s)
         /\ Looked(b).state = "CLOSED" <=> b.state = "CLOSED"
         /\ b.state # "OPEN" => Looked(b) = b
<1>1. CASE b.state = "OPEN" /\ b.rested
  <2>1. Looked(b) = To(b, "HALF_OPEN")
    BY <1>1 DEF Looked
  <2>2. /\ To(b, "HALF_OPEN") \in Breaker
        /\ To(b, "HALF_OPEN").state = "HALF_OPEN" /\ To(b, "HALF_OPEN").successes = 0
    BY ThresholdAssumption DEF Counts, To, Breaker
  <2>3. QED
    BY <1>1, <2>1, <2>2, ThresholdAssumption DEF Counts, StreakOf
<1>2. CASE ~(b.state = "OPEN" /\ b.rested)
  BY <1>2 DEF Looked
<1>3. QED
  BY <1>1, <1>2

LEMMA SucceededCounts ==
  ASSUME NEW b, NEW s, Counts(b, s)
  PROVE  /\ Counts(Succeeded(b), [good |-> Counted(s.good, ProbeThreshold), bad |-> 0])
         /\ b.state = "CLOSED" => Succeeded(b).state = "CLOSED"
         /\ b.state # "CLOSED" /\ Succeeded(b).state = "CLOSED"
              => Counted(s.good, ProbeThreshold) = ProbeThreshold
<1> DEFINE l == Looked(b)
           t == [good |-> Counted(s.good, ProbeThreshold), bad |-> 0]
<1>1. /\ Counts(l, s)
      /\ l.state = "CLOSED" <=> b.state = "CLOSED"
  BY LookedCounts
<1>2. Succeeded(b) = IF l.state = "CLOSED" THEN [l EXCEPT !.failures = 0]
                     ELSE IF l.state = "OPEN" THEN l
                     ELSE IF l.successes + 1 >= ProbeThreshold THEN To(l, "CLOSED")
                     ELSE [l EXCEPT !.successes = @ + 1]
  BY DEF Succeeded
<1> HIDE DEF l
<1> SUFFICES /\ Counts(Succeeded(b), t)
             /\ b.state = "CLOSED" => Succeeded(b).state = "CLOSED"
             /\ b.state # "CLOSED" /\ Succeeded(b).state = "CLOSED" => t.good = ProbeThreshold
  OBVIOUS
<1>3. /\ t \in StreakOf /\ t.bad = 0
      /\ t.good = IF s.good < ProbeThreshold THEN s.good + 1 ELSE s.good
  BY <1>1, ThresholdAssumption DEF Counts, Counted, StreakOf
<1> HIDE DEF t
<1>4. CASE l.state = "CLOSED"
  BY <1>1, <1>2, <1>3, <1>4, ThresholdAssumption DEF Counts, Breaker
<1>5. CASE l.state = "OPEN"
  BY <1>1, <1>2, <1>3, <1>5, ThresholdAssumption DEF Counts, Breaker
<1>6. CASE l.state = "HALF_OPEN" /\ l.successes + 1 >= ProbeThreshold
  BY <1>1, <1>2, <1>3, <1>6, ThresholdAssumption DEF Counts, Breaker, To, StreakOf
<1>7. CASE l.state = "HALF_OPEN" /\ ~(l.successes + 1 >= ProbeThreshold)
  BY <1>1, <1>2, <1>3, <1>7, ThresholdAssumption DEF Counts, Breaker, StreakOf
<1>8. QED
  BY <1>1, <1>4, <1>5, <1>6, <1>7 DEF Counts, Breaker

LEMMA FailedCounts ==
  ASSUME NEW b, NEW s, Counts(b, s)
  PROVE  /\ Counts(Failed(b), [good |-> 0, bad |-> Counted(s.bad, FailureThreshold)])
         /\ b.state # "CLOSED" => Failed(b).state # "CLOSED"
         /\ b.state = "CLOSED" /\ Failed(b).state = "OPEN"
              => Counted(s.bad, FailureThreshold) = FailureThreshold
<1> DEFINE l == Looked(b)
           f == [l EXCEPT !.failures = @ + 1]
           t == [good |-> 0, bad |-> Counted(s.bad, FailureThreshold)]
<1>1. /\ Counts(l, s)
      /\ l.state = "CLOSED" <=> b.state = "CLOSED"
  BY LookedCounts
<1>2. Failed(b) = IF l.state = "HALF_OPEN" THEN To(l, "OPEN")
                  ELSE IF l.state = "OPEN" THEN l
                  ELSE IF f.failures >= FailureThreshold THEN To(f, "OPEN") ELSE f
  BY DEF Failed
<1> HIDE DEF l
<1> SUFFICES /\ Counts(Failed(b), t)
             /\ b.state # "CLOSED" => Failed(b).state # "CLOSED"
             /\ b.state = "CLOSED" /\ Failed(b).state = "OPEN" => t.bad = FailureThreshold
  OBVIOUS
<1>3. /\ t \in StreakOf /\ t.good = 0
      /\ t.bad = IF s.bad < FailureThreshold THEN s.bad + 1 ELSE s.bad
  BY <1>1, ThresholdAssumption DEF Counts, Counted, StreakOf
<1> HIDE DEF t
<1>4. CASE l.state = "HALF_OPEN"
  BY <1>1, <1>2, <1>3, <1>4, ThresholdAssumption DEF Counts, Breaker, To
<1>5. CASE l.state = "OPEN"
  BY <1>1, <1>2, <1>3, <1>5, ThresholdAssumption DEF Counts, Breaker
<1>6. CASE l.state = "CLOSED" /\ f.failures >= FailureThreshold
  BY <1>1, <1>2, <1>3, <1>6, ThresholdAssumption DEF Counts, Breaker, To, StreakOf
<1>7. CASE l.state = "CLOSED" /\ ~(f.failures >= FailureThreshold)
  BY <1>1, <1>2, <1>3, <1>7, ThresholdAssumption DEF Counts, Breaker, StreakOf
<1>8. QED
  BY <1>1, <1>4, <1>5, <1>6, <1>7 DEF Counts, Breaker

BreakerInv == Counts(breaker, streak)

BreakerStep ==
  /\ breaker.state = "CLOSED" /\ breaker'.state = "OPEN" => streak'.bad = FailureThreshold
  /\ breaker.state # "CLOSED" /\ breaker'.state = "CLOSED" => streak'.good = ProbeThreshold

LEMMA BreakerInvInit == Init => BreakerInv
  BY ThresholdAssumption DEF Init, BreakerInv, Counts, NewBreaker, Breaker, StreakOf

LEMMA BreakerInvStep ==
  ASSUME BreakerInv, [Next]_vars
  PROVE  BreakerInv' /\ (BreakerStep \/ UNCHANGED vars)
<1>1. CASE UNCHANGED vars
  BY <1>1 DEF BreakerInv, vars, Counts
<1>2. CASE breaker' = Looked(breaker) /\ UNCHANGED streak
  BY <1>2, LookedCounts DEF BreakerInv, BreakerStep, Counts, Breaker
<1>3. CASE UNCHANGED <<breaker, streak>>
  BY <1>3 DEF BreakerInv, BreakerStep, Counts
<1>4. CASE Rest
  <2>1. breaker' = [breaker EXCEPT !.rested = TRUE] /\ streak' = streak /\ breaker.state = "OPEN"
    BY <1>4 DEF Rest
  <2>2. breaker' \in Breaker /\ breaker'.state = "OPEN"
    BY <2>1 DEF BreakerInv, Counts, Breaker
  <2>3. QED
    BY <2>1, <2>2 DEF BreakerInv, BreakerStep, Counts
<1>5. ASSUME NEW c \in Call, Report(c)
      PROVE  BreakerInv' /\ BreakerStep
  <2>1. CASE /\ breaker' = Succeeded(breaker)
             /\ streak' = [good |-> Counted(streak.good, ProbeThreshold), bad |-> 0]
    <3>1. /\ Counts(breaker', streak')
          /\ breaker.state = "CLOSED" => breaker'.state = "CLOSED"
          /\ breaker.state # "CLOSED" /\ breaker'.state = "CLOSED" => streak'.good = ProbeThreshold
      BY <2>1, SucceededCounts DEF BreakerInv
    <3>2. QED
      BY <3>1 DEF BreakerInv, BreakerStep, Counts
  <2>2. CASE /\ breaker' = Failed(breaker)
             /\ streak' = [good |-> 0, bad |-> Counted(streak.bad, FailureThreshold)]
    <3>1. /\ Counts(breaker', streak')
          /\ breaker.state # "CLOSED" => breaker'.state # "CLOSED"
          /\ breaker.state = "CLOSED" /\ breaker'.state = "OPEN" => streak'.bad = FailureThreshold
      BY <2>2, FailedCounts DEF BreakerInv
    <3>2. QED
      BY <3>1 DEF BreakerInv, BreakerStep, Counts
  <2>3. QED
    BY <1>5, <2>1, <2>2 DEF Report
<1>6. CASE Health
  BY <1>2, <1>6 DEF Health
<1>7. CASE Settle \/ ArriveLate
  BY <1>3, <1>7 DEF Settle, ArriveLate
<1>8. ASSUME NEW c \in Call, Start(c)
      PROVE  breaker' = Looked(breaker) /\ UNCHANGED streak
  BY <1>8 DEF Start
<1>9. ASSUME NEW c \in Call, SandboxExecute(c) \/ Send(c) \/ Serve(c) \/ TimedOut(c) \/ Verify(c)
      PROVE  UNCHANGED <<breaker, streak>>
  BY <1>9 DEF SandboxExecute, Send, Serve, TimedOut, Verify
<1>10. QED
  BY <1>1, <1>2, <1>3, <1>4, <1>5, <1>6, <1>7, <1>8, <1>9 DEF Next, Progress

\* The breaker of a provider opens only after as many failures in a row as its
\* threshold, and closes only after as many successes in a row, though outcomes
\* of calls that began in another state are counted as well.
THEOREM BreakerIsSound == Spec => BreakerCounts
<1>1. BreakerInv /\ [Next]_vars => BreakerInv'
  BY BreakerInvStep
<1>2. BreakerInv /\ [Next]_vars =>
        [/\ breaker.state = "CLOSED" /\ breaker'.state = "OPEN" => streak'.bad = FailureThreshold
         /\ breaker.state # "CLOSED" /\ breaker'.state = "CLOSED"
              => streak'.good = ProbeThreshold]_vars
  BY BreakerInvStep DEF BreakerStep
<1>3. QED
  BY <1>1, <1>2, BreakerInvInit, PTL DEF Spec, BreakerCounts

-----------------------------------------------------------------------------
(* The provider.  An operation is carried out once, because its key is in    *)
(* the fake's memory or in the gateway's; what is held or refunded says that *)
(* it was.                                                                   *)

OrderStatus == {"PENDING", "SHIPPED", "CANCELLED"}
RefundStatus == {None, "PENDING", "SUCCEEDED", "FAILED"}

ProviderInv ==
  /\ order \in OrderStatus
  /\ refund \in [Key -> RefundStatus]
  /\ held \subseteq Key /\ IsFiniteSet(held)
  /\ free \in Int /\ free + Cardinality(held) = Stock
  /\ entries \subseteq Id
  /\ done \in [Id -> {0, 1}]
  /\ \A k \in held : <<"RESERVE_STOCK", k>> \in Id /\ done[<<"RESERVE_STOCK", k>>] = 1
  /\ \A k \in Key : refund[k] # None =>
       <<"PROCESS_REFUND", k>> \in Id /\ done[<<"PROCESS_REFUND", k>>] = 1

\* What was true at the provider of an order or a refund remains so.
Stable ==
  /\ order = "CANCELLED" => order' = "CANCELLED"
  /\ \A k \in Key : refund[k] = "SUCCEEDED" => refund'[k] = "SUCCEEDED"

LEMMA CarriesOut ==
  ASSUME ProviderInv, UNCHANGED adapter, NEW i \in Id, NEW of \in Key,
         done[i] = 0, CarryOut(i, of)
  PROVE  ProviderInv' /\ Stable /\ done' = [done EXCEPT ![i] = 1]
<1>1. done' = [done EXCEPT ![i] = 1] /\ Id' = Id
  BY DEF CarryOut, Id
<1>2. PICK op \in adapter, k \in Key : i = <<op, k>>
  BY DEF Id
<1>3. i[1] = op /\ i[2] = k
  BY <1>2
<1>4. done' \in [Id -> {0, 1}] /\ done'[i] = 1 /\ \A j \in Id : done[j] = 1 => done'[j] = 1
  BY <1>1 DEF ProviderInv
<1>5. CASE op = "CANCEL_ORDER" /\ CancelOrder(i)
  BY <1>1, <1>4, <1>5 DEF CancelOrder, ProviderInv, Stable, OrderStatus
<1>6. CASE op = "PROCESS_REFUND" /\ ProcessRefund(i)
  <2>1. PICK s \in {"PENDING", "SUCCEEDED", "FAILED"} : refund' = [refund EXCEPT ![k] = s]
    BY <1>3, <1>6 DEF ProcessRefund
  <2>2. refund[k] = None
    BY <1>2, <1>6 DEF ProviderInv
  <2>3. refund' \in [Key -> RefundStatus]
    BY <2>1 DEF ProviderInv, RefundStatus
  <2>4. \A q \in Key : q # k => refund'[q] = refund[q]
    BY <2>1 DEF ProviderInv
  <2>5. \A q \in Key : refund'[q] # None =>
          <<"PROCESS_REFUND", q>> \in Id /\ done'[<<"PROCESS_REFUND", q>>] = 1
    BY <1>2, <1>4, <1>6, <2>4 DEF ProviderInv
  <2>6. \A q \in Key : refund[q] = "SUCCEEDED" => refund'[q] = "SUCCEEDED"
    BY <2>2, <2>4, NoStatusAssumption
  <2>7. UNCHANGED <<order, free, held, entries>>
    BY <1>6 DEF ProcessRefund
  <2>8. QED
    BY <1>1, <1>4, <2>3, <2>5, <2>6, <2>7 DEF ProviderInv, Stable
<1>7. CASE op = "RESERVE_STOCK" /\ ReserveStock(i)
  <2>1. /\ free' = free - 1 /\ held' = held \cup {k}
        /\ UNCHANGED <<order, refund, entries>>
    BY <1>3, <1>7 DEF ReserveStock
  <2>2. k \notin held
    BY <1>2, <1>7 DEF ProviderInv
  <2>3. IsFiniteSet(held') /\ Cardinality(held') = Cardinality(held) + 1
    BY <2>1, <2>2, FS_AddElement DEF ProviderInv
  <2>4. Cardinality(held) \in Nat
    BY FS_CardinalityType DEF ProviderInv
  <2>5. free' \in Int /\ free' + Cardinality(held') = Stock
    BY <2>1, <2>3, <2>4, IntegrationAssumption DEF ProviderInv
  <2>6. \A q \in held' : <<"RESERVE_STOCK", q>> \in Id /\ done'[<<"RESERVE_STOCK", q>>] = 1
    BY <1>2, <1>4, <1>7, <2>1 DEF ProviderInv
  <2>7. QED
    BY <1>1, <1>4, <2>1, <2>3, <2>5, <2>6 DEF ProviderInv, Stable
<1>8. CASE op = "RELEASE_STOCK" /\ ReleaseStock(i, of)
  <2>1. /\ of \in held /\ free' = free + 1 /\ held' = held \ {of}
        /\ UNCHANGED <<order, refund, entries>>
    BY <1>8 DEF ReleaseStock
  <2>2. IsFiniteSet(held') /\ Cardinality(held') = Cardinality(held) - 1
    BY <2>1, FS_RemoveElement DEF ProviderInv
  <2>3. Cardinality(held) \in Nat
    BY FS_CardinalityType DEF ProviderInv
  <2>4. free' \in Int /\ free' + Cardinality(held') = Stock
    BY <2>1, <2>2, <2>3, IntegrationAssumption DEF ProviderInv
  <2>5. QED
    BY <1>1, <1>4, <2>1, <2>2, <2>4 DEF ProviderInv, Stable
<1>9. CASE CreateLabel(i) \/ WriteTicket(i) \/ SendNotification(i)
  BY <1>1, <1>4, <1>9 DEF CreateLabel, WriteTicket, SendNotification, ProviderInv, Stable
<1>10. QED
  BY <1>3, <1>5, <1>6, <1>7, <1>8, <1>9 DEF CarryOut

LEMMA WorldRests ==
  ASSUME ProviderInv, UNCHANGED <<adapter, order, refund, free, held, entries, done>>
  PROVE  ProviderInv' /\ Stable
<1>1. Id' = Id
  BY DEF Id
<1>2. QED
  BY <1>1 DEF ProviderInv, Stable

LEMMA Settles ==
  ASSUME ProviderInv, Settle
  PROVE  ProviderInv' /\ Stable /\ done' = done
<1>1. PICK k \in Key, s \in {"SUCCEEDED", "FAILED"} :
        refund[k] = "PENDING" /\ refund' = [refund EXCEPT ![k] = s]
  BY DEF Settle
<1>2. Id' = Id /\ UNCHANGED <<order, free, held, entries, done>>
  BY DEF Settle, Id
<1>3. refund' \in [Key -> RefundStatus] /\ \A q \in Key : q # k => refund'[q] = refund[q]
  BY <1>1 DEF ProviderInv, RefundStatus
<1>4. refund[k] # None
  BY <1>1, NoStatusAssumption
<1>5. \A q \in Key : refund'[q] # None => refund[q] # None
  BY <1>3, <1>4
<1>6. QED
  BY <1>1, <1>2, <1>3, <1>5 DEF ProviderInv, Stable

-----------------------------------------------------------------------------
(* Calls, memories and records. *)

CallRecord ==
  [pc : {"execute", "wait", "report", "verify"}, op : adapter, key : Key, of : Key,
   outcome : Outcome \cup {None}, attempt : 0..(MaxRetries + 1), get : BOOLEAN,
   hops : 0..MaxRedirects]
RowRecord ==
  [status : {"PENDING", "COMPLETED", "FAILED"}, verification : {None, "PASSED", "FAILED"}]

\* What is claimed of i was carried out, or taken for carried out by a redirect.
Claimed(i) == done[i] = 1 \/ i \in rerouted

CallsOK ==
  \A c \in Call : call[c] # None =>
    /\ call[c] \in CallRecord
    /\ call[c].pc = "execute" => call[c].attempt <= MaxRetries
    /\ call[c].pc = "wait" => mode = "PRODUCTION"
    /\ call[c].pc \in {"report", "verify"} /\ call[c].outcome = "SUCCESS" => Claimed(Its(c))

\* What was carried out is remembered, and a success that is remembered was.
MemoryOK ==
  /\ memo \in [Id -> Outcome \cup {None}]
  /\ \A i \in Id : memo[i] = "SUCCESS" => done[i] = 1
  /\ \A i \in Id : mode = "SANDBOX" /\ memo[i] = None => done[i] = 0
  /\ \A i \in Id : mode = "PRODUCTION" => (i \in seen <=> done[i] = 1)
  /\ \A r \in late : r.id \in Id /\ r.sent = r.id /\ r.of \in Key
  /\ mode = "SANDBOX" => late = {}

Verified(i) ==
  /\ i[1] = "CANCEL_ORDER" => order = "CANCELLED"
  /\ i[1] = "PROCESS_REFUND" => \E k \in Key : refund[k] = "SUCCEEDED"

RowsOK ==
  /\ row \in [Id -> {None} \cup RowRecord]
  /\ \A i \in Id : row[i] # None =>
       /\ row[i].status = "COMPLETED" => Claimed(i)
       /\ row[i].verification = "PASSED" => Verified(i)

EffectInv ==
  /\ mode \in Mode
  /\ call \in [Call -> {None} \cup CallRecord]
  /\ ProviderInv /\ CallsOK /\ MemoryOK /\ RowsOK

LEMMA EffectInvInit == Init => EffectInv
<1>1. SUFFICES ASSUME Init PROVE EffectInv
  OBVIOUS
<1>2. IsFiniteSet({}) /\ Cardinality({}) = 0
  BY FS_EmptySet
<1>3. ProviderInv
  BY <1>1, <1>2, IntegrationAssumption DEF Init, ProviderInv, OrderStatus, RefundStatus
<1>4. CallsOK /\ call \in [Call -> {None} \cup CallRecord]
  BY <1>1 DEF Init, CallsOK
<1>5. MemoryOK
  BY <1>1, NoStatusAssumption DEF Init, MemoryOK, Outcome, Mode
<1>6. RowsOK
  BY <1>1 DEF Init, RowsOK
<1>7. mode \in Mode
  BY <1>1 DEF Init
<1>8. QED
  BY <1>3, <1>4, <1>5, <1>6, <1>7 DEF EffectInv

\* The call is about an operation of the provider.
LEMMA AboutOperation ==
  ASSUME EffectInv, NEW c \in Call, call[c] # None
  PROVE  /\ call[c] \in CallRecord
         /\ Its(c) \in Id /\ call[c].of \in Key /\ Its(c)[1] = call[c].op
  BY DEF EffectInv, CallsOK, CallRecord, Its, Id

\* The parts that a step of another part leaves alone, if it takes nothing back.
LEMMA ClaimsStay ==
  ASSUME ProviderInv, \/ done' = done \/ \E i \in Id : done' = [done EXCEPT ![i] = 1],
         rerouted \subseteq rerouted'
  PROVE  \A i \in Id : Claimed(i) => Claimed(i)'
  BY DEF ProviderInv, Claimed

LEMMA RowsStay ==
  ASSUME EffectInv, Stable, UNCHANGED <<adapter, row>>,
         \A i \in Id : Claimed(i) => Claimed(i)'
  PROVE  RowsOK'
<1>1. Id' = Id
  BY DEF Id
<1>2. \A i \in Id : Verified(i) => Verified(i)'
  BY DEF Stable, Verified
<1>3. QED
  BY <1>1, <1>2 DEF EffectInv, RowsOK, RowRecord

LEMMA CallMoves ==
  ASSUME EffectInv, UNCHANGED <<mode, adapter>>, \A i \in Id : Claimed(i) => Claimed(i)',
         NEW c \in Call, NEW v \in CallRecord, call' = [call EXCEPT ![c] = v],
         v.pc = "execute" => v.attempt <= MaxRetries,
         v.pc = "wait" => mode = "PRODUCTION",
         v.pc \in {"report", "verify"} /\ v.outcome = "SUCCESS" => Claimed(<<v.op, v.key>>)'
  PROVE  CallsOK' /\ call' \in [Call -> {None} \cup CallRecord]'
<1>1. CallRecord' = CallRecord
  BY DEF CallRecord
<1>2. call' \in [Call -> {None} \cup CallRecord]
  BY DEF EffectInv
<1>3. ASSUME NEW d \in Call, call'[d] # None
      PROVE  /\ call'[d] \in CallRecord
             /\ call'[d].pc = "execute" => call'[d].attempt <= MaxRetries
             /\ call'[d].pc = "wait" => mode' = "PRODUCTION"
             /\ call'[d].pc \in {"report", "verify"} /\ call'[d].outcome = "SUCCESS"
                  => Claimed(Its(d))'
  <2>1. CASE d = c
    <3>1. call'[d] = v
      BY <2>1 DEF EffectInv
    <3>2. Its(d)' = <<v.op, v.key>>
      BY <3>1 DEF Its
    <3>3. QED
      BY <3>1, <3>2
  <2>2. CASE d # c
    <3>1. call'[d] = call[d]
      BY <2>2 DEF EffectInv
    <3>2. call[d] # None
      BY <1>3, <3>1
    <3>3. Its(d)' = Its(d) /\ Its(d) \in Id
      BY <3>1, <3>2, AboutOperation DEF Its
    <3>4. QED
      BY <3>1, <3>2, <3>3 DEF EffectInv, CallsOK
  <2>3. QED
    BY <2>1, <2>2
<1>4. QED
  BY <1>1, <1>2, <1>3 DEF CallsOK

LEMMA CallsStay ==
  ASSUME EffectInv, UNCHANGED <<mode, adapter, call>>, \A i \in Id : Claimed(i) => Claimed(i)'
  PROVE  CallsOK' /\ call' \in [Call -> {None} \cup CallRecord]'
<1>1. CallRecord' = CallRecord /\ \A c \in Call : Its(c)' = Its(c)
  BY DEF CallRecord, Its
<1>2. \A c \in Call : call[c] # None => Its(c) \in Id
  BY AboutOperation
<1>3. QED
  BY <1>1, <1>2 DEF EffectInv, CallsOK

LEMMA RecordsOutcome ==
  ASSUME EffectInv, UNCHANGED <<adapter, order, refund, done, rerouted>>,
         NEW i \in Id, NEW status \in {"PENDING", "COMPLETED", "FAILED"},
         RecordOperation(i, status), status = "COMPLETED" => Claimed(i)
  PROVE  RowsOK'
<1>1. Id' = Id /\ \A j \in Id : Claimed(j)' = Claimed(j) /\ Verified(j)' = Verified(j)
  BY DEF Id, Claimed, Verified
<1>2. CASE UNCHANGED row
  BY <1>1, <1>2 DEF EffectInv, RowsOK
<1>3. CASE row' = [row EXCEPT ![i] =
                IF @ = None THEN [status |-> status, verification |-> None]
                ELSE [status |-> status, verification |-> @.verification]]
  <2> DEFINE new == IF row[i] = None THEN [status |-> status, verification |-> None]
                    ELSE [status |-> status, verification |-> row[i].verification]
  <2>1. row' = [row EXCEPT ![i] = new]
    BY <1>3
  <2>2. /\ new \in RowRecord /\ new.status = status
        /\ new.verification = "PASSED" => Verified(i)
    <3>1. CASE row[i] = None
      BY <3>1, NoStatusAssumption DEF RowRecord
    <3>2. CASE row[i] # None
      <4>1. row[i] \in RowRecord /\ (row[i].verification = "PASSED" => Verified(i))
        BY <3>2 DEF EffectInv, RowsOK
      <4>2. QED
        BY <3>2, <4>1 DEF RowRecord
    <3>3. QED
      BY <3>1, <3>2
  <2> HIDE DEF new
  <2>3. row' \in [Id -> {None} \cup RowRecord]
    BY <2>1, <2>2 DEF EffectInv, RowsOK
  <2>4. row'[i] = new /\ \A j \in Id : j # i => row'[j] = row[j]
    BY <2>1 DEF EffectInv, RowsOK
  <2>5. ASSUME NEW j \in Id, row'[j] # None
        PROVE  /\ row'[j].status = "COMPLETED" => Claimed(j)
               /\ row'[j].verification = "PASSED" => Verified(j)
    <3>1. CASE j = i
      BY <2>2, <2>4, <3>1
    <3>2. CASE j # i
      <4>1. row'[j] = row[j]
        BY <2>4, <3>2
      <4>2. QED
        BY <2>5, <4>1 DEF EffectInv, RowsOK
    <3>3. QED
      BY <3>1, <3>2
  <2>6. QED
    BY <1>1, <2>3, <2>5 DEF RowsOK, RowRecord
<1>4. QED
  BY <1>2, <1>3 DEF RecordOperation, WriteLost

\* The call of the answer: what it goes on with, and that only "ok" is a success.
LEMMA AnswerMoves ==
  ASSUME EffectInv, NEW c \in Call, At(c, "wait"), NEW a,
         \/ a = "ok" /\ Got(c, "SUCCESS")
         \/ a \in Redirect /\ Follow(c, a)
         \/ a \in Error /\ Raise(c, a)
  PROVE  \E v \in CallRecord :
           /\ call' = [call EXCEPT ![c] = v]
           /\ v.op = call[c].op /\ v.key = call[c].key
           /\ v.pc = "execute" => v.attempt <= MaxRetries
           /\ v.pc = "wait" => mode = "PRODUCTION"
           /\ v.pc \in {"report", "verify"} /\ v.outcome = "SUCCESS" => a = "ok"
<1>1. call[c] \in CallRecord /\ call[c].pc = "wait" /\ mode = "PRODUCTION"
  BY DEF At, EffectInv, CallsOK
<1>2. ASSUME NEW o \in Outcome, Got(c, o), o = "SUCCESS" => a = "ok"
      PROVE  \E v \in CallRecord :
               /\ call' = [call EXCEPT ![c] = v]
               /\ v.op = call[c].op /\ v.key = call[c].key
               /\ v.pc = "report" /\ (v.outcome = "SUCCESS" => a = "ok")
  <2> DEFINE v == [call[c] EXCEPT !.pc = "report", !.outcome = o]
  <2>1. v \in CallRecord /\ v.op = call[c].op /\ v.key = call[c].key
    BY <1>1 DEF CallRecord
  <2>2. v.pc = "report" /\ v.outcome = o /\ call' = [call EXCEPT ![c] = v]
    BY <1>1, <1>2 DEF CallRecord, Got
  <2>3. QED
    BY <1>2, <2>1, <2>2
<1>3. CASE a = "ok" /\ Got(c, "SUCCESS")
  BY <1>2, <1>3 DEF Outcome
<1>4. CASE a \in Redirect /\ Follow(c, a)
  <2>1. CASE call[c].hops = MaxRedirects
    <3>1. Got(c, "FAILED") /\ "FAILED" \in Outcome
      BY <1>4, <2>1 DEF Follow, Outcome
    <3>2. QED
      BY <1>2, <3>1
  <2>2. CASE call[c].hops # MaxRedirects
    <3> DEFINE g == call[c].get \/ a = "see" \/ (a = "moved" /\ Method[call[c].op] = "POST")
               v == [call[c] EXCEPT !.hops = @ + 1, !.get = g]
    <3>1. call' = [call EXCEPT ![c] = v]
      BY <1>4, <2>2 DEF Follow
    <3>2. g \in BOOLEAN
      OBVIOUS
    <3> HIDE DEF g
    <3>3. call[c].hops + 1 \in 0..MaxRedirects
      BY <1>1, <2>2, IntegrationAssumption DEF CallRecord
    <3>4. v \in CallRecord /\ v.op = call[c].op /\ v.key = call[c].key /\ v.pc = "wait"
      BY <1>1, <3>2, <3>3 DEF CallRecord
    <3>5. QED
      BY <1>1, <3>1, <3>4
  <2>3. QED
    BY <2>1, <2>2
<1>5. CASE a \in Error /\ Raise(c, a)
  <2>1. CASE Goto(c, "execute") /\ call[c].attempt <= MaxRetries
    <3> DEFINE v == [call[c] EXCEPT !.pc = "execute"]
    <3>1. v \in CallRecord /\ v.op = call[c].op /\ v.key = call[c].key
      BY <1>1 DEF CallRecord
    <3>2. v.pc = "execute" /\ v.attempt = call[c].attempt /\ call' = [call EXCEPT ![c] = v]
      BY <1>1, <2>1 DEF CallRecord, Goto
    <3>3. QED
      BY <2>1, <3>1, <3>2
  <2>2. CASE \E o \in {"UNKNOWN_OUTCOME", "FAILED"} : Got(c, o)
    BY <1>2, <2>2 DEF Outcome
  <2>3. QED
    BY <1>5, <2>1, <2>2 DEF Raise
<1>6. QED
  BY <1>3, <1>4, <1>5

LEMMA GotMoves ==
  ASSUME EffectInv, UNCHANGED <<mode, adapter>>, \A i \in Id : Claimed(i) => Claimed(i)',
         NEW c \in Call, call[c] # None, NEW o \in Outcome, Got(c, o),
         o = "SUCCESS" => Claimed(Its(c))'
  PROVE  CallsOK' /\ call' \in [Call -> {None} \cup CallRecord]'
<1>1. call[c] \in CallRecord
  BY AboutOperation
<1>2. PICK v \in CallRecord :
        /\ v.pc = "report" /\ v.outcome = o
        /\ v.op = call[c].op /\ v.key = call[c].key
        /\ call' = [call EXCEPT ![c] = v]
  <2> DEFINE w == [call[c] EXCEPT !.pc = "report", !.outcome = o]
  <2>1. /\ w \in CallRecord /\ w.pc = "report" /\ w.outcome = o
        /\ w.op = call[c].op /\ w.key = call[c].key
    BY <1>1 DEF CallRecord
  <2>2. call' = [call EXCEPT ![c] = w]
    BY DEF Got
  <2>3. QED
    BY <2>1, <2>2
<1>5. v.outcome = "SUCCESS" => Claimed(<<v.op, v.key>>)'
  <2>1. CASE o = "SUCCESS"
    <3>1. Claimed(Its(c))' /\ Its(c)' = <<v.op, v.key>>
      BY <1>2, <2>1 DEF EffectInv, Its
    <3>2. QED
      BY <3>1 DEF Claimed
  <2>2. QED
    BY <1>2, <2>1
<1>6. QED
  BY <1>2, <1>5, CallMoves

LEMMA MemoryStays ==
  ASSUME EffectInv, UNCHANGED <<mode, adapter, memo, seen, late, done>>
  PROVE  MemoryOK'
<1>1. Id' = Id
  BY DEF Id
<1>2. QED
  BY <1>1 DEF EffectInv, MemoryOK

\* What a step keeps that does not reach the provider.
LEMMA ApartFromProvider ==
  ASSUME EffectInv, UNCHANGED <<mode, adapter, World>>, rerouted \subseteq rerouted'
  PROVE  /\ ProviderInv' /\ Stable /\ mode' \in Mode
         /\ \A i \in Id : Claimed(i) => Claimed(i)'
<1>1. ProviderInv' /\ Stable
  BY WorldRests DEF EffectInv, World
<1>2. \A i \in Id : Claimed(i) => Claimed(i)'
  BY ClaimsStay DEF EffectInv, World
<1>3. QED
  BY <1>1, <1>2 DEF EffectInv

-----------------------------------------------------------------------------
(* The steps of the caller. *)

LEMMA StartKeepsEffects ==
  ASSUME EffectInv, NEW c \in Call, Start(c)
  PROVE  EffectInv'
<1>1. PICK op \in adapter, k \in Key, of \in Key :
        /\ RecordOperation(<<op, k>>, "PENDING")
        /\ call' = [call EXCEPT ![c] = Begin(op, k, of)]
  BY DEF Start
<1>2. UNCHANGED <<mode, adapter, memo, World, Http>>
  BY DEF Start
<1>3. /\ ProviderInv' /\ mode' \in Mode
      /\ \A i \in Id : Claimed(i) => Claimed(i)'
  BY <1>2, ApartFromProvider DEF Http
<1>4. PICK v \in CallRecord :
        v.pc = "execute" /\ v.attempt = 0 /\ call' = [call EXCEPT ![c] = v]
  <2>1. Begin(op, k, of) \in CallRecord /\ Begin(op, k, of).pc = "execute"
          /\ Begin(op, k, of).attempt = 0
    BY IntegrationAssumption DEF Begin, CallRecord
  <2>2. QED
    BY <1>1, <2>1
<1>5. CallsOK' /\ call' \in [Call -> {None} \cup CallRecord]'
  <2>1. v.attempt <= MaxRetries
    BY <1>4, IntegrationAssumption
  <2>2. QED
    BY <1>2, <1>3, <1>4, <2>1, CallMoves
<1>6. MemoryOK'
  BY <1>2, MemoryStays DEF World, Http
<1>7. RowsOK'
  <2>1. <<op, k>> \in Id
    BY DEF Id
  <2>2. QED
    BY <1>1, <1>2, <2>1, RecordsOutcome DEF World, Http
<1>8. QED
  BY <1>3, <1>5, <1>6, <1>7 DEF EffectInv

LEMMA ReportKeepsEffects ==
  ASSUME EffectInv, NEW c \in Call, Report(c)
  PROVE  EffectInv'
<1>1. /\ call[c] # None /\ call[c].pc = "report"
      /\ UNCHANGED <<mode, adapter, memo, World, Http>>
  BY DEF Report, At
<1>2. /\ ProviderInv' /\ mode' \in Mode
      /\ \A i \in Id : Claimed(i) => Claimed(i)'
  BY <1>1, ApartFromProvider DEF Http
<1>3. call[c] \in CallRecord /\ Its(c) \in Id
  BY <1>1, AboutOperation
<1>4. CallsOK' /\ call' \in [Call -> {None} \cup CallRecord]'
  <2>1. PICK v \in CallRecord :
          /\ v.pc = "verify" /\ v.outcome = call[c].outcome
          /\ v.op = call[c].op /\ v.key = call[c].key
          /\ call' = [call EXCEPT ![c] = v]
    <3> DEFINE w == [call[c] EXCEPT !.pc = "verify"]
    <3>1. /\ w \in CallRecord /\ w.pc = "verify" /\ w.outcome = call[c].outcome
          /\ w.op = call[c].op /\ w.key = call[c].key
      BY <1>3 DEF CallRecord
    <3>2. call' = [call EXCEPT ![c] = w]
      BY DEF Report, Goto
    <3>3. QED
      BY <3>1, <3>2
  <2>3. v.outcome = "SUCCESS" => Claimed(<<v.op, v.key>>)'
    <3>1. CASE v.outcome = "SUCCESS"
      <4>1. Claimed(Its(c))
        BY <1>1, <2>1, <3>1 DEF EffectInv, CallsOK
      <4>2. Claimed(Its(c)) => Claimed(<<v.op, v.key>>)'
        BY <1>1, <2>1 DEF Its, Claimed, World, Http
      <4>3. QED
        BY <4>1, <4>2
    <3>2. QED
      BY <3>1
  <2>4. QED
    BY <1>1, <1>2, <2>1, <2>3, CallMoves
<1>5. MemoryOK'
  BY <1>1, MemoryStays DEF World, Http
<1>6. RowsOK'
  <2>1. CASE call[c].outcome = "SUCCESS"
    <3>1. RecordOperation(Its(c), "COMPLETED")
      BY <2>1 DEF Report
    <3>2. Claimed(Its(c))
      BY <1>1, <2>1 DEF EffectInv, CallsOK
    <3>3. QED
      BY <1>1, <1>3, <3>1, <3>2, RecordsOutcome DEF World, Http
  <2>2. CASE call[c].outcome # "SUCCESS"
    <3>1. RecordOperation(Its(c), "FAILED")
      BY <2>2 DEF Report
    <3>2. QED
      BY <1>1, <1>3, <3>1, RecordsOutcome DEF World, Http
  <2>3. QED
    BY <2>1, <2>2
<1>7. QED
  BY <1>2, <1>4, <1>5, <1>6 DEF EffectInv

\* A verification is recorded with what it found at that moment.
LEMMA VerifyKeepsEffects ==
  ASSUME EffectInv, NEW c \in Call, Verify(c)
  PROVE  EffectInv'
<1>1. /\ call[c] # None
      /\ UNCHANGED <<mode, adapter, memo, World, Http>>
      /\ call' = [call EXCEPT ![c] = None]
  BY DEF Verify, At
<1>2. /\ ProviderInv' /\ Stable /\ mode' \in Mode
      /\ \A i \in Id : Claimed(i) => Claimed(i)'
  BY <1>1, ApartFromProvider DEF Http
<1>3. call[c] \in CallRecord /\ Its(c) \in Id /\ Its(c)[1] = call[c].op
  BY <1>1, AboutOperation
<1>4. CallsOK' /\ call' \in [Call -> {None} \cup CallRecord]'
  <2>1. CallRecord' = CallRecord
    BY <1>1 DEF CallRecord
  <2>2. call' \in [Call -> {None} \cup CallRecord]
    BY <1>1 DEF EffectInv
  <2>3. ASSUME NEW d \in Call, call'[d] # None
        PROVE  call'[d] = call[d] /\ call[d] # None /\ Its(d)' = Its(d) /\ Its(d) \in Id
    <3>1. call'[d] = call[d] /\ call[d] # None
      BY <1>1, <2>3 DEF EffectInv
    <3>2. QED
      BY <3>1, AboutOperation DEF Its
  <2>4. QED
    BY <1>1, <1>2, <2>1, <2>2, <2>3 DEF CallsOK, EffectInv
<1>5. MemoryOK'
  BY <1>1, MemoryStays DEF World, Http
<1>6. RowsOK'
  <2>1. CASE UNCHANGED row
    BY <1>1, <1>2, <2>1, RowsStay
  <2>2. ASSUME row[Its(c)] # None,
               NEW v \in (IF mode = "SANDBOX" THEN SandboxVerdicts(call[c].op)
                          ELSE ProductionVerdicts(call[c].op)),
               row' = [row EXCEPT ![Its(c)] =
                 [row[Its(c)] EXCEPT !.verification = IF v THEN "PASSED" ELSE "FAILED"]]
        PROVE  RowsOK'
    <3>1. v => Verified(Its(c))
      <4>1. CASE call[c].op = "CANCEL_ORDER"
        <5>1. v \in {order = "CANCELLED", FALSE}
          BY <2>2, <4>1 DEF SandboxVerdicts, ProductionVerdicts, FakeOrderVerdicts, HttpOrderVerdicts
        <5>2. QED
          BY <1>3, <4>1, <5>1 DEF Verified
      <4>2. CASE call[c].op = "PROCESS_REFUND"
        <5>1. v \in {\E k \in Key : refund[k] = "SUCCEEDED", FALSE}
                    \cup {refund[k] = "SUCCEEDED" : k \in Key}
          BY <2>2, <4>2
          DEF SandboxVerdicts, ProductionVerdicts, FakePaymentVerdicts, HttpPaymentVerdicts
        <5>2. QED
          BY <1>3, <4>2, <5>1 DEF Verified
      <4>3. CASE call[c].op \notin {"CANCEL_ORDER", "PROCESS_REFUND"}
        BY <1>3, <4>3 DEF Verified
      <4>4. QED
        BY <4>1, <4>2, <4>3
    <3> DEFINE new == [row[Its(c)] EXCEPT !.verification = IF v THEN "PASSED" ELSE "FAILED"]
    <3>2. /\ row[Its(c)] \in RowRecord
          /\ row[Its(c)].status = "COMPLETED" => Claimed(Its(c))
      BY <1>3, <2>2 DEF EffectInv, RowsOK
    <3>3. /\ new \in RowRecord /\ new.status = row[Its(c)].status
          /\ new.verification = "PASSED" => v
      <4>1. CASE v
        BY <3>2, <4>1 DEF RowRecord
      <4>2. CASE ~v
        BY <3>2, <4>2 DEF RowRecord
      <4>3. QED
        BY <4>1, <4>2
    <3>4. row' = [row EXCEPT ![Its(c)] = new]
      BY <2>2
    <3> HIDE DEF new
    <3>5. /\ row' \in [Id -> {None} \cup RowRecord]
          /\ row'[Its(c)] = new /\ \A i \in Id : i # Its(c) => row'[i] = row[i]
      BY <1>3, <3>3, <3>4 DEF EffectInv, RowsOK
    <3>6. ASSUME NEW i \in Id, row'[i] # None
          PROVE  /\ row'[i].status = "COMPLETED" => Claimed(i)
                 /\ row'[i].verification = "PASSED" => Verified(i)
      <4>1. CASE i = Its(c)
        BY <3>1, <3>2, <3>3, <3>5, <4>1
      <4>2. CASE i # Its(c)
        <5>1. row'[i] = row[i]
          BY <3>5, <4>2
        <5>2. QED
          BY <3>6, <5>1 DEF EffectInv, RowsOK
      <4>3. QED
        BY <4>1, <4>2
    <3>7. Id' = Id /\ \A i \in Id : Claimed(i)' = Claimed(i) /\ Verified(i)' = Verified(i)
      BY <1>1 DEF Id, Claimed, Verified, World, Http
    <3>8. QED
      BY <3>5, <3>6, <3>7 DEF RowsOK, RowRecord
  <2>3. QED
    BY <2>1, <2>2 DEF Verify, WriteLost
<1>7. QED
  BY <1>2, <1>4, <1>5, <1>6 DEF EffectInv

-----------------------------------------------------------------------------
(* The steps of the adapters. *)

LEMMA SandboxKeepsEffects ==
  ASSUME EffectInv, NEW c \in Call, SandboxExecute(c)
  PROVE  EffectInv'
<1>1. /\ mode = "SANDBOX" /\ call[c] # None /\ call[c].pc = "execute"
      /\ UNCHANGED <<mode, adapter, row, late, rerouted>>
  BY DEF SandboxExecute, At, Http
<1>2. Its(c) \in Id /\ call[c].of \in Key
  BY <1>1, AboutOperation
<1> DEFINE i == Its(c)
<1>3. ASSUME NEW o \in Outcome, Got(c, o), UNCHANGED <<memo, World>>,
             o = "SUCCESS" => done[i] = 1
      PROVE  EffectInv'
  <2>1. /\ ProviderInv' /\ Stable /\ mode' \in Mode
        /\ \A j \in Id : Claimed(j) => Claimed(j)'
    BY <1>1, <1>3, ApartFromProvider
  <2>2. o = "SUCCESS" => Claimed(Its(c))'
    <3>1. CASE o = "SUCCESS"
      <4>1. Its(c)' = Its(c)
        BY <1>1, <1>2, <1>3 DEF Got, Its, EffectInv, CallsOK, CallRecord
      <4>2. QED
        BY <1>3, <3>1, <4>1 DEF Claimed, World
    <3>2. QED
      BY <3>1
  <2>3. CallsOK' /\ call' \in [Call -> {None} \cup CallRecord]'
    BY <1>1, <1>3, <2>1, <2>2, GotMoves
  <2>4. MemoryOK'
    BY <1>1, <1>3, MemoryStays DEF World
  <2>5. RowsOK'
    BY <1>1, <2>1, RowsStay
  <2>6. QED
    BY <2>1, <2>3, <2>4, <2>5 DEF EffectInv
<1>4. ASSUME NEW o \in Outcome, Remember(c, o), memo[i] = None,
             \/ o # "SUCCESS" /\ UNCHANGED World
             \/ CarryOut(i, call[c].of) /\ UNCHANGED seen
      PROVE  EffectInv'
  <2>1. Got(c, o) /\ memo' = [memo EXCEPT ![i] = o]
    BY <1>4 DEF Remember
  <2>2. done[i] = 0
    BY <1>1, <1>2, <1>4 DEF EffectInv, MemoryOK
  <2>3. /\ ProviderInv' /\ Stable
        /\ \/ done' = done /\ o # "SUCCESS"
           \/ done' = [done EXCEPT ![i] = 1]
        /\ seen' = seen
    <3>1. CASE o # "SUCCESS" /\ UNCHANGED World
      BY <1>1, <3>1, WorldRests DEF EffectInv, World
    <3>2. CASE CarryOut(i, call[c].of) /\ UNCHANGED seen
      BY <1>1, <1>2, <2>2, <3>2, CarriesOut DEF EffectInv
    <3>3. QED
      BY <1>4, <3>1, <3>2
  <2>4. \A j \in Id : Claimed(j) => Claimed(j)'
    BY <1>1, <1>2, <2>3, ClaimsStay DEF EffectInv
  <2>5. o = "SUCCESS" => Claimed(Its(c))'
    <3>1. CASE o = "SUCCESS"
      <4>1. Its(c)' = Its(c)
        BY <1>1, <1>2, <2>1 DEF Got, Its, EffectInv, CallsOK, CallRecord
      <4>2. done'[i] = 1
        BY <1>2, <2>3, <3>1 DEF EffectInv, ProviderInv
      <4>3. QED
        BY <4>1, <4>2 DEF Claimed
    <3>2. QED
      BY <3>1
  <2>6. CallsOK' /\ call' \in [Call -> {None} \cup CallRecord]'
    BY <1>1, <2>1, <2>4, <2>5, GotMoves
  <2>7. MemoryOK'
    <3>1. Id' = Id /\ mode' = "SANDBOX" /\ late' = {}
      BY <1>1 DEF Id, EffectInv, MemoryOK
    <3>2. memo' \in [Id -> Outcome \cup {None}] /\ memo'[i] = o
      BY <1>2, <2>1 DEF EffectInv, MemoryOK
    <3>3. \A j \in Id : j # i => memo'[j] = memo[j] /\ done'[j] = done[j]
      BY <1>2, <2>1, <2>3 DEF EffectInv, MemoryOK, ProviderInv
    <3>4. o # None /\ (o = "SUCCESS" => done'[i] = 1)
      BY <1>2, <2>3, NoStatusAssumption DEF EffectInv, ProviderInv
    <3>5. QED
      BY <1>1, <3>1, <3>2, <3>3, <3>4 DEF EffectInv, MemoryOK
  <2>8. RowsOK'
    BY <1>1, <2>3, <2>4, RowsStay
  <2>9. QED
    BY <1>1, <2>3, <2>6, <2>7, <2>8 DEF EffectInv
<1>5. \/ /\ memo[i] # None /\ Got(c, memo[i]) /\ UNCHANGED <<memo, World>>
      \/ /\ memo[i] = None
         /\ \/ /\ \E o \in {"UNKNOWN_OUTCOME", "FAILED"} : Remember(c, o)
               /\ UNCHANGED World
            \/ /\ CarryOut(i, call[c].of) /\ UNCHANGED seen
               /\ \E o \in {"SUCCESS", "UNKNOWN_OUTCOME"} : Remember(c, o)
            \/ Got(c, "FAILED") /\ UNCHANGED <<memo, World>>
  BY DEF SandboxExecute
<1>6. memo[i] # None => memo[i] \in Outcome /\ (memo[i] = "SUCCESS" => done[i] = 1)
  BY <1>2 DEF EffectInv, MemoryOK
<1> HIDE DEF i
<1>7. CASE memo[i] # None /\ Got(c, memo[i]) /\ UNCHANGED <<memo, World>>
  BY <1>3, <1>6, <1>7
<1>8. CASE memo[i] = None /\ UNCHANGED World
             /\ \E o \in {"UNKNOWN_OUTCOME", "FAILED"} : Remember(c, o)
  BY <1>4, <1>8 DEF Outcome
<1>9. CASE memo[i] = None /\ CarryOut(i, call[c].of) /\ UNCHANGED seen
             /\ \E o \in {"SUCCESS", "UNKNOWN_OUTCOME"} : Remember(c, o)
  BY <1>4, <1>9 DEF Outcome
<1>10. CASE Got(c, "FAILED") /\ UNCHANGED <<memo, World>>
  BY <1>3, <1>10 DEF Outcome
<1>11. QED
  BY <1>5, <1>7, <1>8, <1>9, <1>10

LEMMA SendKeepsEffects ==
  ASSUME EffectInv, NEW c \in Call, Send(c)
  PROVE  EffectInv'
<1>1. /\ mode = "PRODUCTION" /\ call[c] # None /\ call[c].pc = "execute"
      /\ UNCHANGED <<mode, adapter, row, memo, World, Http>>
  BY DEF Send, At
<1>2. /\ ProviderInv' /\ Stable /\ mode' \in Mode
      /\ \A j \in Id : Claimed(j) => Claimed(j)'
  BY <1>1, ApartFromProvider DEF Http
<1>3. PICK v \in CallRecord : v.pc = "wait" /\ call' = [call EXCEPT ![c] = v]
  <2> DEFINE w == [call[c] EXCEPT !.pc = "wait", !.attempt = call[c].attempt + 1,
                                  !.get = FALSE, !.hops = 0]
  <2>1. call[c] \in CallRecord /\ call[c].attempt <= MaxRetries
    BY <1>1 DEF EffectInv, CallsOK
  <2>2. call[c].attempt + 1 \in 0..(MaxRetries + 1) /\ 0 \in 0..MaxRedirects
    BY <2>1, IntegrationAssumption DEF CallRecord
  <2>3. w \in CallRecord /\ w.pc = "wait"
    BY <2>1, <2>2 DEF CallRecord
  <2>4. call' = [call EXCEPT ![c] = w]
    BY DEF Send
  <2>5. QED
    BY <2>3, <2>4
<1>4. CallsOK' /\ call' \in [Call -> {None} \cup CallRecord]'
  BY <1>1, <1>2, <1>3, CallMoves
<1>5. MemoryOK' /\ RowsOK'
  BY <1>1, <1>2, MemoryStays, RowsStay DEF World, Http
<1>6. QED
  BY <1>2, <1>4, <1>5 DEF EffectInv

\* A request whose key the provider has not seen is carried out there.
LEMMA Arrives ==
  ASSUME EffectInv, mode = "PRODUCTION", NEW i \in Id, NEW of \in Key, i \notin seen,
         CarryOut(i, of), seen' = seen \cup {i}, late' \subseteq late,
         UNCHANGED <<mode, adapter, memo>>
  PROVE  ProviderInv' /\ Stable /\ MemoryOK' /\ done' = [done EXCEPT ![i] = 1]
<1>1. done[i] = 0
  BY DEF EffectInv, MemoryOK, ProviderInv
<1>2. ProviderInv' /\ Stable /\ done' = [done EXCEPT ![i] = 1]
  BY <1>1, CarriesOut DEF EffectInv
<1>3. Id' = Id
  BY DEF Id
<1>4. done'[i] = 1 /\ \A j \in Id : j # i => done'[j] = done[j]
  BY <1>2 DEF EffectInv, ProviderInv
<1>5. \A j \in Id : j \in seen' <=> done'[j] = 1
  BY <1>4 DEF EffectInv, MemoryOK
<1>6. \A j \in Id : memo'[j] = "SUCCESS" => done'[j] = 1
  BY <1>4 DEF EffectInv, MemoryOK
<1>7. QED
  BY <1>2, <1>3, <1>5, <1>6 DEF EffectInv, MemoryOK

LEMMA ServeKeepsEffects ==
  ASSUME EffectInv, NEW c \in Call, Serve(c)
  PROVE  EffectInv'
<1>1. /\ At(c, "wait") /\ call[c] # None /\ call[c].pc = "wait"
      /\ UNCHANGED <<mode, adapter, row, memo, late>>
  BY DEF Serve, At
<1>2. Its(c) \in Id /\ call[c].of \in Key /\ mode = "PRODUCTION" /\ IdempotencyKey(c) = Its(c)
  BY <1>1, AboutOperation DEF EffectInv, CallsOK, Its, IdempotencyKey
<1>3. /\ ProviderInv' /\ Stable /\ MemoryOK'
      /\ done' = done \/ done' = [done EXCEPT ![Its(c)] = 1]
  <2>1. CASE /\ Its(c) \notin seen /\ CarryOut(Its(c), call[c].of)
             /\ seen' = seen \cup {Its(c)}
    BY <1>1, <1>2, <2>1, Arrives
  <2>2. CASE UNCHANGED World
    BY <1>1, <2>2, WorldRests, MemoryStays DEF EffectInv, World
  <2>3. QED
    BY <1>2, <2>1, <2>2 DEF Serve
<1>4. PICK a : /\ Answered(c, a)
               /\ a = "ok" => /\ done'[Its(c)] = 1 \/ call[c].get
  <2>1. CASE /\ Its(c) \notin seen /\ CarryOut(Its(c), call[c].of)
             /\ seen' = seen \cup {Its(c)} /\ \E a : Answered(c, a)
    <3>1. done'[Its(c)] = 1
      BY <1>1, <1>2, <2>1, Arrives DEF EffectInv, ProviderInv
    <3>2. QED
      BY <2>1, <3>1
  <2>2. CASE /\ call[c].get \/ Its(c) \in seen
             /\ UNCHANGED World /\ \E a : Answered(c, a)
    <3>1. Its(c) \in seen => done'[Its(c)] = 1
      BY <1>2, <2>2 DEF EffectInv, MemoryOK, World
    <3>2. QED
      BY <2>2, <3>1
  <2>3. CASE \E a \in {"client", "abort", "limited", "server", "timeout", "moved", "again"} :
               Answered(c, a)
    BY <2>3
  <2>4. QED
    BY <1>2, <2>1, <2>2, <2>3 DEF Serve
<1>5. /\ rerouted \subseteq rerouted'
      /\ a = "ok" /\ call[c].get => Its(c) \in rerouted'
  BY <1>4 DEF Answered, Redirect, Error
<1>6. \A j \in Id : Claimed(j) => Claimed(j)'
  BY <1>2, <1>3, <1>5, ClaimsStay DEF EffectInv
<1>7. PICK v \in CallRecord :
        /\ call' = [call EXCEPT ![c] = v]
        /\ v.op = call[c].op /\ v.key = call[c].key
        /\ v.pc = "execute" => v.attempt <= MaxRetries
        /\ v.pc = "wait" => mode = "PRODUCTION"
        /\ v.pc \in {"report", "verify"} /\ v.outcome = "SUCCESS" => a = "ok"
  BY <1>1, <1>4, AnswerMoves DEF Answered
<1>8. v.pc \in {"report", "verify"} /\ v.outcome = "SUCCESS" => Claimed(<<v.op, v.key>>)'
  <2>1. <<v.op, v.key>> = Its(c)
    BY <1>7 DEF Its
  <2>2. a = "ok" => done'[<<v.op, v.key>>] = 1 \/ <<v.op, v.key>> \in rerouted'
    BY <1>4, <1>5, <2>1
  <2>3. QED
    BY <1>7, <2>2 DEF Claimed
<1>9. CallsOK' /\ call' \in [Call -> {None} \cup CallRecord]'
  BY <1>1, <1>6, <1>7, <1>8, CallMoves
<1>10. RowsOK'
  BY <1>1, <1>3, <1>6, RowsStay
<1>11. QED
  BY <1>1, <1>3, <1>9, <1>10 DEF EffectInv

LEMMA TimedOutKeepsEffects ==
  ASSUME EffectInv, NEW c \in Call, TimedOut(c)
  PROVE  EffectInv'
<1>1. /\ At(c, "wait") /\ call[c] # None /\ call[c].pc = "wait"
      /\ UNCHANGED <<mode, adapter, row, memo, rerouted, World>>
  BY DEF TimedOut, At
<1>2. Its(c) \in Id /\ call[c].of \in Key /\ mode = "PRODUCTION" /\ IdempotencyKey(c) = Its(c)
  BY <1>1, AboutOperation DEF EffectInv, CallsOK, Its, IdempotencyKey
<1>3. /\ ProviderInv' /\ Stable /\ mode' \in Mode
      /\ \A j \in Id : Claimed(j) => Claimed(j)'
  BY <1>1, ApartFromProvider
<1>4. PICK a \in {"abort", "network"} : Raise(c, a)
  BY DEF TimedOut
<1>5. PICK v \in CallRecord :
        /\ call' = [call EXCEPT ![c] = v]
        /\ v.op = call[c].op /\ v.key = call[c].key
        /\ v.pc = "execute" => v.attempt <= MaxRetries
        /\ v.pc = "wait" => mode = "PRODUCTION"
        /\ v.pc \in {"report", "verify"} /\ v.outcome = "SUCCESS" => a = "ok"
  BY <1>1, <1>4, AnswerMoves DEF Error
<1>6. CallsOK' /\ call' \in [Call -> {None} \cup CallRecord]'
  BY <1>1, <1>3, <1>5, CallMoves
<1>7. MemoryOK'
  <2>1. \A r \in late' : r.id \in Id /\ r.sent = r.id /\ r.of \in Key
    BY <1>2 DEF TimedOut, EffectInv, MemoryOK
  <2>2. Id' = Id
    BY <1>1 DEF Id
  <2>3. QED
    BY <1>1, <1>2, <2>1, <2>2 DEF EffectInv, MemoryOK, World
<1>8. RowsOK'
  BY <1>1, <1>3, RowsStay
<1>9. QED
  BY <1>3, <1>6, <1>7, <1>8 DEF EffectInv

\* The provider by itself: a request that was given up, a refund that ends.
LEMMA ProviderKeepsEffects ==
  ASSUME EffectInv, Settle \/ ArriveLate
  PROVE  EffectInv'
<1>1. UNCHANGED <<mode, adapter, row, call, memo, rerouted>>
  BY DEF Settle, ArriveLate, Http
<1>2. /\ ProviderInv' /\ Stable /\ MemoryOK'
      /\ \/ done' = done
         \/ \E i \in Id : done' = [done EXCEPT ![i] = 1]
  <2>1. CASE Settle
    <3>1. ProviderInv' /\ Stable /\ done' = done
      BY <2>1, Settles DEF EffectInv
    <3>2. UNCHANGED <<seen, late>>
      BY <2>1 DEF Settle, Http
    <3>3. QED
      BY <1>1, <3>1, <3>2, MemoryStays
  <2>2. CASE ArriveLate
    <3>1. PICK r \in late :
            /\ r.sent \notin seen /\ CarryOut(r.id, r.of)
            /\ seen' = seen \cup {r.sent} /\ late' = late \ {r}
      BY <2>2 DEF ArriveLate
    <3>2. r.id \in Id /\ r.sent = r.id /\ r.of \in Key /\ mode = "PRODUCTION"
      BY <3>1 DEF EffectInv, MemoryOK, Mode
    <3>3. QED
      BY <1>1, <3>1, <3>2, Arrives
  <2>3. QED
    BY <2>1, <2>2
<1>3. \A j \in Id : Claimed(j) => Claimed(j)'
  BY <1>1, <1>2, ClaimsStay DEF EffectInv
<1>4. CallsOK' /\ call' \in [Call -> {None} \cup CallRecord]'
  BY <1>1, <1>3, CallsStay
<1>5. RowsOK'
  BY <1>1, <1>2, <1>3, RowsStay
<1>6. QED
  BY <1>1, <1>2, <1>4, <1>5 DEF EffectInv

LEMMA EffectInvStep ==
  ASSUME EffectInv, [Next]_vars
  PROVE  EffectInv'
<1>1. CASE UNCHANGED <<mode, adapter, row, call, memo, World, Http>>
  <2>1. /\ ProviderInv' /\ Stable /\ mode' \in Mode
        /\ \A j \in Id : Claimed(j) => Claimed(j)'
    BY <1>1, ApartFromProvider DEF Http
  <2>2. CallsOK' /\ call' \in [Call -> {None} \cup CallRecord]'
    BY <1>1, <2>1, CallsStay
  <2>3. MemoryOK' /\ RowsOK'
    BY <1>1, <2>1, MemoryStays, RowsStay DEF World, Http
  <2>4. QED
    BY <2>1, <2>2, <2>3 DEF EffectInv
<1>2. CASE UNCHANGED vars
  BY <1>1, <1>2 DEF vars, World, Http
<1>3. CASE Rest \/ Health
  BY <1>1, <1>3 DEF Rest, Health
<1>4. CASE Settle \/ ArriveLate
  BY <1>4, ProviderKeepsEffects
<1>5. ASSUME NEW c \in Call, Start(c) \/ Progress(c)
      PROVE  EffectInv'
  BY <1>5, StartKeepsEffects, SandboxKeepsEffects, SendKeepsEffects, ServeKeepsEffects,
     TimedOutKeepsEffects, ReportKeepsEffects, VerifyKeepsEffects DEF Progress
<1>6. QED
  BY <1>2, <1>3, <1>4, <1>5 DEF Next

LEMMA EffectsAlways == Spec => []EffectInv
  BY EffectInvInit, EffectInvStep, PTL DEF Spec

\* Rows, memories, calls and the breaker keep their types, and the stock is where
\* the reservations say, whatever is retried, lost or late.
THEOREM IntegrationTypeCorrect == Spec => []IntegrationTypeOK
<1>1. EffectInv /\ BreakerInv => IntegrationTypeOK
  <2>1. SUFFICES ASSUME EffectInv, BreakerInv PROVE IntegrationTypeOK
    OBVIOUS
  <2>2. mode \in Mode /\ breaker \in Breaker
    BY <2>1 DEF EffectInv, BreakerInv, Counts
  <2>3. /\ row \in [Id -> {None} \cup [status : {"PENDING", "COMPLETED", "FAILED"},
                                      verification : {None, "PASSED", "FAILED"}]]
        /\ memo \in [Id -> Outcome \cup {None}]
    BY <2>1 DEF EffectInv, RowsOK, RowRecord, MemoryOK
  <2>4. \A c \in Call : call[c] # None =>
          call[c].attempt \in 0..(MaxRetries + 1) /\ call[c].hops \in 0..MaxRedirects
    BY <2>1 DEF EffectInv, CallsOK, CallRecord
  <2>5. /\ refund \in [Key -> {None, "PENDING", "SUCCEEDED", "FAILED"}]
        /\ order \in {"PENDING", "SHIPPED", "CANCELLED"} /\ held \subseteq Key
        /\ free + Cardinality(held) = Stock /\ entries \subseteq Id
    BY <2>1 DEF EffectInv, ProviderInv, OrderStatus, RefundStatus
  <2>6. QED
    BY <2>2, <2>3, <2>4, <2>5 DEF IntegrationTypeOK
<1>2. Spec => []BreakerInv
  BY BreakerInvInit, BreakerInvStep, PTL DEF Spec
<1>3. QED
  BY <1>1, <1>2, EffectsAlways, PTL

\* An idempotency key has one effect at most, in the sandbox and over HTTP,
\* whatever is retried, redirected, lost or late.
THEOREM EffectsOnce == Spec => []EffectOnce
<1>1. EffectInv => EffectOnce
  BY DEF EffectInv, ProviderInv, EffectOnce
<1>2. QED
  BY <1>1, EffectsAlways, PTL

\* What is recorded as COMPLETED was carried out, unless a redirect turned the
\* request into a read.
THEOREM CompletionIsTrue == Spec => []CompletedWasDone
<1>1. EffectInv => CompletedWasDone
  BY DEF EffectInv, RowsOK, Claimed, CompletedWasDone
<1>2. QED
  BY <1>1, EffectsAlways, PTL

\* A cancellation or refund recorded as verified is true at the provider, and
\* remains so.
THEOREM VerificationIsTrue == Spec => []VerifiedIsTrue
<1>1. EffectInv => VerifiedIsTrue
  BY DEF EffectInv, RowsOK, Verified, VerifiedIsTrue
<1>2. QED
  BY <1>1, EffectsAlways, PTL
=============================================================================
