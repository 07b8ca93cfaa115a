---------------------------- MODULE CircuitBreaker ----------------------------
(***************************************************************************)
(* The circuit breaker of a provider (CircuitBreaker.ts): its state as a    *)
(* record, its methods as operators on it. None of them awaits, so each is  *)
(* one step of whoever calls it.                                            *)
(***************************************************************************)
EXTENDS Naturals
CONSTANTS
  FailureThreshold, \* failures that open it
  ProbeThreshold    \* halfOpenSuccessThreshold: successes that close it

ASSUME ThresholdAssumption ==
  FailureThreshold \in Nat \ {0} /\ ProbeThreshold \in Nat \ {0}

\* rested: resetTimeoutMs have passed since the last change.
Breaker ==
  [state : {"CLOSED", "OPEN", "HALF_OPEN"}, failures : 0..FailureThreshold,
   successes : 0..ProbeThreshold, rested : BOOLEAN]

NewBreaker == [state |-> "CLOSED", failures |-> 0, successes |-> 0, rested |-> FALSE]

\* transitionTo
To(b, s) ==
  [state |-> s, rested |-> FALSE,
   failures |-> IF s = "CLOSED" THEN 0 ELSE b.failures,
   successes |-> IF s = "OPEN" THEN b.successes ELSE 0]

\* getState: an open breaker that has rested becomes half-open by being looked at.
Looked(b) == IF b.state = "OPEN" /\ b.rested THEN To(b, "HALF_OPEN") ELSE b

\* allowExecution
Allows(b) == Looked(b).state # "OPEN"

\* Mutant: a success leaves the failures that came before it.
SucceededLate(b) ==
  LET l == Looked(b) IN
    IF l.state \in {"CLOSED", "OPEN"} THEN l
    ELSE IF l.successes + 1 >= ProbeThreshold THEN To(l, "CLOSED")
    ELSE [l EXCEPT !.successes = @ + 1]

\* recordSuccess
Succeeded(b) ==
  LET l == Looked(b) IN
    IF l.state = "CLOSED" THEN [l EXCEPT !.failures = 0]
    ELSE IF l.state = "OPEN" THEN l
    ELSE IF l.successes + 1 >= ProbeThreshold THEN To(l, "CLOSED")
    ELSE [l EXCEPT !.successes = @ + 1]

\* recordFailure
Failed(b) ==
  LET l == Looked(b) IN
    IF l.state = "HALF_OPEN" THEN To(l, "OPEN")
    ELSE IF l.state = "OPEN" THEN l
    ELSE LET f == [l EXCEPT !.failures = @ + 1]
         IN IF f.failures >= FailureThreshold THEN To(f, "OPEN") ELSE f
=============================================================================
