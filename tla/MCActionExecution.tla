-------------------------- MODULE MCActionExecution --------------------------
(* Model-checking instances of ActionExecution: what callers may ask. *)
EXTENDS ActionExecution
CONSTANTS k1, k2, k3, k4, k5, o1, d1

Ask(type, key, amount) ==
  [type |-> type, key |-> key, order |-> o1, amount |-> amount, code |-> d1,
   needs |-> {}, has |-> {}]

\* Each key is used for one kind of action; one refund waits for an approval.
\* k4 is the key of the replan of the refund k1, k5 of that of the replacement k3.
EveryAction ==
  {Ask("REFUND", k1, 1),
   [Ask("REFUND", k1, 1) EXCEPT !.needs = {"APPROVAL"}],
   Ask("CANCELLATION", k2, 0),
   Ask("REPLACEMENT", k3, 0),
   Ask("COUPON", k4, 0),
   Ask("ESCALATION", k5, 0)}

ReplanKeys == {<<k1, k4>>, <<k3, k5>>}
=============================================================================
