------------------------------ MODULE OnceLedger ------------------------------
(***************************************************************************)
(* What the refund tool promises, without tables, retries or crashes: a    *)
(* refund is performed at most once per idempotency key, by one attempt,   *)
(* and a call is told that its refund was performed only on account of one *)
(* that was, or of another deed under a key that vouches for its own.      *)
(***************************************************************************)
CONSTANTS
  Key,      \* idempotency keys
  Call,     \* those who ask for refunds
  Attempt,  \* those who perform them on the calls' behalf
  Vouches,  \* <<k, l>> when what was done under key l is taken for k's
  Nobody    \* nobody

VARIABLES
  ledger,  \* ledger[k]: the attempt that performed the refund of key k
  other,   \* other[a]: the key under which attempt a did something else
  told     \* told[c]: the key and performer c was given as its answer

vars == <<ledger, other, told>>

Init ==
  /\ ledger = [k \in Key |-> Nobody]
  /\ other = [a \in Attempt |-> Nobody]
  /\ told = [c \in Call |-> Nobody]

Perform(k, a) ==
  /\ ledger[k] = Nobody /\ ledger'[k] = a
  /\ ledger' = [ledger EXCEPT ![k] = a]
  /\ UNCHANGED <<other, told>>

DoOther(k, a) ==
  /\ other[a] = Nobody /\ other'[a] = k
  /\ other' = [other EXCEPT ![a] = k]
  /\ UNCHANGED <<ledger, told>>

\* a performed the refund of key k, or did something else under it.
Did(k, a) == ledger[k] = a \/ other[a] = k

Confirm(k, a, c) ==
  /\ told[c] = Nobody /\ told'[c] = <<k, a>>
  /\ told' = [told EXCEPT ![c] = <<k, a>>]
  /\ \E l \in Key : (l = k \/ <<k, l>> \in Vouches) /\ Did(l, a)
  /\ UNCHANGED <<ledger, other>>

Next ==
  \E k \in Key, a \in Attempt :
    \/ Perform(k, a)
    \/ DoOther(k, a)
    \/ \E c \in Call : Confirm(k, a, c)

Spec == Init /\ [][Next]_vars
=============================================================================
