-------------------------- MODULE MCPolicyGovernance --------------------------
(* Model-checking instances of PolicyGovernance. *)
EXTENDS PolicyGovernance, FiniteSets, TLC

\* Without dates, or over before the clock's last tick.
SomeWindows == {Always, [from |-> 0, until |-> 0]}

\* Calls differ in nothing.
Symmetry == Permutations(Call)

\* A run that is evaluating its policies or has done so.
Begun(r) == stage[r] # "idle" \/ pinned[r] # {} \/ used[r] # {}

\* Bound: two calls at once, or a call beside a run.
TwoAtOnce ==
  Cardinality({c \in Call : call[c] # None}) + Cardinality({r \in Run : Begun(r)}) <= 2
=============================================================================
