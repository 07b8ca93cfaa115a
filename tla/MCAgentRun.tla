------------------------------ MODULE MCAgentRun ------------------------------
EXTENDS AgentRun, TLC
CONSTANTS c1, c2
Calls == {c1, c2}
Symmetry == Permutations(Calls)

\* Bound: of two calls at once one is the orchestrator's, and both have a row.
RowsAtOnce ==
  \/ \E c \in Calls : call[c] = None
  \/ (\E c \in Calls : Orchestrating(c)) /\ \A c \in Calls : call[c].r # None
=============================================================================
