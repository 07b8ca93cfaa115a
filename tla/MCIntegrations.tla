---------------------------- MODULE MCIntegrations ----------------------------
EXTENDS Integrations
MostCalls == "SANDBOX" :> 4 @@ "PRODUCTION" :> 2
Symmetry == Permutations(Call) \cup Permutations(Key)
=============================================================================
