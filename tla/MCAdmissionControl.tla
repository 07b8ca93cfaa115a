-------------------------- MODULE MCAdmissionControl --------------------------
(* Model-checking instance of AdmissionControl. *)
EXTENDS AdmissionControl, TLC
Symmetry == Permutations(Caller)
=============================================================================
