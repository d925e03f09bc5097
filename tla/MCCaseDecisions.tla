--------------------------- MODULE MCCaseDecisions ---------------------------
(* A small instance of CaseDecisions: three requests on two cases. *)
EXTENDS CaseDecisions, TLC

Symmetry == Permutations(Requests) \cup Permutations(Cases)
=============================================================================
