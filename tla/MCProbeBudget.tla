--------------------------- MODULE MCProbeBudget ---------------------------
(* Small instances of ProbeBudget for TLC. *)
EXTENDS ProbeBudget

MCDays == 1..2
\* Cheaper than, and dearer than, the estimate.
MCCharges == {1, 3}
=============================================================================
