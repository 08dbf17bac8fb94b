---------------------------- MODULE MCMonthlyRun ----------------------------
(***************************************************************************)
(* MonthlyRun for TLC: customers are interchangeable model values.         *)
(***************************************************************************)
EXTENDS MonthlyRun, TLC

Symmetry == Permutations(Customer)
=============================================================================
