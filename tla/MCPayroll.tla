------------------------------ MODULE MCPayroll ------------------------------
(* Instances of Payroll for TLC. *)
EXTENDS Payroll, TLC

CONSTANTS w1, w2, o1, b1, c1

OneOrder == {o1}
TwoWorkers == {w1, w2}
OneBuild == {b1}
OneCall == {c1}

Symmetry == Permutations(TwoWorkers)
=============================================================================
