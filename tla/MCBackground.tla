---------------------------- MODULE MCBackground ----------------------------
(* Instances of Background for TLC. *)
EXTENDS Background, TLC

CONSTANTS r1, r2, j1, n1

TwoRunners == {r1, r2}
OneJob == {j1}
OneNote == {n1}
=============================================================================
