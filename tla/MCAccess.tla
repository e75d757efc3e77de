------------------------------- MODULE MCAccess -------------------------------
(* An instance of Access for TLC. *)
EXTENDS Access, TLC

CONSTANTS q1, q2, s1, s2

TwoSlots == {q1, q2}
TwoSessions == {s1, s2}
Symmetry == Permutations(TwoSlots) \cup Permutations(TwoSessions)
=============================================================================
