------------------------------- MODULE MCCustody -------------------------------
(* An instance of Custody for TLC. *)
EXTENDS Custody, TLC

CONSTANTS q1, q2, o1, o2

TwoSlots == {q1, q2}
TwoOrders == {o1, o2}
OneSlot == {q1}
OneOrder == {o1}
Symmetry == Permutations(TwoSlots) \cup Permutations(TwoOrders)
=============================================================================
