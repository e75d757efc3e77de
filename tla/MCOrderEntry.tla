----------------------------- MODULE MCOrderEntry -----------------------------
(* An instance of OrderEntry for TLC. *)
EXTENDS OrderEntry, TLC

CONSTANTS u1, u2, q1, q2, r1

TwoUsers == {u1, u2}
TwoSlots == {q1, q2}
OneReference == {r1}
NewFees == {800}
Symmetry == Permutations(TwoUsers) \cup Permutations(TwoSlots)
=============================================================================
