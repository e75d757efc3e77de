------------------------------- MODULE MCShifts -------------------------------
(* An instance of Shifts for TLC. *)
EXTENDS Shifts, TLC

CONSTANTS q1, q2, s1, s2, s3

TwoSlots == {q1, q2}
ThreeRows == {s1, s2, s3}
WorkerTypes == {"CLOCK_OUT", "BREAK_START", "HEARTBEAT"}
CorrectionTypes == {"CLOCK_OUT", "RECONNECT"}
Jumps == {3}
Symmetry == Permutations(TwoSlots) \cup Permutations(ThreeRows)
=============================================================================
