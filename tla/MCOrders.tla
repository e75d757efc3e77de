------------------------------- MODULE MCOrders -------------------------------
(* Instances of OrderSystem for TLC. *)
EXTENDS OrderSystem, TLC

CONSTANTS w1, w2, r1, r2

OneRequest == {r1}
TwoRequests == {r1, r2}
OneWorker == {w1}
TwoWorkers == {w1, w2}

AllOps ==
  {"update", "credentials", "deletion", "expiry", "proof", "status", "complete",
   "reconcile", "refund", "prepare", "confirm", "sync", "correct", "cancel"}

\* What the provider has accepted is read by no handler: a run without a property
\* about it need not tell its values apart.
RowsAndRequests == <<rows, req>>

Symmetry == Permutations(TwoRequests) \cup Permutations(TwoWorkers)
=============================================================================
