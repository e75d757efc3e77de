\* Two confirmations, no fault: the claim is a statement after the reservation.
SPECIFICATION Spec
CONSTANTS
  w1 = w1
  w2 = w2
  r1 = r1
  r2 = r2
  Workers <- OneWorker
  Admin = Admin
  NoWorker = NoWorker
  Requests <- TwoRequests
  Ops = {"prepare", "confirm"}
  Faults = {}
  MaxVersion = 9
  StartApproved = TRUE
INVARIANTS
  AcceptedOnce
CHECK_DEADLOCK FALSE
