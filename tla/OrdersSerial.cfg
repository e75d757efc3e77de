\* One request at a time, every operation, every fault except a crash; fairness of its steps.
SPECIFICATION FairSpec
CONSTANTS
  w1 = w1
  w2 = w2
  r1 = r1
  r2 = r2
  Workers <- OneWorker
  Admin = Admin
  NoWorker = NoWorker
  Requests <- OneRequest
  Ops <- AllOps
  Faults = {"lostReply", "badReply", "dbError"}
  MaxVersion = 10
  StartApproved = FALSE
INVARIANTS
  ClosedIffTerminal
  BoughtAgainOnlyIfLost
  RefundedOnce
  RetentionScheduled
PROPERTIES
  ConfirmingSettles
