\* Two overlapping requests on an approved order, every operation, every fault.
SPECIFICATION Spec
CONSTANTS
  w1 = w1
  w2 = w2
  r1 = r1
  r2 = r2
  Workers <- TwoWorkers
  Admin = Admin
  NoWorker = NoWorker
  Requests <- TwoRequests
  Ops <- AllOps
  Faults <- FaultKinds
  MaxVersion = 6
  StartApproved = TRUE
SYMMETRY Symmetry
VIEW RowsAndRequests
INVARIANTS
  TypeOK
  SnapshotCoherent
  ReservationExclusive
  CompletedHasEvidence
PROPERTIES
  GuardedWritesAreCurrent
  ImplementsLifecycle
