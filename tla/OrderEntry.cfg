\* Two dashboards with a form each, two requests in flight, a change of year, two of the fee.
SPECIFICATION Spec
CONSTANTS
  u1 = u1
  u2 = u2
  q1 = q1
  q2 = q2
  r1 = r1
  Users <- TwoUsers
  Slots <- TwoSlots
  References <- OneReference
  Fees <- NewFees
  Default = 500
  Window = 1
  YearLength = 2
  MaxTime = 2
  MaxForms = 1
  MaxOrders = 2
  MaxUpdates = 2
SYMMETRY Symmetry
INVARIANTS
  ReferencesGapFree
  FeeInForce
  NoSilentDuplicate
CHECK_DEADLOCK FALSE
