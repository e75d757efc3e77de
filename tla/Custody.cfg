\* Two requests in flight, two orders, two changes of key.
SPECIFICATION Spec
CONSTANTS
  q1 = q1
  q2 = q2
  o1 = o1
  o2 = o2
  Slots <- TwoSlots
  Orders <- TwoOrders
  MaxVersion = 3
  MaxSaves = 3
  MaxSecrets = 2
SYMMETRY Symmetry
INVARIANTS
  RetirementKeepsCredentials
  RotationKeepsSaves
  EnabledIsProved
CHECK_DEADLOCK FALSE
