\* One request at a time, one order, one change of key.
SPECIFICATION Spec
CONSTANTS
  q1 = q1
  q2 = q2
  o1 = o1
  o2 = o2
  Slots <- OneSlot
  Orders <- OneOrder
  MaxVersion = 2
  MaxSaves = 1
  MaxSecrets = 1
INVARIANTS
  OwnerCanSignIn
CHECK_DEADLOCK FALSE
