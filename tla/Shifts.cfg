\* One worker with two tabs and an administrator; the clock moves 45 seconds at a time.
SPECIFICATION Spec
CONSTANTS
  q1 = q1
  q2 = q2
  s1 = s1
  s2 = s2
  s3 = s3
  Slots <- TwoSlots
  Rows <- ThreeRows
  Worker <- WorkerTypes
  Corrections <- CorrectionTypes
  Pauses <- Jumps
  MaxTime = 6
  MaxEvents = 4
  MaxCorrections = 1
SYMMETRY Symmetry
INVARIANTS
  UndisturbedEventRepairs
  OneOpenShift
  MinutesNear
PROPERTIES
  ReopenedByWhom
CHECK_DEADLOCK FALSE
