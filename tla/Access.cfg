\* Two requests in flight, two sessions, two logins in any window of two ticks.
SPECIFICATION Spec
CONSTANTS
  q1 = q1
  q2 = q2
  s1 = s1
  s2 = s2
  Slots <- TwoSlots
  Sessions <- TwoSessions
  Limit = 2
  Window = 2
  Lifetime = 2
  MaxTime = 4
  MaxEpoch = 1
SYMMETRY Symmetry
INVARIANTS
  LoginsLimited
  DisablingHolds
  RevocationHolds
