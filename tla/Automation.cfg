\* Two calls in flight over one approved order, two policies, two prices.
SPECIFICATION Spec
CONSTANTS
  a1 = a1
  a2 = a2
  Slots <- TwoSlots
  Policies <- SomePolicies
  Prices <- SomePrices
  Balances = {20000}
  Sale <- SaleOfOne
  Tolerance = 200
  Life = 1
  MaxQuotes = 2
  MaxTime = 1
  MaxWrites = 1
  MaxMoves = 1
SYMMETRY Symmetry
INVARIANTS
  StopHolds
  LimitsKept
PROPERTIES
  ReservedAsReviewed
CHECK_DEADLOCK FALSE
