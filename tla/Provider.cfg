\* Two calls in flight, one retry, offers with fractions of a cent.
SPECIFICATION Spec
CONSTANTS
  c1 = c1
  c2 = c2
  Slots <- TwoSlots
  MaxRetries = 1
  Cool = 2
  Offers <- SomeOffers
  Amounts = {1, 30, 1000}
INVARIANTS
  SentAsAllowed
  FailuresBounded
  QuoteIsBestOffer
PROPERTIES
  CircuitReopens
