CONSTANTS
  Price <- MCPrice
  MaxId = 6
  Venue <- MCVenue
  NumEvents = 4
  Event <- MixedFeed
  Baseline = 10
  EdgeCoversCost = TRUE
  None = None
SPECIFICATION Spec
INVARIANTS TypeOK BookIsVenue PlanFromVenueBook
PROPERTIES NoUpdateLost StreamNeverRewinds MirrorSpec
