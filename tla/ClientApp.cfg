SPECIFICATION Spec
CONSTANTS
  r1 = r1
  r2 = r2
  e1 = e1
  d1 = d1
  d2 = d2
  Rules <- MCRules
  Booked <- MCBooked
  Events <- MCEvents
  Devices <- MCDevices
  Plans <- MCPlans
  MaxClicks = 5
  MaxChanges = 2
  MaxCalls = 2
  MaxVersion = 5
INVARIANTS SavedAsReviewed ProposalsExclusive ProjectionHonest ActedInRole
PROPERTIES CatchesUp ButtonsComeBack
CHECK_DEADLOCK FALSE
