SPECIFICATION FeedFairSpec
CONSTANTS
  e1 = e1
  e2 = e2
  e3 = e3
  Events = {e1, e2, e3}
  OccurredAt <- ClockAhead
  Window = 2
  Batch = 2
  MaxFaults = 2
  MaxRefreshes = 2
INVARIANTS ReceivedIsShown
PROPERTY ReplayExact
CHECK_DEADLOCK FALSE
