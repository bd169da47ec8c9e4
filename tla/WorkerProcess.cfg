SPECIFICATION Spec
CONSTANTS
  w1 = w1
  w2 = w2
  Workers = {w1, w2}
  Watched = {w1}
  Interval = 2
  MaxTime = 2
  MaxFaults = 3
INVARIANTS Orderly OncePerInterval
PROPERTY StartsAndStops
CHECK_DEADLOCK FALSE
