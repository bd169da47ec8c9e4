SPECIFICATION FairSpec
CONSTANTS
  w1 = w1
  w2 = w2
  e1 = e1
  e2 = e2
  e3 = e3
  r1 = r1
  r2 = r2
  r3 = r3
  r4 = r4
  d1 = d1
  d2 = d2
  Workers = {w1, w2}
  Editors = {o1}
  Edited <- EditR1
  Events = {e1, e2, e3}
  Rules = {r1, r2, r3, r4}
  Devices = {d1, d2}
  Watched <- TwoSensors
  Terms <- TwoTerms
  Outages = {{}, {d2}}
  Tables <- AllButOne
  Nobody = Nobody
  MaxTime = 2
  MaxDeliveries = 2
  MaxChanges = 1
INVARIANTS NoRuleMissed
PROPERTIES EvaluationsSerialisable EvaluationsEnd
CHECK_DEADLOCK FALSE
