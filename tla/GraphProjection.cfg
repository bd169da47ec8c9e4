SPECIFICATION FairSpec
CONSTANTS
  g1 = g1
  g2 = g2
  c1 = c1
  i1 = i1
  i2 = i2
  r1 = r1
  Gateways = {g1, g2}
  Items = {c1, i1, i2, r1}
  Seeded = {c1, i1}
  KindOf <- MCKindOf
  Needs <- MCNeeds
  MaxRows = 2
  MaxFaults = 2
INVARIANTS CaughtUp
PROPERTIES ImplementsReadModel EveryRowProjected
CHECK_DEADLOCK FALSE
