SPECIFICATION FairSpec
CONSTANTS
  w1 = w1
  w2 = w2
  p1 = p1
  e1 = e1
  e2 = e2
  e3 = e3
  r1 = r1
  d1 = d1
  Workers = {w1, w2}
  Partitions = {p1}
  Events = {e1, e2, e3}
  PartitionOf <- OnePartition
  Malformed = {e2}
  Incompatible = {e3}
  Decisive = {e1}
  Rules = {r1}
  Watches <- AllRulesMatch
  Devices = {d1}
  TargetOf <- AllOnD1
  MaxRecords = 2
  MaxFaults = 2
INVARIANTS NothingSkipped EffectsOnce
PROPERTIES EveryRecordHandled
CHECK_DEADLOCK FALSE
