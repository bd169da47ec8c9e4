SPECIFICATION RequestsFairSpec
CONSTANTS
  c1 = c1
  c2 = c2
  p1 = p1
  x1 = x1
  x2 = x2
  v1 = v1
  v2 = v2
  Visitors = {v1, v2}
  KindOf <- MixedKind
  Limit <- OneADay
  Tools <- ThreeTools
  Requests = {c1, p1, x1}
  VisitorOf <- OneVisitor
  MaxTurns = 3
  Runtimes = {TRUE, FALSE}
  MaxDay = 1
  MaxSpent = 9
INVARIANTS
  AllowanceKept
  OntologyFirst
PROPERTY RequestsEnd
CHECK_DEADLOCK FALSE
