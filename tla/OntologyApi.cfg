SPECIFICATION Spec
CONSTANTS
  Requests = {q1, q2}
  Readers = {dialog, explorer}
  Explorers = {explorer}
  Entries <- Rows
  Asked <- Posted
  KindOf <- Kind
  KeyOf <- Name
  RefersTo <- Refs
  Valid <- ValidEntries
  Seeded <- Migrated
  RequiredIndividual = "person"
  RequiredRelation = "assigned"
  NodeLimit = 4
  MaxReads = 1
SYMMETRY RequestSymmetry
INVARIANTS WritesSound 
CHECK_DEADLOCK FALSE
