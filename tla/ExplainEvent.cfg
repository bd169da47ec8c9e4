SPECIFICATION Spec
CONSTANTS
  Cited <- CitedIds
  Answers <- FewAnswers
INVARIANTS
  ClaimsConstrained
  FallbackAgrees
  AllEvidenceReviewed
CHECK_DEADLOCK FALSE
