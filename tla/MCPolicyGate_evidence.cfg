CONSTANTS
  Reviewers = {r1}
  Checkers = {c1}
  Recordable <- MCRecordable
  InitialPolicies <- MCInitialPolicies
  MaxDecisions = 5
SPECIFICATION Spec
INVARIANT EvidenceAuthorizes
