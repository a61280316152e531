CONSTANTS
  Reviewers = {r1, r2}
  Checkers = {c1}
  Recordable <- MCRecordable
  InitialPolicies <- MCInitialPolicies
  MaxDecisions = 5
SYMMETRY Symmetry
SPECIFICATION Spec
INVARIANTS
  TypeOK
  VersionsContiguous
  GrantsWereApproved
  EvidenceWasInForce
