CONSTANTS
  Jobs = {j1, j2}
  Processes = {p1, p2}
  Workers = {w1, w2}
  Null = Null
  WorkerId <- MCDistinctIds
  BatchSize = 2
  InitialRows <- MCAllRows
  ResetAt <- MCResetAt
  Lease = 1
  MaxAttempts = 2
  BackoffBase = 1
  BackoffCap = 2
  QuotaDefer = 1
  MaxClock = 1
SYMMETRY JobSymmetry
SPECIFICATION Spec
INVARIANTS
  FormerClaimantFenced
PROPERTIES
  ImplementsLease
