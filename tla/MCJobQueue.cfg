CONSTANTS
  p1 = p1
  p2 = p2
  scheduler = scheduler
  other = other
  Jobs = {j1}
  Processes = {p1, p2, p3}
  Workers = {scheduler, other}
  Null = Null
  WorkerId <- MCWorkerId
  ResetAt <- MCResetAt
  RetryAt <- MCRetryAt
  Lease = 1
  MaxAttempts = 2
  BackoffBase = 1
  BackoffCap = 2
  QuotaDefer = 1
  MaxClock = 3
  MaxGeneration = 4
SYMMETRY Symmetry
SPECIFICATION Spec
INVARIANTS
  TypeOK
  OwnershipRecorded
  AtMostOneLiveClaim
  LiveClaimCountsAttempts
  AttemptsPaidByClaims
  IInv
PROPERTY ImplementsLease
