CONSTANTS
  Jobs = {j1, j2}
  Processes = {p1, p2}
  Workers = {scheduler}
  Null = Null
  WorkerId <- MCSharedId
  BatchSize = 2
  InitialRows <- MCAllRows
  ResetAt <- MCNoDeferral
  Lease = 1
  MaxAttempts = 2
  BackoffBase = 1
  BackoffCap = 2
  QuotaDefer = 1
  MaxClock = 1
SPECIFICATION FairSpec
INVARIANTS
  TypeOK
  RunningNotVisible
  RowsConsistent
PROPERTIES
  CommitsMoveForward
  CyclesEnd
