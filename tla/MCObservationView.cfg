CONSTANTS
  hi = hi
  lo = lo
  off = off
  main = main
  spare = spare
  x = x
  y = y
  None = None
  Sources = {hi, lo, off}
  EnabledSources <- MCEnabledSources
  Scopes = {main, spare}
  Closes = {x, y}
  Days <- MCDays
  Today = 2
  Lookback = 1
  MaxRangeDays = 1
  Expectation <- MCExpectation
  InitialRows <- MCInitialRows
  InitialPolicies <- MCInitialPolicies
  Decisions <- MCDecisions
  Revisions <- MCRevisions
  MaxChanges = 3
CHECK_DEADLOCK FALSE
SPECIFICATION Spec
INVARIANTS
  TypeOK
  PublishedWasAuthorized
  CurrentRevision
  PriorityKept
  StatusAgrees
