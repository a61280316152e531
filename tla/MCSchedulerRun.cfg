CONSTANTS
  s1 = s1
  s2 = s2
  s3 = s3
  a = a
  b = b
  c = c
  o = o
  EnabledSources <- MCEnabledSources
  Registered <- MCRegistered
  Identities <- MCIdentities
  MaxListings = 2
  BatchSize = 2
  Valid = {o}
  MaxRuns = 2
  PipeCapacity = 1
  Sizes = {1, 2}
SPECIFICATION Spec
INVARIANTS
  TypeOK
  CallSafe
  DoneMeansStored
  ScrapeMissesNoJob
PROPERTIES
  SuccessIsDurable
  FailureKeepsNoHalf
  RunEnds
