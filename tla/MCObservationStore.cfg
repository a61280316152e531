CONSTANTS
  Sessions = {s1, s2}
  Keys = {k1, k2}
  k1 = k1
  k2 = k2
  v1 = v1
  v2 = v2
  fine = fine
  Values = {v1, v2, fine}
  Stored <- MCStored
  NoValue = NoValue
  MaxAttempts = 3
  MaxRevision <- MCMaxRevision
  MaxRecords = 2
SYMMETRY Symmetry
SPECIFICATION Spec
INVARIANTS
  TypeOK
  RevisionsContiguous
  RevisionsDiffer
  NothingSwallowed
  EveryLossIsAnotherRevision
PROPERTY AppendOnly
