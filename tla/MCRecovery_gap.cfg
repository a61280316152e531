CONSTANTS
  Refreshers = {r1}
  MaxDay = 5
  FirstDay = 3
  Sessions <- MCSessions
  Late <- MCLate
  Malformed <- MCMalformed
  Lookback = 3
  ChunkSize = 2
SPECIFICATION Spec
INVARIANT UnpublishedNotSkipped
