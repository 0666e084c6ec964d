SPECIFICATION Spec
CONSTANTS
  a = a
  e = e
  Files = {a, e}
  First <- MCFirst
  Fat0 <- MCFat0
  Size0 <- MCSize0
  Hint0 = 2
  FreeCount = 3
  LastCluster = 6
  EOC = 7
  NoCluster = 99
  ClusterBytes = 2
  NBUF = 1
  Values = {0, 1}
  Counts = {3}
  MaxSize = 6
INVARIANTS
  ReadsWhatWasWritten
  BytesKept
PROPERTIES
  CloseDurable
  ChainsKept
