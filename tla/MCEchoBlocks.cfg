SPECIFICATION Spec
CONSTANTS
  SessionCount = 2
  ThreadCounts = {1, 2}
  BlockSize = 2
  Space = 1
  MaxBroken = 1
INVARIANT ErrorMeansFailure
PROPERTIES
  ClientEnds
  BlockComesBack
