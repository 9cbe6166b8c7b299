SPECIFICATION Spec
CONSTANTS
  Buffers = 3
  BlockSize = 3
  Spaces = {1, 2, 3}
INVARIANTS
  ReadingResumes
  InOrder
  EchoSurvives
  ErrorMeansFailure
PROPERTIES
  EchoGoesOn
  StopEndsSession
