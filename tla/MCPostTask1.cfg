SPECIFICATION Spec
CONSTANTS
  PoolSize = 4
  PostCount = 7
  IndexValues = 4
  CountValues = 8
INVARIANT OneTaskInTurn
PROPERTY ImplementsCounter
