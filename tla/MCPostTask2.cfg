SPECIFICATION Spec
CONSTANTS
  PoolSize = 4
  PostCount = 4
INVARIANTS
  OneTaskPerPair
  OvershootIsBounded
PROPERTY WaitReturns
