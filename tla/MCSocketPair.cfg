SPECIFICATION Spec
CONSTANTS
  PairCount = 4
  ActiveCount = 3
  WriteCount = 9
INVARIANTS
  CountersTellInFlight
  OnlyFirstByte
  FinalCount
PROPERTY RunDoesReturn
