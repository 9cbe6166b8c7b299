SPECIFICATION Spec
CONSTANTS
  Totals = {0, 1, 2, 3, 4, 5}
  MinBody = 1
  MaxBody = 2
INVARIANTS
  FramesAligned
  ResultByTotals
PROPERTY SessionsEnd
