SPECIFICATION Spec
CONSTANTS
  Timers = {t1, t2, t3, t4, t5, t6}
  Delays = {0, 1, 3}
  Spare = 1
  Usec = 2
  MaxWait = 1
  MaxTime = 3
  Unarmed = Unarmed
SYMMETRY Symmetry
INVARIANTS
  HeapConsistent
  ArmedInTime
PROPERTY ImplementsTimerSet
