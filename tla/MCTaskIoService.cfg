SPECIFICATION Spec
CONSTANTS
  Threads = {t1, t2, t3}
  Clients = {c1}
  Ops = {o1, o2}
  Task = Task
  None = None
INVARIANTS
  WorkConservation
  StopIsSafe
  TaskIsUnique
  NoLostWakeup
PROPERTIES
  AllReturn
  ImplementsIoService
