SPECIFICATION Spec
CONSTANT PostCount = 6
INVARIANTS
  OneHandlerPerBatch
  TasksConserved
  AllDoneAtReturn
PROPERTY ImplementsCounter
