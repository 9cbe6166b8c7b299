SPECIFICATION Spec
CONSTANT PostCount = 6
PROPERTY ImplementsPostTask4
