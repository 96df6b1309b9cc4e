SPECIFICATION Spec
CONSTANTS
  MaxTasks = 3
  MaxDepth = 1
INVARIANTS Intact ContextKept
PROPERTY RunsAgain
CONSTRAINT Unharmed
