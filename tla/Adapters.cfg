SPECIFICATION Spec
CONSTANTS
  MaxOps = 3
INVARIANTS
  OutcomesTrue
  Isolated
PROPERTIES
  Returns
  ImplementsContract
CHECK_DEADLOCK FALSE
