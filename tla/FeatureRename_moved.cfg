SPECIFICATION Spec
CONSTANTS
  N = 2
  Others = {q1, q2}
  MaxKill = 2
  MaxUser = 1
SYMMETRY Commands
INVARIANTS
  NothingOverwritten
  NobodyInside
PROPERTIES
  WholeOrNothing
CHECK_DEADLOCK FALSE
