SPECIFICATION Spec
CONSTANTS
  t1 = t1
  t2 = t2
  Terminals <- MCTerminals
  Plan <- MCPlan
  Main = "main"
  Conflicting = {"b"}
  Push = TRUE
  Validate = TRUE
  MaxRun = 1
  MaxKill = 2
SYMMETRY Symmetry
INVARIANTS
  
  RenameAllOrNothing
  PublishedIsFinal
PROPERTIES
  SettledWhole
CHECK_DEADLOCK FALSE
